----------------------- MODULE TripleGenerationProofs -----------------------
(***************************************************************************)
(* For any number of parties, rounds and calls: the multipliers of a party *)
(* and its main thread hand the vectors of bits and the connections over   *)
(* to one another, without a lock, so that no two of them use one at once, *)
(* and a call that is over leaves nothing to the next                      *)
(* (OT/NPartyTripleGenerator.hpp, OT/OTMultiplier.hpp).                    *)
(***************************************************************************)
EXTENDS TripleGeneration, WellFoundedInduction, FiniteSetTheorems, TLAPS

(* The operations of main, and of a multiplier with the vector each is      *)
(* about.                                                                   *)
MainOps == {"job", "resize", "collect", "lock", "unlock", "go", "randomize", "amplify",
            "combine", "talk", "shrink"}
MultiplierOps == {"send", "receive", "pop", "answer"} \X {0, 1, 2, 3}

(* What a concatenation holds, by position.                                 *)
IsJoin(u, s, t) ==
  /\ Len(u) = Len(s) + Len(t)
  /\ \A i \in 1 .. Len(s) : u[i] = s[i]
  /\ \A i \in 1 .. Len(t) : u[Len(s) + i] = t[i]

(* A concatenation of sequences is one.                                     *)
LEMMA Joined ==
  ASSUME NEW S, NEW s \in Seq(S), NEW t \in Seq(S)
  PROVE  s \o t \in Seq(S) /\ IsJoin(s \o t, s, t)
BY DEF IsJoin

(* A script repeated n times: where an operation of round r + 1 is.         *)
LEMMA Rounds ==
  ASSUME NEW S, NEW s \in Seq(S), NEW n \in Nat, NEW m \in Nat \ {0}, Len(s) = m
  PROVE  /\ Repeated(s, n) \in Seq(S) /\ Len(Repeated(s, n)) = n * m
         /\ \A r \in 0 .. n - 1, k \in 0 .. m - 1 : Repeated(s, n)[r * m + k + 1] = s[k + 1]
<1>1. Repeated(s, n) = [i \in 1 .. n * m |-> s[((i - 1) % m) + 1]]
  BY DEF Repeated
<1>2. n * m \in Nat
  OBVIOUS
<1>3. \A i \in 1 .. n * m : ((i - 1) % m) + 1 \in 1 .. m
  OBVIOUS
<1>4. \A i \in 1 .. n * m : s[((i - 1) % m) + 1] \in S
  BY <1>3
<1>5. Repeated(s, n) \in Seq(S) /\ Len(Repeated(s, n)) = n * m
  BY <1>1, <1>2, <1>4
<1>6. ASSUME NEW r \in 0 .. n - 1, NEW k \in 0 .. m - 1
      PROVE  Repeated(s, n)[r * m + k + 1] = s[k + 1]
  <2>1. r * m + k + 1 \in 1 .. n * m
    <3>1. (r + 1) * m <= n * m
      OBVIOUS
    <3>2. (r + 1) * m = r * m + m /\ r * m \in Nat
      OBVIOUS
    <3> QED BY <3>1, <3>2, <1>2
  <2>2. (r * m + k) % m = k
    OBVIOUS
  <2>3. (r * m + k + 1) - 1 = r * m + k
    OBVIOUS
  <2> QED BY <1>1, <2>1, <2>2, <2>3
<1> QED BY <1>5, <1>6

(* generateTriples: the operations of main, by round (from 0).              *)
LEMMA MainTriples ==
  /\ Len(TriplesScript) = 5 + 10 * Loops
  /\ TriplesScript[1] = "job" /\ TriplesScript[2] = "resize"
  /\ TriplesScript[3] = "collect" /\ TriplesScript[4] = "lock"
  /\ TriplesScript[5 + 10 * Loops] = "unlock"
  /\ \A r \in 0 .. Loops - 1, k \in 0 .. 9 :
       TriplesScript[5 + 10 * r + k] = TripleRound[k + 1]
<1> USE SizeAssumption
<1> DEFINE R == Repeated(TripleRound, Loops)
           H == Lead \o R
           U == <<"unlock">>
           T == H \o U
<1>1. TripleRound \in Seq(MainOps) /\ Len(TripleRound) = 10
  BY DEF TripleRound, MainOps
<1>2. /\ R \in Seq(MainOps) /\ Len(R) = Loops * 10
      /\ \A r \in 0 .. Loops - 1, k \in 0 .. 9 : R[r * 10 + k + 1] = TripleRound[k + 1]
  <2>1. 10 \in Nat \ {0} /\ Loops \in Nat /\ 10 - 1 = 9
    OBVIOUS
  <2> HIDE DEF R
  <2>2. ASSUME NEW m \in Nat \ {0}, Len(TripleRound) = m
        PROVE  /\ R \in Seq(MainOps) /\ Len(R) = Loops * m
               /\ \A r \in 0 .. Loops - 1, k \in 0 .. m - 1 :
                    R[r * m + k + 1] = TripleRound[k + 1]
    <3>1. TripleRound \in Seq(MainOps) /\ Loops \in Nat
      BY <1>1
    <3> QED BY <3>1, <2>2, Rounds, ZenonT(120) DEF R
  <2> QED BY <1>1, <2>1, <2>2
<1> HIDE DEF R
<1>3. /\ Lead \in Seq(MainOps) /\ Len(Lead) = 4 /\ Lead[1] = "job" /\ Lead[2] = "resize"
      /\ Lead[3] = "collect" /\ Lead[4] = "lock"
  BY DEF Lead, MainOps
<1>4. H \in Seq(MainOps) /\ IsJoin(H, Lead, R)
  BY <1>2, <1>3, Joined, ZenonT(120)
<1> HIDE DEF H
<1>5. U \in Seq(MainOps) /\ Len(U) = 1 /\ U[1] = "unlock"
  BY DEF MainOps
<1> HIDE DEF U
<1>6. IsJoin(T, H, U)
  BY <1>4, <1>5, Joined, ZenonT(120)
<1>7. TriplesScript = T
  BY DEF TriplesScript, H, R, U
<1> HIDE DEF T
<1>8. /\ Len(H) = 4 + 10 * Loops /\ Len(T) = 5 + 10 * Loops
      /\ H[1] = "job" /\ H[2] = "resize" /\ H[3] = "collect" /\ H[4] = "lock"
  BY <1>2, <1>3, <1>4, <1>5, <1>6 DEF IsJoin
<1>9. T[5 + 10 * Loops] = "unlock" /\ \A i \in 1 .. 4 + 10 * Loops : T[i] = H[i]
  BY <1>5, <1>6, <1>8 DEF IsJoin
<1>10. ASSUME NEW r \in 0 .. Loops - 1, NEW k \in 0 .. 9
       PROVE  T[5 + 10 * r + k] = TripleRound[k + 1]
  <2>1. /\ r * 10 + k + 1 \in 1 .. Loops * 10
        /\ 5 + 10 * r + k = 4 + (r * 10 + k + 1)
        /\ 5 + 10 * r + k \in 1 .. 4 + 10 * Loops
    OBVIOUS
  <2>2. H[4 + (r * 10 + k + 1)] = R[r * 10 + k + 1]
    BY <2>1, <1>2, <1>3, <1>4 DEF IsJoin
  <2> QED BY <2>1, <2>2, <1>2, <1>9
<1> QED BY <1>7, <1>8, <1>9, <1>10

(* generateInputs: the operations of the owner's main, and of another's.    *)
LEMMA MainInputs ==
  /\ Len(InputsScript(TRUE)) = 8
  /\ InputsScript(TRUE)[1] = "shrink" /\ InputsScript(TRUE)[2] = "job"
  /\ InputsScript(TRUE)[3] = "randomize" /\ InputsScript(TRUE)[4] = "go"
  /\ InputsScript(TRUE)[5] = "collect" /\ InputsScript(TRUE)[6] = "talk"
  /\ InputsScript(TRUE)[7] = "combine" /\ InputsScript(TRUE)[8] = "talk"
  /\ Len(InputsScript(FALSE)) = 6
  /\ InputsScript(FALSE)[1] = "shrink" /\ InputsScript(FALSE)[2] = "job"
  /\ InputsScript(FALSE)[3] = "collect" /\ InputsScript(FALSE)[4] = "talk"
  /\ InputsScript(FALSE)[5] = "combine" /\ InputsScript(FALSE)[6] = "talk"
<1> DEFINE a == <<"shrink", "job">>
           b == <<"randomize", "go">>
           e == <<>>
           c == <<"collect", "talk", "combine", "talk">>
           ab == a \o b
           ae == a \o e
           abc == ab \o c
           aec == ae \o c
<1>1. /\ a \in Seq(MainOps) /\ Len(a) = 2 /\ a[1] = "shrink" /\ a[2] = "job"
      /\ b \in Seq(MainOps) /\ Len(b) = 2 /\ b[1] = "randomize" /\ b[2] = "go"
      /\ c \in Seq(MainOps) /\ Len(c) = 4 /\ c[1] = "collect" /\ c[2] = "talk"
      /\ c[3] = "combine" /\ c[4] = "talk"
      /\ e \in Seq(MainOps) /\ Len(e) = 0
  BY DEF MainOps
<1>2. InputsScript(TRUE) = abc /\ InputsScript(FALSE) = aec
  BY DEF InputsScript
<1> HIDE DEF a, b, c, e
<1>3. ab \in Seq(MainOps) /\ IsJoin(ab, a, b) /\ ae \in Seq(MainOps) /\ IsJoin(ae, a, e)
  BY <1>1, Joined, ZenonT(120)
<1> HIDE DEF ab, ae
<1>4. IsJoin(abc, ab, c) /\ IsJoin(aec, ae, c)
  BY <1>1, <1>3, Joined, ZenonT(120)
<1> HIDE DEF abc, aec
<1>5. /\ Len(ab) = 4 /\ ab[1] = "shrink" /\ ab[2] = "job" /\ ab[3] = "randomize" /\ ab[4] = "go"
      /\ Len(ae) = 2 /\ ae[1] = "shrink" /\ ae[2] = "job"
  BY <1>1, <1>3 DEF IsJoin
<1>6. /\ Len(abc) = 8 /\ abc[1] = "shrink" /\ abc[2] = "job" /\ abc[3] = "randomize"
      /\ abc[4] = "go" /\ abc[5] = "collect" /\ abc[6] = "talk" /\ abc[7] = "combine"
      /\ abc[8] = "talk"
  BY <1>1, <1>4, <1>5 DEF IsJoin
<1>7. /\ Len(aec) = 6 /\ aec[1] = "shrink" /\ aec[2] = "job" /\ aec[3] = "collect"
      /\ aec[4] = "talk" /\ aec[5] = "combine" /\ aec[6] = "talk"
  BY <1>1, <1>4, <1>5 DEF IsJoin
<1> QED BY <1>2, <1>6, <1>7

(* A round of multiplyForTriples: two vectors and an answer, then three.    *)
LEMMA OneRound ==
  /\ MultiplierRound \in Seq(MultiplierOps) /\ Len(MultiplierRound) = 14
  /\ \A k \in 0 .. 13 :
       /\ MultiplierRound[k + 1][1] = "pop" <=> k \in {0, 6}
       /\ MultiplierRound[k + 1][1] = "answer" <=> k \in {5, 13}
  /\ \A j \in 1 .. 2 : /\ MultiplierRound[2 * j] = <<"send", j>>
                       /\ MultiplierRound[2 * j + 1] = <<"receive", j>>
  /\ \A j \in 1 .. 3 : /\ MultiplierRound[2 * j + 6] = <<"send", j>>
                       /\ MultiplierRound[2 * j + 7] = <<"receive", j>>
<1> DEFINE p == <<Pop>>
           e1 == Exchange(1)
           e2 == Exchange(2)
           e3 == Exchange(3)
           m == <<Answer, Pop>>
           z == <<Answer>>
           a1 == p \o e1
           a2 == a1 \o e2
           a3 == a2 \o m
           a4 == a3 \o e1
           a5 == a4 \o e2
           a6 == a5 \o e3
           a7 == a6 \o z
<1>1. /\ e1 \in Seq(MultiplierOps) /\ Len(e1) = 2 /\ e1[1] = <<"send", 1>> /\ e1[2] = <<"receive", 1>>
      /\ e2 \in Seq(MultiplierOps) /\ Len(e2) = 2 /\ e2[1] = <<"send", 2>> /\ e2[2] = <<"receive", 2>>
      /\ e3 \in Seq(MultiplierOps) /\ Len(e3) = 2 /\ e3[1] = <<"send", 3>> /\ e3[2] = <<"receive", 3>>
  BY DEF Exchange, MultiplierOps
<1>2. /\ p \in Seq(MultiplierOps) /\ Len(p) = 1 /\ p[1][1] = "pop"
      /\ z \in Seq(MultiplierOps) /\ Len(z) = 1 /\ z[1][1] = "answer"
      /\ m \in Seq(MultiplierOps) /\ Len(m) = 2 /\ m[1][1] = "answer" /\ m[2][1] = "pop"
  BY DEF Pop, Answer, MultiplierOps
<1>3. MultiplierRound = a7
  BY DEF MultiplierRound
<1> HIDE DEF p, e1, e2, e3, m, z
<1>4. a1 \in Seq(MultiplierOps) /\ IsJoin(a1, p, e1)
  BY <1>1, <1>2, Joined, ZenonT(120)
<1> HIDE DEF a1
<1>5. a2 \in Seq(MultiplierOps) /\ IsJoin(a2, a1, e2)
  BY <1>1, <1>4, Joined, ZenonT(120)
<1> HIDE DEF a2
<1>6. a3 \in Seq(MultiplierOps) /\ IsJoin(a3, a2, m)
  BY <1>2, <1>5, Joined, ZenonT(120)
<1> HIDE DEF a3
<1>7. a4 \in Seq(MultiplierOps) /\ IsJoin(a4, a3, e1)
  BY <1>1, <1>6, Joined, ZenonT(120)
<1> HIDE DEF a4
<1>8. a5 \in Seq(MultiplierOps) /\ IsJoin(a5, a4, e2)
  BY <1>1, <1>7, Joined, ZenonT(120)
<1> HIDE DEF a5
<1>9. a6 \in Seq(MultiplierOps) /\ IsJoin(a6, a5, e3)
  BY <1>1, <1>8, Joined, ZenonT(120)
<1> HIDE DEF a6
<1>10. a7 \in Seq(MultiplierOps) /\ IsJoin(a7, a6, z)
  BY <1>2, <1>9, Joined, ZenonT(120)
<1> HIDE DEF a7
<1>11. /\ Len(a3) = 7 /\ a3[1][1] = "pop" /\ a3[2] = <<"send", 1>> /\ a3[3] = <<"receive", 1>>
       /\ a3[4] = <<"send", 2>> /\ a3[5] = <<"receive", 2>> /\ a3[6][1] = "answer" /\ a3[7][1] = "pop"
  <2>1. Len(a1) = 3 /\ a1[1][1] = "pop" /\ a1[2] = <<"send", 1>> /\ a1[3] = <<"receive", 1>>
    BY <1>1, <1>2, <1>4 DEF IsJoin
  <2>2. /\ Len(a2) = 5 /\ a2[1][1] = "pop" /\ a2[2] = <<"send", 1>> /\ a2[3] = <<"receive", 1>>
        /\ a2[4] = <<"send", 2>> /\ a2[5] = <<"receive", 2>>
    BY <1>1, <2>1, <1>5 DEF IsJoin
  <2> QED BY <1>2, <2>2, <1>6 DEF IsJoin
<1>12. /\ Len(a5) = 11 /\ \A i \in 1 .. 7 : a5[i] = a3[i]
       /\ a5[8] = <<"send", 1>> /\ a5[9] = <<"receive", 1>> /\ a5[10] = <<"send", 2>> /\ a5[11] = <<"receive", 2>>
  <2>1. Len(a4) = 9 /\ \A i \in 1 .. 7 : a4[i] = a3[i]
    BY <1>1, <1>11, <1>7 DEF IsJoin
  <2>2. a4[8] = <<"send", 1>> /\ a4[9] = <<"receive", 1>>
    BY <1>1, <1>11, <1>7 DEF IsJoin
  <2>3. Len(a5) = 11 /\ \A i \in 1 .. 9 : a5[i] = a4[i]
    BY <1>1, <2>1, <1>8 DEF IsJoin
  <2>4. a5[10] = <<"send", 2>> /\ a5[11] = <<"receive", 2>>
    BY <1>1, <2>1, <1>8 DEF IsJoin
  <2> QED BY <2>1, <2>2, <2>3, <2>4
<1>13. /\ Len(a7) = 14 /\ \A i \in 1 .. 11 : a7[i] = a5[i]
       /\ a7[12] = <<"send", 3>> /\ a7[13] = <<"receive", 3>> /\ a7[14][1] = "answer"
  <2>1. Len(a6) = 13 /\ \A i \in 1 .. 11 : a6[i] = a5[i]
    BY <1>1, <1>12, <1>9 DEF IsJoin
  <2>2. a6[12] = <<"send", 3>> /\ a6[13] = <<"receive", 3>>
    BY <1>1, <1>12, <1>9 DEF IsJoin
  <2>3. Len(a7) = 14 /\ \A i \in 1 .. 13 : a7[i] = a6[i]
    BY <1>2, <2>1, <1>10 DEF IsJoin
  <2>4. a7[14][1] = "answer"
    BY <1>2, <2>1, <1>10 DEF IsJoin
  <2> QED BY <2>1, <2>2, <2>3, <2>4
<1>14. ASSUME NEW k \in 0 .. 13
       PROVE  /\ a7[k + 1][1] = "pop" <=> k \in {0, 6}
              /\ a7[k + 1][1] = "answer" <=> k \in {5, 13}
  BY <1>11, <1>12, <1>13
<1>15. /\ \A j \in 1 .. 2 : a7[2 * j] = <<"send", j>> /\ a7[2 * j + 1] = <<"receive", j>>
       /\ \A j \in 1 .. 3 : a7[2 * j + 6] = <<"send", j>> /\ a7[2 * j + 7] = <<"receive", j>>
  BY <1>11, <1>12, <1>13
<1> QED BY <1>3, <1>10, <1>13, <1>14, <1>15

(* multiplyForTriples: the operations of a multiplier, by round.            *)
LEMMA MultiplierTriples ==
  ASSUME NEW p, NEW q, job[p][q].op = "triples"
  PROVE  /\ Len(MultiplierScript(p, q)) = 1 + 14 * Loops
         /\ MultiplierScript(p, q) \in Seq(MultiplierOps)
         /\ MultiplierScript(p, q)[1][1] = "answer"
         /\ \A r \in 0 .. Loops - 1, k \in 0 .. 13 :
              MultiplierScript(p, q)[2 + 14 * r + k] = MultiplierRound[k + 1]
<1> USE SizeAssumption
<1> DEFINE R == Repeated(MultiplierRound, Loops)
           z == <<Answer>>
           T == z \o R
<1>1. /\ R \in Seq(MultiplierOps) /\ Len(R) = Loops * 14
      /\ \A r \in 0 .. Loops - 1, k \in 0 .. 13 : R[r * 14 + k + 1] = MultiplierRound[k + 1]
  <2>1. 14 \in Nat \ {0} /\ Loops \in Nat /\ 14 - 1 = 13
    OBVIOUS
  <2> HIDE DEF R
  <2>2. ASSUME NEW m \in Nat \ {0}, Len(MultiplierRound) = m
        PROVE  /\ R \in Seq(MultiplierOps) /\ Len(R) = Loops * m
               /\ \A r \in 0 .. Loops - 1, k \in 0 .. m - 1 :
                    R[r * m + k + 1] = MultiplierRound[k + 1]
    <3>1. MultiplierRound \in Seq(MultiplierOps) /\ Loops \in Nat
      BY OneRound
    <3> QED BY <3>1, <2>2, Rounds, ZenonT(120) DEF R
  <2>3. Len(MultiplierRound) = 14
    BY OneRound
  <2> QED BY <2>1, <2>2, <2>3
<1>2. z \in Seq(MultiplierOps) /\ Len(z) = 1 /\ z[1][1] = "answer"
  BY DEF Answer, MultiplierOps
<1>3. MultiplierScript(p, q) = T
  BY DEF MultiplierScript
<1> HIDE DEF R, z
<1>4. T \in Seq(MultiplierOps) /\ IsJoin(T, z, R)
  BY <1>1, <1>2, Joined, ZenonT(120)
<1> HIDE DEF T
<1>5. Len(T) = 1 + 14 * Loops /\ T[1][1] = "answer"
  BY <1>1, <1>2, <1>4 DEF IsJoin
<1>6. ASSUME NEW r \in 0 .. Loops - 1, NEW k \in 0 .. 13
      PROVE  T[2 + 14 * r + k] = MultiplierRound[k + 1]
  <2>1. r * 14 + k + 1 \in 1 .. Loops * 14 /\ 2 + 14 * r + k = 1 + (r * 14 + k + 1)
    OBVIOUS
  <2>2. T[1 + (r * 14 + k + 1)] = R[r * 14 + k + 1]
    BY <2>1, <1>1, <1>2, <1>4 DEF IsJoin
  <2> QED BY <2>1, <2>2, <1>1
<1> QED BY <1>3, <1>4, <1>5, <1>6

-----------------------------------------------------------------------------
(* The job of the call main is in.  Every call is of one of these kinds.    *)
J(p) == IF call[p] = 0 THEN Start ELSE program[call[p]]

InTriples(p)   == call[p] \in 1 .. Len(program) /\ J(p).op = "triples"
InInputs(p)    == call[p] \in 1 .. Len(program) /\ J(p).op = "inputs"
InOwnInputs(p) == InInputs(p) /\ J(p).player = p
InInputsOf(p)  == InInputs(p) /\ J(p).player # p
AtTheEnd(p)    == call[p] = Len(program) + 1

(* How many operations the job has for q's multiplier, and which of them    *)
(* pop the inbox or push to the outbox.                                     *)
Length(p, q) == CASE InTriples(p)   -> 1 + 14 * Loops
                  [] InOwnInputs(p) -> 3
                  [] InInputsOf(p)  -> IF J(p).player = q THEN 2 ELSE 1
                  [] OTHER          -> 3

Pops(p, q) == IF InTriples(p) THEN {2 + 14 * r : r \in 0 .. Loops - 1}
                                     \cup {8 + 14 * r : r \in 0 .. Loops - 1}
              ELSE IF InOwnInputs(p) THEN {1} ELSE {}

Answers(p, q) == IF InTriples(p) THEN {1} \cup {7 + 14 * r : r \in 0 .. Loops - 1}
                                         \cup {15 + 14 * r : r \in 0 .. Loops - 1}
                 ELSE {Length(p, q)}

(* The program is a sequence of calls.                                      *)
ProgramOK == program \in Seq(Call)

(* A position after m, in rounds of n operations: its round and its place.  *)
LEMMA Where ==
  ASSUME NEW n \in Nat \ {0}, NEW m \in Nat, NEW L \in Nat, NEW i \in m .. m + n * L - 1
  PROVE  \E r \in 0 .. L - 1, k \in 0 .. n - 1 : i = m + n * r + k
<1> DEFINE r == (i - m) \div n
           k == (i - m) % n
<1>1. i - m \in Nat /\ i - m < n * L
  OBVIOUS
<1>2. r \in Nat /\ k \in 0 .. n - 1 /\ i - m = n * r + k
  BY <1>1
<1>3. r <= L - 1
  <2>1. SUFFICES ASSUME r >= L PROVE FALSE
    BY <1>2
  <2>2. n * r >= n * L
    BY <1>2, <2>1
  <2> QED BY <1>1, <1>2, <2>2
<1> HIDE DEF r, k
<1> QED BY <1>2, <1>3

(* The jobs of a program are none of the marks Idle, Over and Go.           *)
LEMMA JobIs ==
  ASSUME ProgramOK, NEW p, call[p] \in 0 .. Len(program)
  PROVE  /\ J(p).op \in {"start", "triples", "inputs"} /\ J(p) # Idle /\ J(p) # Over /\ J(p) # Go
         /\ call[p] = 0 \/ InTriples(p) \/ InInputs(p)
         /\ call[p] = 0 => J(p) = Start
         /\ call[p] # 0 => J(p) # Start
<1>1. CASE call[p] = 0
  BY <1>1 DEF J, Start, Idle, Over, Go
<1>2. CASE call[p] \in 1 .. Len(program)
  <2>1. program[call[p]] \in Call
    BY <1>2 DEF ProgramOK
  <2> QED BY <1>2, <2>1 DEF J, Call, Triples, Inputs, Idle, Over, Start, Go, InTriples, InInputs
<1> QED BY <1>1, <1>2 DEF ProgramOK

(* The script of a multiplier that has the job of the call: its length, its *)
(* pops and its answers.                                                    *)
LEMMA ScriptIs ==
  ASSUME ProgramOK, NEW p \in Parties, NEW q \in Peers(p), call[p] \in 0 .. Len(program),
         job[p][q] = J(p)
  PROVE  /\ DOMAIN MultiplierScript(p, q) = 1 .. Length(p, q)
         /\ Len(MultiplierScript(p, q)) = Length(p, q)
         /\ \A s \in 1 .. Length(p, q) :
              /\ MultiplierScript(p, q)[s][1] = "pop" <=> s \in Pops(p, q)
              /\ MultiplierScript(p, q)[s][1] = "answer" <=> s \in Answers(p, q)
<1> USE SizeAssumption
<1>1. CASE call[p] = 0
  <2> DEFINE S == {"send", "receive", "answer"} \X {0, KeyExchange}
             e == Exchange(KeyExchange)
             z == <<Answer>>
             T == e \o z
  <2>1. MultiplierScript(p, q) = T
    <3>1. job[p][q].op = "start"
      BY <1>1, JobIs DEF Start
    <3> HIDE DEF e, z
    <3> QED BY <3>1 DEF MultiplierScript, e, z
  <2>4. /\ e \in Seq(S) /\ Len(e) = 2 /\ e[1][1] = "send" /\ e[2][1] = "receive"
        /\ z \in Seq(S) /\ Len(z) = 1 /\ z[1][1] = "answer"
    BY DEF Exchange, Answer, KeyExchange
  <2> HIDE DEF e, z, S
  <2>5. T \in Seq(S) /\ IsJoin(T, e, z)
    BY <2>4, Joined, ZenonT(120)
  <2> HIDE DEF T
  <2>6. Len(T) = 3 /\ T[1][1] = "send" /\ T[2][1] = "receive" /\ T[3][1] = "answer"
    BY <2>4, <2>5 DEF IsJoin
  <2>7. DOMAIN T = 1 .. 3
    BY <2>5, <2>6
  <2>3. Length(p, q) = 3 /\ Pops(p, q) = {} /\ Answers(p, q) = {3}
    BY <1>1, JobIs DEF Length, Pops, Answers, InTriples, InOwnInputs, InInputs, InInputsOf
  <2> QED BY <2>1, <2>3, <2>6, <2>7
<1>2. CASE InTriples(p)
  <2>1. Length(p, q) = 1 + 14 * Loops
    BY <1>2 DEF Length, InTriples, InOwnInputs, InInputsOf, InInputs
  <2>2. /\ Len(MultiplierScript(p, q)) = 1 + 14 * Loops
        /\ MultiplierScript(p, q) \in Seq(MultiplierOps)
        /\ MultiplierScript(p, q)[1][1] = "answer"
        /\ \A r \in 0 .. Loops - 1, k \in 0 .. 13 :
              MultiplierScript(p, q)[2 + 14 * r + k] = MultiplierRound[k + 1]
    BY <1>2, MultiplierTriples DEF InTriples
  <2>3. ASSUME NEW s \in 1 .. Length(p, q)
        PROVE  /\ MultiplierScript(p, q)[s][1] = "pop" <=> s \in Pops(p, q)
               /\ MultiplierScript(p, q)[s][1] = "answer" <=> s \in Answers(p, q)
    <3>1. CASE s = 1
      <4>1. s \notin Pops(p, q)
        <5>1. s \in Pops(p, q) <=>
                \E i \in 0 .. Loops - 1 : s = 2 + 14 * i \/ s = 8 + 14 * i
          BY <1>2 DEF Pops
        <5>2. \A i \in 0 .. Loops - 1 : 2 + 14 * i > 1 /\ 8 + 14 * i > 1
          OBVIOUS
        <5> QED BY <3>1, <5>1, <5>2
      <4>2. s \in Answers(p, q)
        BY <3>1, <1>2 DEF Answers
      <4> QED BY <3>1, <4>1, <4>2, <2>2
    <3>2. CASE s # 1
      <4>1. s \in 2 .. 2 + 14 * Loops - 1
        BY <3>2, <2>1
      <4>2. PICK r \in 0 .. Loops - 1, k \in 0 .. 13 : s = 2 + 14 * r + k
        <5>1. 14 \in Nat \ {0} /\ 2 \in Nat /\ 14 - 1 = 13
          OBVIOUS
        <5>2. ASSUME NEW n \in Nat \ {0}, NEW m \in Nat, s \in m .. m + n * Loops - 1
              PROVE  \E r \in 0 .. Loops - 1, k \in 0 .. n - 1 : s = m + n * r + k
          <6>1. Loops \in Nat
            OBVIOUS
          <6> QED BY <5>2, <6>1, Where, ZenonT(120)
        <5> QED BY <4>1, <5>1, <5>2
      <4>3. MultiplierScript(p, q)[s] = MultiplierRound[k + 1]
        BY <4>2, <2>2
      <4>4. s \in Pops(p, q) <=> k \in {0, 6}
        <5>1. s \in Pops(p, q) <=>
                \E i \in 0 .. Loops - 1 : s = 2 + 14 * i \/ s = 8 + 14 * i
          BY <1>2 DEF Pops
        <5>2. ASSUME NEW i \in 0 .. Loops - 1, s = 2 + 14 * i \/ s = 8 + 14 * i
              PROVE  k \in {0, 6}
          BY <4>2, <5>2
        <5>3. ASSUME k \in {0, 6} PROVE s = 2 + 14 * r \/ s = 8 + 14 * r
          BY <4>2, <5>3
        <5> QED BY <5>1, <5>2, <5>3
      <4>5. s \in Answers(p, q) <=> k \in {5, 13}
        <5>1. s \in Answers(p, q) <=>
                s = 1 \/ \E i \in 0 .. Loops - 1 : s = 7 + 14 * i \/ s = 15 + 14 * i
          BY <1>2 DEF Answers
        <5> QED BY <4>2, <5>1
      <4> QED BY <4>3, <4>4, <4>5, OneRound
    <3> QED BY <3>1, <3>2
  <2> QED BY <2>1, <2>2, <2>3
<1>3. CASE InOwnInputs(p)
  <2>1. MultiplierScript(p, q) = <<Pop, <<"send", 1>>, Answer>>
    BY <1>3 DEF MultiplierScript, InOwnInputs, InInputs
  <2>2. Length(p, q) = 3 /\ Pops(p, q) = {1} /\ Answers(p, q) = {3}
    BY <1>3 DEF Length, Pops, Answers, InOwnInputs, InInputsOf, InInputs, InTriples
  <2> QED BY <2>1, <2>2 DEF Answer, Pop
<1>4. CASE InInputsOf(p)
  <2>1. Pops(p, q) = {} /\ Answers(p, q) = {Length(p, q)}
        /\ Length(p, q) = IF J(p).player = q THEN 2 ELSE 1
    BY <1>4 DEF Length, Pops, Answers, InOwnInputs, InInputsOf, InInputs, InTriples
  <2>2. CASE J(p).player = q
    <3>1. MultiplierScript(p, q) = <<<<"receive", 1>>, Answer>>
      BY <1>4, <2>2 DEF MultiplierScript, InInputsOf, InInputs
    <3> QED BY <2>1, <2>2, <3>1 DEF Answer
  <2>3. CASE J(p).player # q
    <3>1. MultiplierScript(p, q) = <<Answer>>
      BY <1>4, <2>3 DEF MultiplierScript, InInputsOf, InInputs, Echo
    <3> QED BY <2>1, <2>3, <3>1 DEF Answer
  <2> QED BY <2>2, <2>3
<1> QED BY <1>1, <1>2, <1>3, <1>4, JobIs DEF InOwnInputs, InInputsOf

-----------------------------------------------------------------------------
(* Every party has its row in each variable, with an entry per peer.        *)
ShapeOK ==
  /\ DOMAIN call = Parties /\ DOMAIN at = Parties /\ DOMAIN next = Parties
  /\ DOMAIN locked = Parties
  /\ DOMAIN job = Parties /\ DOMAIN step = Parties
  /\ DOMAIN inbox = Parties /\ DOMAIN outbox = Parties /\ DOMAIN running = Parties
  /\ \A p \in Parties :
       /\ DOMAIN job[p] = Peers(p) /\ DOMAIN step[p] = Peers(p)
       /\ DOMAIN inbox[p] = Peers(p) /\ DOMAIN outbox[p] = Peers(p)
       /\ DOMAIN running[p] = Peers(p)

(* Where q's multiplier stands: at an operation of the job, or past its     *)
(* last one and back in the loop of multiply.                               *)
Empty(p, q) == inbox[p][q] = <<>> /\ outbox[p][q] = <<>>

Stands(p, q, s) == IF s \in 1 .. Length(p, q) THEN job[p][q] = J(p) /\ step[p][q] = s
                   ELSE job[p][q] = Idle

(* It waits at s, and nothing is in its queues.                             *)
Waits(p, q, s) == Empty(p, q) /\ Stands(p, q, s)

(* It has been sent x and has not taken it, or is between taking it at s    *)
(* and the answer before t, or has answered.                                *)
Works(p, q, x, s, t) ==
  \/ inbox[p][q] = <<x>> /\ outbox[p][q] = <<>> /\ Stands(p, q, s)
  \/ Empty(p, q) /\ job[p][q] = J(p) /\ step[p][q] \in s + 1 .. t - 1
  \/ inbox[p][q] = <<>> /\ outbox[p][q] = <<J(p)>> /\ Stands(p, q, t)

(* From s to t is one turn: a pop, work, and one answer.                    *)
Turn(p, q, x, s, t) ==
  /\ s \in Nat /\ t \in Nat /\ s < t - 1 /\ t <= Length(p, q) + 1
  /\ IF s = 0 THEN x = J(p) ELSE s \in Pops(p, q)
  /\ t - 1 \in Answers(p, q)
  /\ t \in 1 .. Length(p, q) => t \in Pops(p, q)
  /\ \A i \in s + 1 .. t - 2 : i \notin Pops(p, q) \cup Answers(p, q)

(* Queues of one and of two messages.                                       *)
LEMMA QueueFacts ==
  ASSUME NEW x, NEW y
  PROVE  /\ <<x>> # <<>> /\ Tail(<<x>>) = <<>> /\ Head(<<x>>) = x
         /\ Append(<<>>, x) = <<x>> /\ Append(<<x>>, y) = <<x, y>>
         /\ <<x, y>> # <<>> /\ Tail(<<x, y>>) = <<y>> /\ Head(<<x, y>>) = x
<1>1. <<x>> # <<>> /\ <<x, y>> # <<>>
  OBVIOUS
<1>2. Head(<<x>>) = x /\ Head(<<x, y>>) = x
  OBVIOUS
<1>3. Append(<<>>, x) = <<x>>
  OBVIOUS
<1>4. Append(<<x>>, y) = <<x, y>>
  <2>1. <<x>> \in Seq({x, y}) /\ Len(<<x>>) = 1 /\ <<x>>[1] = x
    OBVIOUS
  <2> DEFINE s == <<x>>
             u == Append(s, y)
  <2> HIDE DEF s
  <2>2. u \in Seq({x, y}) /\ Len(u) = 2 /\ u[1] = x /\ u[2] = y
    BY <2>1 DEF s
  <2> HIDE DEF u
  <2>3. u = <<x, y>>
    BY <2>2
  <2> QED BY <2>3 DEF u, s
<1>5. Tail(<<x>>) = <<>>
  OBVIOUS
<1>6. Tail(<<x, y>>) = <<y>>
  OBVIOUS
<1> QED BY <1>1, <1>2, <1>3, <1>4, <1>5, <1>6

(* A job has operations.                                                    *)
LEMMA LengthIs ==
  ASSUME ProgramOK, NEW p \in Parties, NEW q \in Peers(p), call[p] \in 0 .. Len(program)
  PROVE  Length(p, q) \in Nat \ {0}
BY SizeAssumption DEF Length

(* A multiplier without a job does nothing of a script.                     *)
LEMMA IdleDoes ==
  ASSUME NEW p, NEW q, NEW kind, job[p][q] \in {Idle, Over, Go}
  PROVE  ~ Does(p, q, kind)
BY DEF Does, MultiplierScript, Idle, Over, Go

(* A step of a multiplier at work leaves it at work, in the same turn.      *)
LEMMA TurnStep ==
  ASSUME ProgramOK, ShapeOK, NEW p \in Parties, NEW q \in Peers(p), call[p] \in 0 .. Len(program),
         running[p][q], NEW x, NEW s, NEW t, Turn(p, q, x, s, t), Works(p, q, x, s, t),
         MultiplierStep(p, q)
  PROVE  Works(p, q, x, s, t)'
<1>1. call' = call /\ program' = program /\ J(p)' = J(p) /\ Length(p, q)' = Length(p, q)
  BY DEF MultiplierStep, TakeJob, End, TakeGo, Send, Receive, PushAnswer, mains, J, Length, InTriples,
     InOwnInputs, InInputsOf, InInputs
<1>2. Length(p, q) \in Nat \ {0}
  BY LengthIs
<1>3. J(p) # Idle
  BY JobIs
<1>4. s \in Nat /\ t \in Nat /\ s < t - 1 /\ t <= Length(p, q) + 1
  BY DEF Turn
<1>5. CASE inbox[p][q] = <<x>> /\ outbox[p][q] = <<>> /\ Stands(p, q, s)
  <2>1. /\ inbox'[p][q] = <<>> /\ outbox'[p][q] = <<>>
        /\ job'[p][q] = J(p) /\ step'[p][q] = s + 1
    <3>1. CASE s = 0
      <4>1. job[p][q] = Idle /\ x = J(p)
        BY <1>5, <3>1 DEF Stands, Turn
      <4>2. ~ End(p, q)
        BY DEF End
      <4>3. TakeJob(p, q)
        BY <4>1, <4>2, IdleDoes DEF MultiplierStep, TakeGo, Send, Receive, PushAnswer
      <4> QED BY <1>5, <4>1, <4>3, <3>1, QueueFacts DEF TakeJob, ShapeOK
    <3>2. CASE s # 0
      <4>1. s \in 1 .. Length(p, q) /\ s \in Pops(p, q) /\ job[p][q] = J(p) /\ step[p][q] = s
        BY <1>5, <3>2, <1>2, <1>4 DEF Stands, Turn
      <4>2. TakeGo(p, q) /\ s < Length(p, q)
        BY <4>1, <1>2, <1>3, <1>4, ScriptIs
           DEF MultiplierStep, TakeJob, End, Send, Receive, PushAnswer, Does
      <4>3. inbox'[p][q] = <<>> /\ outbox'[p][q] = <<>>
        BY <1>5, <4>2, QueueFacts DEF TakeGo, ShapeOK
      <4>4. job'[p][q] = J(p) /\ step'[p][q] = s + 1
        BY <4>1, <4>2, ScriptIs DEF TakeGo, StepOn, ShapeOK
      <4> QED BY <4>3, <4>4
    <3> QED BY <3>1, <3>2
  <2>2. s + 1 \in s + 1 .. t - 1
    BY <1>4
  <2> QED BY <2>1, <2>2, <1>1 DEF Works, Empty
<1>6. CASE Empty(p, q) /\ job[p][q] = J(p) /\ step[p][q] \in s + 1 .. t - 1
  <2> DEFINE n == step[p][q]
  <2>1. n \in 1 .. Length(p, q) /\ n \in s + 1 .. t - 1
    BY <1>6, <1>4, <1>2
  <2>2. n \notin Pops(p, q)
    <3>1. CASE n = t - 1
      <4>1. n \in Answers(p, q)
        BY <3>1 DEF Turn
      <4> QED BY <1>6, <2>1, <4>1, ScriptIs
    <3>2. CASE n # t - 1
      <4>1. n \in s + 1 .. t - 2
        BY <2>1, <3>2, <1>4
      <4> QED BY <4>1 DEF Turn
    <3> QED BY <3>1, <3>2
  <2>3. CASE n = t - 1
    <3>1. n \in Answers(p, q)
      BY <2>3 DEF Turn
    <3>2. PushAnswer(p, q)
      BY <1>3, <1>6, <2>1, <2>2, <3>1, ScriptIs
         DEF MultiplierStep, TakeJob, End, TakeGo, Send, Receive, Does
    <3>3. inbox'[p][q] = <<>> /\ outbox'[p][q] = <<J(p)>>
      BY <1>6, <3>2, QueueFacts DEF PushAnswer, ShapeOK, Empty
    <3>4. CASE t <= Length(p, q)
      <4>1. job'[p][q] = J(p) /\ step'[p][q] = t
        <5>1. n < Length(p, q) /\ n + 1 = t
          BY <1>2, <1>4, <2>3, <3>4
        <5> QED BY <1>6, <5>1, <3>2, ScriptIs DEF PushAnswer, StepOn, ShapeOK
      <4> QED BY <3>3, <3>4, <4>1, <1>1, <1>4 DEF Works, Stands
    <3>5. CASE t > Length(p, q)
      <4>1. job'[p][q] = Idle
        BY <1>2, <1>4, <1>6, <2>1, <2>3, <3>2, <3>5, ScriptIs DEF PushAnswer, StepOn, ShapeOK
      <4> QED BY <3>3, <3>5, <4>1, <1>1, <1>2, <1>4 DEF Works, Stands
    <3> QED BY <3>4, <3>5, <1>2, <1>4
  <2>4. CASE n < t - 1
    <3>1. n \notin Answers(p, q) /\ n < Length(p, q)
      BY <2>1, <2>4, <1>2, <1>4 DEF Turn
    <3>2. Send(p, q) \/ Receive(p, q)
      BY <1>3, <1>6, <2>1, <2>2, <3>1, ScriptIs
         DEF MultiplierStep, TakeJob, End, TakeGo, PushAnswer, Does
    <3>3. job'[p][q] = J(p) /\ step'[p][q] = n + 1
      BY <1>6, <2>1, <3>1, <3>2, ScriptIs DEF Send, Receive, StepOn, ShapeOK
    <3>4. inbox'[p][q] = <<>> /\ outbox'[p][q] = <<>>
      BY <1>6, <3>2 DEF Send, Receive, Empty
    <3>5. n + 1 \in s + 1 .. t - 1
      BY <2>1, <2>4, <1>2, <1>4
    <3> QED BY <3>3, <3>4, <3>5, <1>1 DEF Works, Empty
  <2> QED BY <2>1, <2>3, <2>4, <1>4
<1>7. CASE inbox[p][q] = <<>> /\ outbox[p][q] = <<J(p)>> /\ Stands(p, q, t)
  <2> SUFFICES FALSE
    OBVIOUS
  <2>1. t \notin 1 .. Length(p, q) \/ t \in Pops(p, q)
    BY DEF Turn
  <2> QED BY <1>3, <1>7, <2>1, ScriptIs, IdleDoes
          DEF Stands, MultiplierStep, TakeJob, End, TakeGo, Send, Receive, PushAnswer, Does
<1> QED BY <1>5, <1>6, <1>7 DEF Works

(* A multiplier that waits takes no step.                                   *)
(* A multiplier that waits does not move.                                   *)
LEMMA WaitStep ==
  ASSUME ProgramOK, NEW p \in Parties, NEW q \in Peers(p), call[p] \in 0 .. Len(program),
         running[p][q], NEW s, s \in 1 .. Length(p, q) => s \in Pops(p, q), Waits(p, q, s)
  PROVE  ~ MultiplierStep(p, q)
<1>1. J(p) # Idle
  BY JobIs
<1> QED BY <1>1, ScriptIs, IdleDoes
        DEF Waits, Empty, Stands, MultiplierStep, TakeJob, End, TakeGo, Send, Receive, PushAnswer, Does

-----------------------------------------------------------------------------
(* While main collects: those from next on work, those before it wait.      *)
Working(p, q, x, s, t) == IF next[p] <= q THEN Works(p, q, x, s, t) ELSE Waits(p, q, t)

(* What q's multiplier does while main is at operation k of round r.        *)
RoundOK(p, q, r, k) ==
  /\ k \in {0, 1}  => Waits(p, q, 2 + 14 * r)
  /\ k = 2         => Working(p, q, Go, 2 + 14 * r, 8 + 14 * r)
  /\ k \in 3 .. 6  => Waits(p, q, 8 + 14 * r)
  /\ k = 7         => Working(p, q, Go, 8 + 14 * r, 16 + 14 * r)
  /\ k \in {8, 9}  => Waits(p, q, 16 + 14 * r)

(* The same for every operation of generateTriples.                         *)
TriplesOK(p, q) ==
  /\ at[p] \in 1 .. 5 + 10 * Loops
  /\ at[p] = 1       => Waits(p, q, 0)
  /\ at[p] \in {2,3} => Working(p, q, J(p), 0, 2)
  /\ at[p] = 4       => Waits(p, q, 2)
  /\ \A r \in 0 .. Loops - 1, k \in 0 .. 9 : at[p] = 5 + 10 * r + k => RoundOK(p, q, r, k)
  /\ at[p] = 5 + 10 * Loops => Waits(p, q, 2 + 14 * Loops)

(* For the inputs of this party.  Its multipliers may get go before they    *)
(* have taken the job.                                                      *)
OwnInputsOK(p, q) ==
  /\ at[p] \in 1 .. 8
  /\ at[p] \in {1, 2, 6, 7, 8} => Waits(p, q, 0)
  /\ at[p] \in {3, 4} => \/ inbox[p][q] = <<J(p)>> /\ outbox[p][q] = <<>> /\ Stands(p, q, 0)
                         \/ Waits(p, q, 1)
  /\ at[p] = 5 => \/ Working(p, q, Go, 1, 4)
                  \/ /\ next[p] <= q /\ inbox[p][q] = <<J(p), Go>> /\ outbox[p][q] = <<>>
                     /\ Stands(p, q, 0)

(* For the inputs of another party.                                         *)
InputsOfOK(p, q) ==
  /\ at[p] \in 1 .. 6
  /\ at[p] \in {1, 2, 4, 5, 6} => Waits(p, q, 0)
  /\ at[p] = 3 => Working(p, q, J(p), 0, Length(p, q) + 1)

(* In any call: where main is says what its multiplier for q does.          *)
PairOK(p, q) ==
  /\ call[p] = 0    => at[p] = 1 /\ Working(p, q, J(p), 0, 4)
  /\ InTriples(p)   => TriplesOK(p, q)
  /\ InOwnInputs(p) => OwnInputsOK(p, q)
  /\ InInputsOf(p)  => InputsOfOK(p, q)
  /\ AtTheEnd(p)    => at[p] \in {1, 2} /\ Empty(p, q) /\ job[p][q] \in {Idle, Over}

(* Main collects, stops and joins from the first peer on, and holds the     *)
(* lock within the rounds of generateTriples only.                          *)
MainOK(p) ==
  /\ call[p] \in 0 .. Len(program) + 1
  /\ Op(p) # "ended" => next[p] \in Peers(p)
  /\ Op(p) \notin {"collect", "destroy", "ended"} => next[p] = FirstPeer(p)
  /\ call[p] \in 0 .. Len(program) => \A q \in Peers(p) : running[p][q]
  /\ locked[p] => InTriples(p) /\ at[p] \in 5 .. 5 + 10 * Loops

(* The inductive invariant.  It relates main and each of its multipliers;   *)
(* nothing in it is about another party.                                    *)
IInv == /\ ProgramOK /\ ShapeOK
        /\ \A p \in Parties : MainOK(p) /\ \A q \in Peers(p) : PairOK(p, q)

(* The turns of every script.                                               *)
LEMMA TurnsAre ==
  ASSUME NEW p \in Parties, NEW q \in Peers(p)
  PROVE  /\ call[p] = 0 => Turn(p, q, J(p), 0, 4)
         /\ InTriples(p) => /\ Turn(p, q, J(p), 0, 2)
                            /\ \A r \in 0 .. Loops - 1 :
                                 /\ Turn(p, q, Go, 2 + 14 * r, 8 + 14 * r)
                                 /\ Turn(p, q, Go, 8 + 14 * r, 16 + 14 * r)
         /\ InOwnInputs(p) => Turn(p, q, Go, 1, 4)
         /\ InInputsOf(p)  => Turn(p, q, J(p), 0, Length(p, q) + 1)
<1> USE SizeAssumption
<1>1. ASSUME call[p] = 0 PROVE Turn(p, q, J(p), 0, 4)
  BY <1>1 DEF Turn, Length, Pops, Answers, InTriples, InOwnInputs, InInputsOf, InInputs
<1>2. ASSUME InOwnInputs(p) PROVE Turn(p, q, Go, 1, 4)
  BY <1>2 DEF Turn, Length, Pops, Answers, InTriples, InOwnInputs, InInputsOf, InInputs
<1>3. ASSUME InInputsOf(p) PROVE Turn(p, q, J(p), 0, Length(p, q) + 1)
  BY <1>3 DEF Turn, Length, Pops, Answers, InTriples, InOwnInputs, InInputsOf, InInputs
<1>4. ASSUME InTriples(p)
      PROVE  /\ Turn(p, q, J(p), 0, 2)
             /\ \A r \in 0 .. Loops - 1 : /\ Turn(p, q, Go, 2 + 14 * r, 8 + 14 * r)
                                          /\ Turn(p, q, Go, 8 + 14 * r, 16 + 14 * r)
  <2>1. Length(p, q) = 1 + 14 * Loops
    BY <1>4 DEF Length, InTriples, InOwnInputs, InInputsOf, InInputs
  <2>2. \A s : s \in Pops(p, q) <=>
                \E i \in 0 .. Loops - 1 : s = 2 + 14 * i \/ s = 8 + 14 * i
    BY <1>4 DEF Pops
  <2>3. \A s : s \in Answers(p, q) <=>
                s = 1 \/ \E i \in 0 .. Loops - 1 : s = 7 + 14 * i \/ s = 15 + 14 * i
    BY <1>4 DEF Answers
  <2>4. Turn(p, q, J(p), 0, 2)
    <3>1. 2 \in 1 .. Length(p, q) => 2 \in Pops(p, q)
      BY <2>1, <2>2
    <3>2. 1 \in Answers(p, q)
      BY <2>3
    <3> QED BY <2>1, <3>1, <3>2 DEF Turn
  <2>5. ASSUME NEW r \in 0 .. Loops - 1 PROVE Turn(p, q, Go, 2 + 14 * r, 8 + 14 * r)
    <3>1. 2 + 14 * r \in Pops(p, q) /\ 8 + 14 * r \in Pops(p, q) /\ (8 + 14 * r) - 1 \in Answers(p, q)
      BY <2>2, <2>3
    <3>2. \A i \in (2 + 14 * r) + 1 .. (8 + 14 * r) - 2 : i \notin Pops(p, q) \cup Answers(p, q)
      BY <2>2, <2>3
    <3>3. /\ 2 + 14 * r \in Nat /\ 8 + 14 * r \in Nat /\ 2 + 14 * r < (8 + 14 * r) - 1
          /\ 8 + 14 * r <= Length(p, q) + 1 /\ 2 + 14 * r # 0
      BY <2>1
    <3> QED BY <3>1, <3>2, <3>3 DEF Turn
  <2>6. ASSUME NEW r \in 0 .. Loops - 1 PROVE Turn(p, q, Go, 8 + 14 * r, 16 + 14 * r)
    <3>1. 8 + 14 * r \in Pops(p, q) /\ (16 + 14 * r) - 1 \in Answers(p, q)
      BY <2>2, <2>3
    <3>2. \A i \in (8 + 14 * r) + 1 .. (16 + 14 * r) - 2 : i \notin Pops(p, q) \cup Answers(p, q)
      BY <2>2, <2>3
    <3>3. /\ 8 + 14 * r \in Nat /\ 16 + 14 * r \in Nat /\ 8 + 14 * r < (16 + 14 * r) - 1
          /\ 16 + 14 * r <= Length(p, q) + 1 /\ 8 + 14 * r # 0
      BY <2>1
    <3>4. 16 + 14 * r \in 1 .. Length(p, q) => 16 + 14 * r \in Pops(p, q)
      <4>1. 16 + 14 * r = 2 + 14 * (r + 1)
        OBVIOUS
      <4>2. 16 + 14 * r <= 1 + 14 * Loops => r + 1 \in 0 .. Loops - 1
        OBVIOUS
      <4>3. ASSUME 16 + 14 * r <= 1 + 14 * Loops PROVE 16 + 14 * r \in Pops(p, q)
        <5>1. r + 1 \in 0 .. Loops - 1 /\ 16 + 14 * r = 2 + 14 * (r + 1)
          BY <4>1, <4>2, <4>3
        <5> QED BY <2>2, <5>1
      <4> QED BY <2>1, <4>3
    <3> QED BY <3>1, <3>2, <3>3, <3>4 DEF Turn
  <2> QED BY <2>4, <2>5, <2>6
<1> QED BY <1>1, <1>2, <1>3, <1>4

(* What a multiplier that stands as said can do leaves it so.               *)
(* A multiplier's step while main collects.                                 *)
LEMMA WorkingStep ==
  ASSUME ProgramOK, ShapeOK, NEW p \in Parties, NEW q \in Peers(p), call[p] \in 0 .. Len(program),
         running[p][q], NEW x, NEW s, NEW t, Turn(p, q, x, s, t), Working(p, q, x, s, t),
         MultiplierStep(p, q), next'[p] = next[p]
  PROVE  Working(p, q, x, s, t)'
<1>1. CASE next[p] <= q
  BY <1>1, TurnStep DEF Working
<1>2. CASE ~ (next[p] <= q)
  BY <1>2, WaitStep DEF Working, Turn
<1> QED BY <1>1, <1>2

(* What the step of a multiplier leaves alone.                              *)
LEMMA MultiplierLeaves ==
  ASSUME ShapeOK, NEW p \in Parties, NEW q \in Peers(p), MultiplierStep(p, q)
  PROVE  /\ call' = call /\ at' = at /\ next' = next /\ program' = program
         /\ locked' = locked /\ running' = running /\ ShapeOK'
         /\ \A o \in Parties : \A r \in Peers(o) : <<o, r>> # <<p, q>> =>
              /\ job'[o][r] = job[o][r] /\ step'[o][r] = step[o][r]
              /\ inbox'[o][r] = inbox[o][r] /\ outbox'[o][r] = outbox[o][r]
<1>1. /\ call' = call /\ at' = at /\ next' = next /\ program' = program
      /\ locked' = locked /\ running' = running
  BY DEF MultiplierStep, TakeJob, End, TakeGo, Send, Receive, PushAnswer, mains
<1>2. /\ inbox' = inbox \/ inbox' = [inbox EXCEPT ![p][q] = Tail(@)]
      /\ \/ outbox' = outbox \/ outbox' = [outbox EXCEPT ![p][q] = Append(@, job[p][q])]
      /\ \/ job' = job \/ \E x : job' = [job EXCEPT ![p][q] = x]
      /\ \/ step' = step \/ \E x : step' = [step EXCEPT ![p][q] = x]
  BY DEF MultiplierStep, TakeJob, End, TakeGo, Send, Receive, PushAnswer, StepOn
<1>3. ShapeOK'
  BY <1>1, <1>2 DEF ShapeOK
<1>4. ASSUME NEW o \in Parties, NEW r \in Peers(o), <<o, r>> # <<p, q>>
      PROVE  /\ job'[o][r] = job[o][r] /\ step'[o][r] = step[o][r]
             /\ inbox'[o][r] = inbox[o][r] /\ outbox'[o][r] = outbox[o][r]
  BY <1>2, <1>4 DEF ShapeOK
<1> QED BY <1>1, <1>3, <1>4

(* Nothing of main or this multiplier has changed.                          *)
LEMMA PairSame ==
  ASSUME NEW p, NEW q, PairOK(p, q), program' = program,
         call'[p] = call[p], at'[p] = at[p], next'[p] = next[p],
         job'[p][q] = job[p][q], step'[p][q] = step[p][q],
         inbox'[p][q] = inbox[p][q], outbox'[p][q] = outbox[p][q]
  PROVE  PairOK(p, q)'
<1>1. J(p)' = J(p) /\ InTriples(p)' = InTriples(p) /\ InOwnInputs(p)' = InOwnInputs(p)
      /\ InInputsOf(p)' = InInputsOf(p) /\ AtTheEnd(p)' = AtTheEnd(p) /\ Length(p, q)' = Length(p, q)
  BY DEF J, InTriples, InOwnInputs, InInputsOf, InInputs, AtTheEnd, Length
<1>2. \A s : /\ Waits(p, q, s)' = Waits(p, q, s) /\ Stands(p, q, s)' = Stands(p, q, s)
             /\ Empty(p, q)' = Empty(p, q)
  BY <1>1 DEF Waits, Stands, Empty
<1>3. \A x, s, t : Works(p, q, x, s, t)' = Works(p, q, x, s, t)
  BY <1>1, <1>2 DEF Works
<1>4. \A x, s, t : Working(p, q, x, s, t)' = Working(p, q, x, s, t)
  BY <1>2, <1>3 DEF Working
<1>5. \A r, k : RoundOK(p, q, r, k)' = RoundOK(p, q, r, k)
  BY <1>2, <1>4 DEF RoundOK
<1>6. TriplesOK(p, q)' = TriplesOK(p, q)
  BY <1>1, <1>2, <1>4, <1>5 DEF TriplesOK
<1>7. OwnInputsOK(p, q)' = OwnInputsOK(p, q)
  BY <1>1, <1>2, <1>4 DEF OwnInputsOK
<1>8. InputsOfOK(p, q)' = InputsOfOK(p, q)
  BY <1>1, <1>2, <1>4 DEF InputsOfOK
<1> QED BY <1>1, <1>2, <1>4, <1>6, <1>7, <1>8 DEF PairOK

(* Nothing of main has changed.                                             *)
LEMMA MainSame ==
  ASSUME NEW p, MainOK(p), program' = program, call'[p] = call[p], at'[p] = at[p],
         next'[p] = next[p], locked'[p] = locked[p], running'[p] = running[p]
  PROVE  MainOK(p)'
<1>1. J(p)' = J(p) /\ InTriples(p)' = InTriples(p)
  BY DEF J, InTriples
<1>2. MainScript(p)' = MainScript(p)
  BY DEF MainScript, TriplesScript, InputsScript
<1>3. Op(p)' = Op(p)
  BY <1>2 DEF Op
<1> QED BY <1>1, <1>3 DEF MainOK

(* A multiplier at work on a round of the triples.                          *)
(* A multiplier's step within a round of triples.                           *)
LEMMA RoundStep ==
  ASSUME ProgramOK, ShapeOK, NEW p \in Parties, NEW q \in Peers(p), InTriples(p),
         running[p][q], MultiplierStep(p, q), next'[p] = next[p],
         NEW r \in 0 .. Loops - 1, NEW k \in 0 .. 9, RoundOK(p, q, r, k)
  PROVE  RoundOK(p, q, r, k)'
<1> USE SizeAssumption
<1>0. call[p] \in 0 .. Len(program)
  BY DEF InTriples
<1>1. /\ Turn(p, q, Go, 2 + 14 * r, 8 + 14 * r)
      /\ Turn(p, q, Go, 8 + 14 * r, 16 + 14 * r)
  BY TurnsAre
<1>10. 2 + 14 * r # 0 /\ 8 + 14 * r # 0
  OBVIOUS
<1>11. /\ 2 + 14 * r \in Pops(p, q) /\ 8 + 14 * r \in Pops(p, q)
       /\ 16 + 14 * r \in 1 .. Length(p, q) => 16 + 14 * r \in Pops(p, q)
  BY <1>1, <1>10 DEF Turn
<1>2. ~ Waits(p, q, 2 + 14 * r)
  BY <1>0, <1>11, WaitStep
<1>3. ~ Waits(p, q, 8 + 14 * r)
  BY <1>0, <1>11, WaitStep
<1>4. ~ Waits(p, q, 16 + 14 * r)
  BY <1>0, <1>11, WaitStep
<1>5. k = 2 => Working(p, q, Go, 2 + 14 * r, 8 + 14 * r)'
  BY <1>0, <1>1, WorkingStep DEF RoundOK
<1>6. k = 7 => Working(p, q, Go, 8 + 14 * r, 16 + 14 * r)'
  BY <1>0, <1>1, WorkingStep DEF RoundOK
<1>7. k \in {2, 7}
  BY <1>2, <1>3, <1>4 DEF RoundOK
<1> QED BY <1>5, <1>6, <1>7 DEF RoundOK

(* A multiplier's step in generateTriples.                                  *)
LEMMA TriplesStep ==
  ASSUME ProgramOK, ShapeOK, NEW p \in Parties, NEW q \in Peers(p), InTriples(p),
         running[p][q], MultiplierStep(p, q), next'[p] = next[p], at'[p] = at[p],
         TriplesOK(p, q), J(p)' = J(p)
  PROVE  TriplesOK(p, q)'
<1> USE SizeAssumption
<1>0. call[p] \in 0 .. Len(program)
  BY DEF InTriples
<1>1. Turn(p, q, J(p), 0, 2)
  BY TurnsAre
<1>2. at[p] # 1
  BY <1>0, WaitStep DEF TriplesOK
<1>3. at[p] # 4
  BY <1>0, <1>1, WaitStep DEF TriplesOK, Turn
<1>4. at[p] # 5 + 10 * Loops
  <2>1. 2 + 14 * Loops \notin 1 .. Length(p, q)
    BY DEF Length, InTriples, InOwnInputs, InInputsOf, InInputs
  <2> QED BY <2>1, <1>0, WaitStep DEF TriplesOK
<1>5. at[p] \in {2, 3} => Working(p, q, J(p), 0, 2)'
  BY <1>0, <1>1, WorkingStep DEF TriplesOK
<1>6. ASSUME NEW r \in 0 .. Loops - 1, NEW k \in 0 .. 9, at[p] = 5 + 10 * r + k
      PROVE  RoundOK(p, q, r, k)'
  BY <1>6, RoundStep DEF TriplesOK
<1> QED
  <2>1. at'[p] \in 1 .. 5 + 10 * Loops /\ at'[p] \notin {1, 4, 5 + 10 * Loops}
    BY <1>2, <1>3, <1>4 DEF TriplesOK
  <2>2. at'[p] \in {2, 3} => Working(p, q, J(p), 0, 2)'
    BY <1>5
  <2>3. \A r \in 0 .. Loops - 1, k \in 0 .. 9 : at'[p] = 5 + 10 * r + k => RoundOK(p, q, r, k)'
    BY <1>6
  <2> QED BY <2>1, <2>2, <2>3 DEF TriplesOK

(* A multiplier's step in the inputs of its own party.                      *)
LEMMA OwnInputsStep ==
  ASSUME ProgramOK, ShapeOK, NEW p \in Parties, NEW q \in Peers(p), InOwnInputs(p),
         running[p][q], MultiplierStep(p, q), next'[p] = next[p], at'[p] = at[p],
         OwnInputsOK(p, q), J(p)' = J(p), Length(p, q)' = Length(p, q)
  PROVE  OwnInputsOK(p, q)'
<1>0. call[p] \in 0 .. Len(program)
  BY DEF InOwnInputs, InInputs
<1>1. Turn(p, q, Go, 1, 4) /\ Length(p, q) = 3
  BY TurnsAre DEF Length, InTriples, InOwnInputs, InInputsOf, InInputs
<1>2. ~ Waits(p, q, 0) /\ ~ Waits(p, q, 1)
  BY <1>0, <1>1, WaitStep DEF Turn
<1>3. ASSUME job[p][q] = Idle, inbox[p][q] # <<>>
      PROVE  /\ inbox'[p][q] = Tail(inbox[p][q]) /\ outbox'[p][q] = outbox[p][q]
             /\ job'[p][q] = Head(inbox[p][q]) /\ step'[p][q] = 1
  <2>1. TakeJob(p, q)
    BY <1>3, IdleDoes DEF MultiplierStep, End, TakeGo, Send, Receive, PushAnswer
  <2> QED BY <2>1 DEF TakeJob, ShapeOK
<1>4. CASE inbox[p][q] = <<J(p)>> /\ outbox[p][q] = <<>> /\ Stands(p, q, 0) /\ at[p] \in {3, 4}
  <2>1. inbox'[p][q] = <<>> /\ outbox'[p][q] = <<>> /\ job'[p][q] = J(p) /\ step'[p][q] = 1
    BY <1>1, <1>3, <1>4, QueueFacts DEF Stands
  <2>2. Waits(p, q, 1)'
    BY <1>1, <2>1 DEF Waits, Empty, Stands
  <2> QED BY <1>4, <2>2 DEF OwnInputsOK
<1>5. CASE /\ next[p] <= q /\ inbox[p][q] = <<J(p), Go>> /\ outbox[p][q] = <<>>
           /\ Stands(p, q, 0) /\ at[p] = 5
  <2>1. inbox'[p][q] = <<Go>> /\ outbox'[p][q] = <<>> /\ job'[p][q] = J(p) /\ step'[p][q] = 1
    BY <1>1, <1>3, <1>5, QueueFacts DEF Stands
  <2>2. Working(p, q, Go, 1, 4)'
    BY <1>1, <1>5, <2>1 DEF Working, Works, Stands
  <2> QED BY <1>5, <2>2 DEF OwnInputsOK
<1>6. CASE Working(p, q, Go, 1, 4) /\ at[p] = 5
  <2>1. Working(p, q, Go, 1, 4)'
    BY <1>0, <1>1, <1>6, WorkingStep
  <2> QED BY <1>6, <2>1 DEF OwnInputsOK
<1> QED BY <1>2, <1>4, <1>5, <1>6 DEF OwnInputsOK

(* No step of a multiplier breaks the invariant.                            *)
LEMMA MultiplierKeeps ==
  ASSUME IInv, NEW p \in Parties, NEW q \in Peers(p), MultiplierStep(p, q)
  PROVE  IInv'
<1>1. /\ call' = call /\ at' = at /\ next' = next /\ program' = program
      /\ locked' = locked /\ running' = running /\ ShapeOK'
      /\ \A o \in Parties : \A r \in Peers(o) : <<o, r>> # <<p, q>> =>
           /\ job'[o][r] = job[o][r] /\ step'[o][r] = step[o][r]
           /\ inbox'[o][r] = inbox[o][r] /\ outbox'[o][r] = outbox[o][r]
  BY MultiplierLeaves DEF IInv
<1>2. ProgramOK'
  BY <1>1 DEF IInv, ProgramOK
<1>3. \A o \in Parties : MainOK(o)'
  BY <1>1, MainSame DEF IInv
<1>4. \A o \in Parties : \A r \in Peers(o) : <<o, r>> # <<p, q>> => PairOK(o, r)'
  BY <1>1, PairSame DEF IInv
<1>5. PairOK(p, q)'
  <2>1. /\ J(p)' = J(p) /\ InTriples(p)' = InTriples(p) /\ InOwnInputs(p)' = InOwnInputs(p)
        /\ InInputsOf(p)' = InInputsOf(p) /\ AtTheEnd(p)' = AtTheEnd(p)
        /\ Length(p, q)' = Length(p, q)
    BY <1>1 DEF J, InTriples, InOwnInputs, InInputsOf, InInputs, AtTheEnd, Length
  <2>2. ProgramOK /\ ShapeOK /\ MainOK(p) /\ PairOK(p, q)
    BY DEF IInv
  <2>3. CASE call[p] = 0
    <3>1. call[p] \in 0 .. Len(program) /\ running[p][q] /\ Turn(p, q, J(p), 0, 4)
      BY <2>2, <2>3, TurnsAre DEF MainOK
    <3>2. Working(p, q, J(p), 0, 4)'
      BY <1>1, <2>1, <2>2, <2>3, <3>1, WorkingStep DEF PairOK
    <3>3. ~ InTriples(p) /\ ~ InOwnInputs(p) /\ ~ InInputsOf(p) /\ ~ AtTheEnd(p)
      BY <2>2, <2>3 DEF InTriples, InOwnInputs, InInputsOf, InInputs, AtTheEnd, ProgramOK
    <3> QED BY <1>1, <2>1, <2>2, <2>3, <3>2, <3>3 DEF PairOK
  <2>4. CASE InTriples(p)
    <3>1. call[p] # 0 /\ ~ InOwnInputs(p) /\ ~ InInputsOf(p) /\ ~ AtTheEnd(p) /\ running[p][q]
      BY <2>2, <2>4 DEF InTriples, InOwnInputs, InInputsOf, InInputs, AtTheEnd, MainOK, ProgramOK
    <3>2. TriplesOK(p, q)'
      BY <1>1, <2>1, <2>2, <2>4, <3>1, TriplesStep DEF PairOK
    <3> QED BY <1>1, <2>1, <3>1, <3>2 DEF PairOK
  <2>5. CASE InOwnInputs(p)
    <3>1. call[p] # 0 /\ ~ InTriples(p) /\ ~ InInputsOf(p) /\ ~ AtTheEnd(p) /\ running[p][q]
      BY <2>2, <2>5 DEF InTriples, InOwnInputs, InInputsOf, InInputs, AtTheEnd, MainOK, ProgramOK
    <3>2. OwnInputsOK(p, q)'
      BY <1>1, <2>1, <2>2, <2>5, <3>1, OwnInputsStep DEF PairOK
    <3> QED BY <1>1, <2>1, <3>1, <3>2 DEF PairOK
  <2>6. CASE InInputsOf(p)
    <3>1. /\ call[p] # 0 /\ ~ InTriples(p) /\ ~ InOwnInputs(p) /\ ~ AtTheEnd(p) /\ running[p][q]
          /\ call[p] \in 0 .. Len(program)
      BY <2>2, <2>6 DEF InTriples, InOwnInputs, InInputsOf, InInputs, AtTheEnd, MainOK, ProgramOK
    <3>2. ~ Waits(p, q, 0) /\ Turn(p, q, J(p), 0, Length(p, q) + 1)
      BY <2>2, <2>6, <3>1, WaitStep, TurnsAre
    <3>3. at[p] = 3
      BY <2>2, <2>6, <3>2 DEF PairOK, InputsOfOK
    <3>4. Working(p, q, J(p), 0, Length(p, q) + 1)'
      BY <1>1, <2>1, <2>2, <2>6, <3>1, <3>2, <3>3, WorkingStep DEF PairOK, InputsOfOK
    <3>5. InputsOfOK(p, q)'
      BY <1>1, <2>1, <3>3, <3>4 DEF InputsOfOK
    <3> QED BY <1>1, <2>1, <3>1, <3>5 DEF PairOK
  <2>7. CASE AtTheEnd(p)
    <3>1. call[p] # 0 /\ ~ InTriples(p) /\ ~ InOwnInputs(p) /\ ~ InInputsOf(p)
      BY <2>2, <2>7 DEF InTriples, InOwnInputs, InInputsOf, InInputs, AtTheEnd, ProgramOK
    <3>2. at[p] \in {1, 2} /\ Empty(p, q) /\ job[p][q] \in {Idle, Over}
      BY <2>2, <2>7 DEF PairOK
    <3>3. End(p, q)
      BY <3>2, IdleDoes DEF MultiplierStep, TakeJob, TakeGo, Send, Receive, PushAnswer, Empty, Idle, Over
    <3>4. Empty(p, q)' /\ job'[p][q] = Over
      BY <2>2, <3>2, <3>3 DEF End, Empty, ShapeOK
    <3> QED BY <1>1, <2>1, <3>1, <3>2, <3>4 DEF PairOK
  <2>8. call[p] \in 0 .. Len(program) \/ AtTheEnd(p)
    BY <2>2 DEF MainOK, AtTheEnd, ProgramOK
  <2> QED BY <2>2, <2>3, <2>4, <2>5, <2>6, <2>7, <2>8, JobIs DEF InOwnInputs, InInputsOf
<1> QED BY <1>1, <1>2, <1>3, <1>4, <1>5 DEF IInv

-----------------------------------------------------------------------------
(* The order in which main goes through its peers.                          *)
LEMMA PeersAre ==
  ASSUME NEW p \in Parties
  PROVE  /\ FirstPeer(p) \in Peers(p) /\ \A q \in Peers(p) : FirstPeer(p) <= q
         /\ \A n \in Peers(p) :
              /\ NextPeer(p, n) > n /\ NextPeer(p, n) \in Nat
              /\ NextPeer(p, n) < N => NextPeer(p, n) \in Peers(p)
              /\ \A q \in Peers(p) : q > n <=> NextPeer(p, n) <= q
BY SizeAssumption DEF Parties, Peers, FirstPeer, NextPeer

(* The script of main in each kind of call.                                 *)
LEMMA MainScriptIs ==
  ASSUME ProgramOK, NEW p \in Parties, call[p] \in 0 .. Len(program) + 1
  PROVE  /\ call[p] = 0    => MainScript(p) = <<"collect">>
         /\ InTriples(p)   => MainScript(p) = TriplesScript
         /\ InOwnInputs(p) => MainScript(p) = InputsScript(TRUE)
         /\ InInputsOf(p)  => MainScript(p) = InputsScript(FALSE)
         /\ AtTheEnd(p)    => MainScript(p) = <<"destroy", "ended">>
         /\ call[p] = 0 \/ InTriples(p) \/ InOwnInputs(p) \/ InInputsOf(p) \/ AtTheEnd(p)
<1>1. Len(program) \in Nat
  BY DEF ProgramOK
<1>2. call[p] = 0 => MainScript(p) = <<"collect">>
  BY <1>1 DEF MainScript
<1>3. InTriples(p) => MainScript(p) = TriplesScript
  BY <1>1 DEF MainScript, InTriples, J
<1>4. InOwnInputs(p) => MainScript(p) = InputsScript(TRUE)
  <2> SUFFICES ASSUME InOwnInputs(p) PROVE MainScript(p) = InputsScript(TRUE)
    OBVIOUS
  <2>1. MainScript(p) = InputsScript(program[call[p]].player = p)
    BY <1>1 DEF MainScript, InOwnInputs, InInputs, J
  <2>2. program[call[p]].player = p
    BY <1>1 DEF InOwnInputs, InInputs, J
  <2> QED BY <2>1, <2>2 DEF InputsScript
<1>5. InInputsOf(p) => MainScript(p) = InputsScript(FALSE)
  <2> SUFFICES ASSUME InInputsOf(p) PROVE MainScript(p) = InputsScript(FALSE)
    OBVIOUS
  <2>1. MainScript(p) = InputsScript(program[call[p]].player = p)
    BY <1>1 DEF MainScript, InInputsOf, InInputs, J
  <2>2. program[call[p]].player # p
    BY <1>1 DEF InInputsOf, InInputs, J
  <2> QED BY <2>1, <2>2 DEF InputsScript
<1>6. AtTheEnd(p) => MainScript(p) = <<"destroy", "ended">>
  BY <1>1 DEF MainScript, AtTheEnd
<1>7. call[p] = 0 \/ InTriples(p) \/ InOwnInputs(p) \/ InInputsOf(p) \/ AtTheEnd(p)
  BY <1>1, JobIs DEF AtTheEnd, InOwnInputs, InInputsOf
<1> QED BY <1>2, <1>3, <1>4, <1>5, <1>6, <1>7

(* Main goes on to its next operation or call, or stays.                    *)
Moved(p) ==
  IF at[p] < Len(MainScript(p)) THEN at'[p] = at[p] + 1 /\ call'[p] = call[p]
  ELSE at'[p] = 1 /\ call'[p] = call[p] + 1

Stayed(p) == at'[p] = at[p] /\ call'[p] = call[p]

(* Advance does no more than that.                                          *)
LEMMA AdvanceIs ==
  ASSUME ShapeOK, NEW p \in Parties, Advance(p)
  PROVE  /\ Moved(p) /\ DOMAIN at' = Parties /\ DOMAIN call' = Parties
         /\ \A o \in Parties \ {p} : at'[o] = at[o] /\ call'[o] = call[o]
BY DEF Advance, Moved, ShapeOK

(* What a step of main leaves alone.                                        *)
LEMMA MainLeaves ==
  ASSUME ShapeOK, NEW p \in Parties, MainStep(p)
  PROVE  /\ program' = program /\ job' = job /\ step' = step /\ ShapeOK'
         /\ \A o \in Parties \ {p} :
              /\ call'[o] = call[o] /\ at'[o] = at[o] /\ next'[o] = next[o]
              /\ locked'[o] = locked[o] /\ running'[o] = running[o]
              /\ inbox'[o] = inbox[o] /\ outbox'[o] = outbox[o]
<1>1. program' = program /\ job' = job /\ step' = step
  BY DEF MainStep, SignalJob, SignalGo, Collect, Lock, Unlock, Write, Combine, Talk, Hear, Stop, Join, threads
<1>2. Advance(p) \/ UNCHANGED <<call, at>>
  BY DEF MainStep, SignalJob, SignalGo, Collect, Lock, Unlock, Write, Combine, Talk, Hear, Stop, Join, mains
<1>3. next' = next \/ \E x : next' = [next EXCEPT ![p] = x]
  BY DEF MainStep, SignalJob, SignalGo, Collect, Lock, Unlock, Write, Combine, Talk, Hear, Stop, Join, mains
<1>4. locked' = locked \/ \E x : locked' = [locked EXCEPT ![p] = x]
  BY DEF MainStep, SignalJob, SignalGo, Collect, Lock, Unlock, Write, Combine, Talk, Hear, Stop, Join, mains
<1>5. running' = running \/ \E n, x : running' = [running EXCEPT ![p][n] = x]
  BY DEF MainStep, SignalJob, SignalGo, Collect, Lock, Unlock, Write, Combine, Talk, Hear, Stop, Join
<1>6. inbox' = inbox \/ \E x : inbox' = [inbox EXCEPT ![p] = [q \in Peers(p) |-> Append(@[q], x)]]
  BY DEF MainStep, SignalJob, SignalGo, Collect, Lock, Unlock, Write, Combine, Talk, Hear, Stop, Join, Push
<1>7. outbox' = outbox \/ \E n, x : outbox' = [outbox EXCEPT ![p][n] = x]
  BY DEF MainStep, SignalJob, SignalGo, Collect, Lock, Unlock, Write, Combine, Talk, Hear, Stop, Join
<1>8. /\ DOMAIN at' = Parties /\ DOMAIN call' = Parties
      /\ \A o \in Parties \ {p} : at'[o] = at[o] /\ call'[o] = call[o]
  BY <1>2, AdvanceIs DEF ShapeOK
<1>9. /\ DOMAIN next' = Parties /\ DOMAIN locked' = Parties
      /\ \A o \in Parties \ {p} : next'[o] = next[o] /\ locked'[o] = locked[o]
  BY <1>3, <1>4 DEF ShapeOK
<1>10. /\ DOMAIN running' = Parties /\ \A o \in Parties : DOMAIN running'[o] = Peers(o)
       /\ \A o \in Parties \ {p} : running'[o] = running[o]
  BY <1>5 DEF ShapeOK
<1>11. /\ DOMAIN inbox' = Parties /\ \A o \in Parties : DOMAIN inbox'[o] = Peers(o)
       /\ \A o \in Parties \ {p} : inbox'[o] = inbox[o]
  BY <1>6 DEF ShapeOK
<1>12. /\ DOMAIN outbox' = Parties /\ \A o \in Parties : DOMAIN outbox'[o] = Peers(o)
       /\ \A o \in Parties \ {p} : outbox'[o] = outbox[o]
  BY <1>7 DEF ShapeOK
<1>13. ShapeOK'
  BY <1>1, <1>8, <1>9, <1>10, <1>11, <1>12 DEF ShapeOK
<1> QED BY <1>1, <1>8, <1>9, <1>10, <1>11, <1>12, <1>13

(* signal_multipliers: the job, or go, is in every inbox.                   *)
LEMMA SignalIs ==
  ASSUME ShapeOK, NEW p \in Parties, MainStep(p), Op(p) \in {"job", "go"}
  PROVE  /\ \A q \in Peers(p) :
              /\ Op(p) = "job" => inbox'[p][q] = Append(inbox[p][q], program[call[p]])
              /\ Op(p) = "go"  => inbox'[p][q] = Append(inbox[p][q], Go)
         /\ Moved(p) /\ next' = next /\ outbox' = outbox /\ locked' = locked /\ running' = running
<1>1. SignalJob(p) \/ SignalGo(p)
  BY DEF MainStep, Collect, Lock, Unlock, Write, Writes, Combine, Talk, Hear, Stop, Join
<1>2. /\ Op(p) = "job" => Push(p, program[call[p]])
      /\ Op(p) = "go" => Push(p, Go)
      /\ Advance(p) /\ next' = next /\ outbox' = outbox /\ locked' = locked /\ running' = running
  BY <1>1 DEF SignalJob, SignalGo
<1> QED BY <1>2, AdvanceIs DEF Push, ShapeOK

(* wait_for_multipliers: one answer is taken, of the next peer.             *)
LEMMA CollectIs ==
  ASSUME ShapeOK, NEW p \in Parties, MainStep(p), Op(p) = "collect", next[p] \in Peers(p)
  PROVE  /\ outbox[p][next[p]] # <<>> /\ outbox'[p][next[p]] = Tail(outbox[p][next[p]])
         /\ \A q \in Peers(p) \ {next[p]} : outbox'[p][q] = outbox[p][q]
         /\ IF NextPeer(p, next[p]) >= N THEN next'[p] = FirstPeer(p) /\ Moved(p)
            ELSE next'[p] = NextPeer(p, next[p]) /\ Stayed(p)
         /\ inbox' = inbox /\ locked' = locked /\ running' = running
<1>1. Collect(p)
  BY DEF MainStep, SignalJob, SignalGo, Lock, Unlock, Write, Writes, Combine, Talk, Hear, Stop, Join
<1> QED BY <1>1, AdvanceIs DEF Collect, WaitedFor, Stayed, ShapeOK

(* The operations that touch no queue.                                      *)
LEMMA PlainIs ==
  ASSUME ShapeOK, NEW p \in Parties, MainStep(p),
         Op(p) \notin {"job", "go", "collect", "destroy", "ended"}
  PROVE  /\ Moved(p) \/ Stayed(p)
         /\ Op(p) \in {"lock", "unlock"} => Moved(p)
         /\ Op(p) = "unlock" => ~ locked'[p]
         /\ Op(p) # "lock" => (locked'[p] => locked[p])
         /\ next' = next /\ inbox' = inbox /\ outbox' = outbox /\ running' = running
<1>1. Lock(p) \/ Unlock(p) \/ Write(p) \/ Combine(p) \/ Talk(p) \/ \E q \in Peers(p) : Hear(p, q)
  BY DEF MainStep, SignalJob, SignalGo, Collect, Stop, Join
<1>2. /\ Advance(p) \/ UNCHANGED <<call, at>>
      /\ Op(p) \in {"lock", "unlock"} => Advance(p)
      /\ next' = next /\ inbox' = inbox /\ outbox' = outbox /\ running' = running
  BY <1>1 DEF Lock, Unlock, Write, Writes, Combine, Talk, Hear
<1>3. /\ Op(p) = "unlock" => ~ locked'[p]
      /\ Op(p) # "lock" => (locked'[p] => locked[p])
  BY <1>1 DEF Lock, Unlock, Write, Writes, Combine, Talk, Hear, ShapeOK
<1> QED BY <1>2, <1>3, AdvanceIs DEF Stayed

(* The destructor touches no queue.                                         *)
LEMMA DestroyIs ==
  ASSUME ShapeOK, NEW p \in Parties, MainStep(p), Op(p) = "destroy", next[p] \in Peers(p)
  PROVE  /\ Moved(p) \/ (Stayed(p) /\ next'[p] \in Peers(p))
         /\ inbox' = inbox /\ outbox' = outbox /\ locked' = locked
<1>1. Stop(p) \/ Join(p)
  BY DEF MainStep, SignalJob, SignalGo, Collect, Lock, Unlock, Write, Writes, Combine, Talk, Hear
<1> QED BY <1>1, AdvanceIs, PeersAre, SizeAssumption DEF Stop, Join, Stayed, ShapeOK, mains

(* Main does nothing once it has ended.                                     *)
LEMMA EndedIs ==
  ASSUME NEW p \in Parties, MainStep(p)
  PROVE  Op(p) # "ended"
BY DEF MainStep, SignalJob, SignalGo, Collect, Lock, Unlock, Write, Writes, Combine, Talk, Hear, Stop, Join

-----------------------------------------------------------------------------
(* The round, and the operation of it, that main is in.                     *)
(* Main of generateTriples is before, within or after the rounds.           *)
LEMMA TriplesPlace ==
  ASSUME NEW p, at[p] \in 1 .. 5 + 10 * Loops
  PROVE  \/ at[p] \in 1 .. 4 \/ at[p] = 5 + 10 * Loops
         \/ \E r \in 0 .. Loops - 1, k \in 0 .. 9 : at[p] = 5 + 10 * r + k
<1> USE SizeAssumption
<1>1. ASSUME at[p] \in 5 .. 5 + 10 * Loops - 1
      PROVE  \E r \in 0 .. Loops - 1, k \in 0 .. 9 : at[p] = 5 + 10 * r + k
  <2>1. 10 \in Nat \ {0} /\ 5 \in Nat /\ 10 - 1 = 9
    OBVIOUS
  <2>2. ASSUME NEW n \in Nat \ {0}, NEW m \in Nat, at[p] \in m .. m + n * Loops - 1
        PROVE  \E r \in 0 .. Loops - 1, k \in 0 .. n - 1 : at[p] = m + n * r + k
    <3>1. Loops \in Nat
      OBVIOUS
    <3> QED BY <2>2, <3>1, Where, ZenonT(120)
  <2> QED BY <1>1, <2>1, <2>2
<1> QED BY <1>1

(* What main does there.                                                    *)
LEMMA OpInTriples ==
  ASSUME ProgramOK, NEW p \in Parties, call[p] \in 0 .. Len(program) + 1, InTriples(p)
  PROVE  /\ Len(MainScript(p)) = 5 + 10 * Loops
         /\ at[p] = 1 => Op(p) = "job"
         /\ at[p] = 2 => Op(p) = "resize"
         /\ at[p] = 3 => Op(p) = "collect"
         /\ at[p] = 4 => Op(p) = "lock"
         /\ at[p] = 5 + 10 * Loops => Op(p) = "unlock"
         /\ \A r \in 0 .. Loops - 1, k \in 0 .. 9 : at[p] = 5 + 10 * r + k =>
              /\ k \in {1, 6} => Op(p) = "go"
              /\ k \in {2, 7} => Op(p) = "collect"
              /\ k \notin {1, 2, 6, 7} => Op(p) \in {"randomize", "combine", "talk", "amplify"}
<1>1. MainScript(p) = TriplesScript
  BY MainScriptIs DEF InTriples
<1>2. /\ \A k \in {1, 6} : TripleRound[k + 1] = "go"
      /\ \A k \in {2, 7} : TripleRound[k + 1] = "collect"
      /\ \A k \in (0 .. 9) \ {1, 2, 6, 7} :
           TripleRound[k + 1] \in {"randomize", "combine", "talk", "amplify"}
  BY DEF TripleRound
<1>3. ASSUME NEW r \in 0 .. Loops - 1, NEW k \in 0 .. 9, at[p] = 5 + 10 * r + k
      PROVE  Op(p) = TripleRound[k + 1]
  BY <1>1, <1>3, MainTriples DEF Op
<1>4. /\ Len(MainScript(p)) = 5 + 10 * Loops
      /\ at[p] = 1 => Op(p) = "job"
      /\ at[p] = 2 => Op(p) = "resize"
      /\ at[p] = 3 => Op(p) = "collect"
      /\ at[p] = 4 => Op(p) = "lock"
      /\ at[p] = 5 + 10 * Loops => Op(p) = "unlock"
  BY <1>1, MainTriples DEF Op
<1>5. ASSUME NEW r \in 0 .. Loops - 1, NEW k \in 0 .. 9, at[p] = 5 + 10 * r + k
      PROVE  /\ k \in {1, 6} => Op(p) = "go"
             /\ k \in {2, 7} => Op(p) = "collect"
             /\ k \notin {1, 2, 6, 7} => Op(p) \in {"randomize", "combine", "talk", "amplify"}
  BY <1>2, <1>3, <1>5
<1> QED BY <1>4, <1>5

(* What main does in generateInputs.                                        *)
LEMMA OpInInputs ==
  ASSUME ProgramOK, NEW p \in Parties, call[p] \in 0 .. Len(program) + 1
  PROVE  /\ InOwnInputs(p) =>
              /\ Len(MainScript(p)) = 8
              /\ at[p] = 1 => Op(p) = "shrink"
              /\ at[p] = 2 => Op(p) = "job"
              /\ at[p] = 3 => Op(p) = "randomize"
              /\ at[p] = 4 => Op(p) = "go"
              /\ at[p] = 5 => Op(p) = "collect"
              /\ at[p] \in {6, 8} => Op(p) = "talk"
              /\ at[p] = 7 => Op(p) = "combine"
         /\ InInputsOf(p) =>
              /\ Len(MainScript(p)) = 6
              /\ at[p] = 1 => Op(p) = "shrink"
              /\ at[p] = 2 => Op(p) = "job"
              /\ at[p] = 3 => Op(p) = "collect"
              /\ at[p] \in {4, 6} => Op(p) = "talk"
              /\ at[p] = 5 => Op(p) = "combine"
<1>1. InOwnInputs(p) => MainScript(p) = InputsScript(TRUE)
  BY MainScriptIs DEF InOwnInputs, InInputs
<1>2. InInputsOf(p) => MainScript(p) = InputsScript(FALSE)
  BY MainScriptIs DEF InInputsOf, InInputs
<1> QED BY <1>1, <1>2, MainInputs DEF Op

(* What main does in the constructor and the destructor.                    *)
LEMMA OpElsewhere ==
  ASSUME ProgramOK, NEW p \in Parties, call[p] \in 0 .. Len(program) + 1
  PROVE  /\ call[p] = 0 => Len(MainScript(p)) = 1 /\ (at[p] = 1 => Op(p) = "collect")
         /\ AtTheEnd(p) => /\ Len(MainScript(p)) = 2
                           /\ at[p] = 1 => Op(p) = "destroy"
                           /\ at[p] = 2 => Op(p) = "ended"
<1>1. Len(program) \in Nat
  BY DEF ProgramOK
<1>2. call[p] = 0 => MainScript(p) = <<"collect">>
  BY <1>1, MainScriptIs
<1>3. AtTheEnd(p) => MainScript(p) = <<"destroy", "ended">>
  BY <1>1, MainScriptIs DEF AtTheEnd
<1> QED BY <1>2, <1>3 DEF Op

(* Collecting from the peer whose turn it is, of what a multiplier works    *)
(* at: all are done with when it was the last.                              *)
(* Collecting from one peer: the answer of that peer's multiplier is gone   *)
(* and it waits; the others are as they were.                               *)
LEMMA Collected ==
  ASSUME ShapeOK, NEW p \in Parties, NEW q \in Peers(p), MainStep(p), Op(p) = "collect",
         next[p] \in Peers(p), NEW x, NEW s, NEW t, Working(p, q, x, s, t)
  PROVE  /\ NextPeer(p, next[p]) >= N => Empty(p, q)' /\ Stands(p, q, t)
         /\ NextPeer(p, next[p]) < N /\ next'[p] <= q => Works(p, q, x, s, t) /\ outbox'[p][q] = outbox[p][q]
         /\ NextPeer(p, next[p]) < N /\ ~ (next'[p] <= q) => Empty(p, q)' /\ Stands(p, q, t)
<1>1. /\ outbox[p][next[p]] # <<>> /\ outbox'[p][next[p]] = Tail(outbox[p][next[p]])
      /\ \A o \in Peers(p) \ {next[p]} : outbox'[p][o] = outbox[p][o]
      /\ NextPeer(p, next[p]) < N => next'[p] = NextPeer(p, next[p])
      /\ inbox' = inbox
  BY CollectIs, PeersAre, SizeAssumption
<1>2. /\ q > next[p] <=> NextPeer(p, next[p]) <= q
      /\ NextPeer(p, next[p]) \in Nat /\ q \in Nat /\ next[p] \in Nat /\ q < N
  <2>1. q > next[p] <=> NextPeer(p, next[p]) <= q
    BY PeersAre
  <2>2. NextPeer(p, next[p]) \in Nat
    BY PeersAre
  <2>3. q \in Nat /\ next[p] \in Nat /\ q < N
    BY SizeAssumption DEF Peers, Parties
  <2> QED BY <2>1, <2>2, <2>3
<1>3. CASE q = next[p]
  <2>1. Works(p, q, x, s, t) /\ outbox[p][q] # <<>>
    BY <1>1, <1>2, <1>3 DEF Working
  <2>2. inbox[p][q] = <<>> /\ outbox[p][q] = <<J(p)>> /\ Stands(p, q, t)
    BY <2>1 DEF Works, Empty
  <2>3. Empty(p, q)' /\ Stands(p, q, t)
    BY <1>1, <1>3, <2>2, QueueFacts DEF Empty
  <2> QED BY <1>1, <1>2, <1>3, <2>3
<1>4. CASE q > next[p]
  BY <1>1, <1>2, <1>4, SizeAssumption DEF Working
<1>5. CASE q < next[p]
  <2>1. Empty(p, q) /\ Stands(p, q, t)
    BY <1>2, <1>5 DEF Working, Waits
  <2> QED BY <1>1, <1>2, <1>5, <2>1 DEF Empty
<1> QED BY <1>2, <1>3, <1>4, <1>5

(* The first operation of a call, after the last of the call before.        *)
(* A multiplier that is back in its loop, with nothing in its queues.       *)
Cleared(p, q) == Empty(p, q)' /\ job'[p][q] = Idle

(* It may begin any call so.                                                *)
LEMMA NextCall ==
  ASSUME IInv, NEW p \in Parties, NEW q \in Peers(p), program' = program, Cleared(p, q),
         at'[p] = 1, call'[p] = call[p] + 1, call[p] \in 0 .. Len(program)
  PROVE  PairOK(p, q)'
<1> USE SizeAssumption
<1>1. ProgramOK' /\ Len(program) \in Nat /\ program \in Seq(Call)
  BY DEF IInv, ProgramOK
<1>2. call'[p] # 0
  BY <1>1
<1>3. Waits(p, q, 0)'
  <2>1. Stands(p, q, 0)'
    BY DEF Stands, Cleared
  <2> QED BY <2>1 DEF Waits, Cleared
<1>4. TriplesOK(p, q)'
  <2>1. \A r \in 0 .. Loops - 1, k \in 0 .. 9 : 1 # 5 + 10 * r + k
    OBVIOUS
  <2> QED BY <1>3, <2>1 DEF TriplesOK
<1>5. OwnInputsOK(p, q)' /\ InputsOfOK(p, q)'
  BY <1>3 DEF OwnInputsOK, InputsOfOK
<1>6. Empty(p, q)' /\ job'[p][q] = Idle /\ at'[p] \in {1, 2}
  BY DEF Cleared
<1> QED BY <1>2, <1>4, <1>5, <1>6 DEF PairOK

(* The next operation of the same call.                                     *)
(* What only the call determines.                                           *)
LEMMA SameCall ==
  ASSUME NEW p, NEW q, program' = program, call'[p] = call[p]
  PROVE  /\ J(p)' = J(p) /\ InTriples(p)' = InTriples(p) /\ InOwnInputs(p)' = InOwnInputs(p)
         /\ InInputsOf(p)' = InInputsOf(p) /\ AtTheEnd(p)' = AtTheEnd(p)
         /\ Length(p, q)' = Length(p, q)
BY DEF J, InTriples, InOwnInputs, InInputsOf, InInputs, AtTheEnd, Length

(* Main's steps leave a multiplier where it stands.                         *)
LEMMA SameStand ==
  ASSUME NEW p, NEW q, NEW s, program' = program, call'[p] = call[p], job' = job, step' = step
  PROVE  Stands(p, q, s)' = Stands(p, q, s)
BY SameCall DEF Stands

(* And at the same work, when its queues stay.                              *)
LEMMA SameWork ==
  ASSUME NEW p, NEW q, NEW x, NEW s, NEW t, program' = program, call'[p] = call[p], job' = job, step' = step,
         inbox'[p][q] = inbox[p][q], outbox'[p][q] = outbox[p][q]
  PROVE  /\ Works(p, q, x, s, t)' = Works(p, q, x, s, t)
         /\ \A n : Waits(p, q, n)' = Waits(p, q, n)
<1>1. \A n : Stands(p, q, n)' = Stands(p, q, n)
  BY SameStand
<1>2. J(p)' = J(p)
  BY SameCall
<1> QED BY <1>1, <1>2 DEF Works, Waits, Empty

(* A signal finds the multiplier waiting, and has it work.                  *)
(* A multiplier that waits and is signalled works.                          *)
LEMMA Signalled ==
  ASSUME NEW p \in Parties, NEW q \in Peers(p), program' = program, call'[p] = call[p],
         job' = job, step' = step, outbox' = outbox, next' = next, next[p] = FirstPeer(p),
         NEW x, inbox'[p][q] = Append(inbox[p][q], x), NEW s, NEW t, Waits(p, q, s)
  PROVE  Working(p, q, x, s, t)'
<1>1. inbox'[p][q] = <<x>> /\ outbox'[p][q] = <<>> /\ Stands(p, q, s)'
  BY SameStand, QueueFacts DEF Waits, Empty
<1>2. next'[p] <= q
  BY PeersAre
<1> QED BY <1>1, <1>2 DEF Working, Works

(* One that has been collected from, or not yet.                            *)
(* One turn of the loop of wait_for_multipliers, not the last.              *)
LEMMA StillWorking ==
  ASSUME ShapeOK, NEW p \in Parties, NEW q \in Peers(p), MainStep(p), Op(p) = "collect",
         next[p] \in Peers(p), NEW x, NEW s, NEW t, Working(p, q, x, s, t),
         NextPeer(p, next[p]) < N
  PROVE  Working(p, q, x, s, t)'
<1>1. /\ inbox' = inbox /\ Stayed(p) /\ next'[p] = NextPeer(p, next[p])
      /\ program' = program /\ job' = job /\ step' = step
  BY CollectIs, MainLeaves, PeersAre, SizeAssumption
<1>2. CASE next'[p] <= q
  <2>1. Works(p, q, x, s, t) /\ outbox'[p][q] = outbox[p][q]
    BY <1>2, Collected
  <2> QED BY <1>1, <1>2, <2>1, SameWork DEF Working, Stayed
<1>3. CASE ~ (next'[p] <= q)
  <2>1. Empty(p, q)' /\ Stands(p, q, t)
    BY <1>3, Collected
  <2> QED BY <1>1, <1>3, <2>1, SameStand DEF Working, Waits, Stayed
<1> QED BY <1>2, <1>3

(* The last turn: every multiplier waits.                                   *)
LEMMA AllCollected ==
  ASSUME ShapeOK, NEW p \in Parties, NEW q \in Peers(p), MainStep(p), Op(p) = "collect",
         next[p] \in Peers(p), NEW x, NEW s, NEW t, Working(p, q, x, s, t),
         NextPeer(p, next[p]) >= N, call'[p] = call[p]
  PROVE  Waits(p, q, t)'
<1>1. program' = program /\ job' = job /\ step' = step
  BY MainLeaves
<1>2. Empty(p, q)' /\ Stands(p, q, t)
  BY Collected
<1> QED BY <1>1, <1>2, SameStand DEF Waits

-----------------------------------------------------------------------------
(* In generateTriples, TriplesOK is all there is to show.                   *)
LEMMA PairInTriples ==
  ASSUME ProgramOK, NEW p, NEW q, InTriples(p), program' = program, call'[p] = call[p], TriplesOK(p, q)'
  PROVE  PairOK(p, q)'
<1>1. InTriples(p)' = InTriples(p) /\ InOwnInputs(p)' = InOwnInputs(p)
      /\ InInputsOf(p)' = InInputsOf(p) /\ AtTheEnd(p)' = AtTheEnd(p)
  BY SameCall
<1>2. call[p] # 0 /\ ~ InOwnInputs(p) /\ ~ InInputsOf(p) /\ ~ AtTheEnd(p)
  BY DEF InTriples, InOwnInputs, InInputsOf, InInputs, AtTheEnd, ProgramOK
<1> QED BY <1>1, <1>2 DEF PairOK

(* At an operation of a round, RoundOK is all there is to show.             *)
LEMMA RoundAt ==
  ASSUME NEW p, NEW q, NEW r \in 0 .. Loops - 1, NEW k \in 0 .. 9, at'[p] = 5 + 10 * r + k,
         RoundOK(p, q, r, k)'
  PROVE  TriplesOK(p, q)'
<1> USE SizeAssumption
<1>1. at'[p] \in 5 .. 4 + 10 * Loops
  OBVIOUS
<1>2. ASSUME NEW r1 \in 0 .. Loops - 1, NEW k1 \in 0 .. 9, at'[p] = 5 + 10 * r1 + k1
      PROVE  r1 = r /\ k1 = k
  BY <1>2
<1>3. \A r1 \in 0 .. Loops - 1, k1 \in 0 .. 9 : at'[p] = 5 + 10 * r1 + k1 => RoundOK(p, q, r1, k1)'
  BY <1>2
<1> QED BY <1>1, <1>3 DEF TriplesOK

(* The rounds are behind, or one is ahead.                                  *)
(* Before a round, or after the last: the multiplier waits for it.          *)
LEMMA NextRound ==
  ASSUME NEW p, NEW q, NEW r \in 0 .. Loops, at'[p] = 5 + 10 * r, Waits(p, q, 2 + 14 * r)'
  PROVE  TriplesOK(p, q)'
<1> USE SizeAssumption
<1>1. CASE r < Loops
  <2>1. r \in 0 .. Loops - 1 /\ 0 \in 0 .. 9 /\ at'[p] = 5 + 10 * r + 0
    BY <1>1
  <2>2. RoundOK(p, q, r, 0)'
    BY DEF RoundOK
  <2> QED BY <2>1, <2>2, RoundAt
<1>2. CASE r = Loops
  <2>1. at'[p] \in 5 .. 5 + 10 * Loops
    BY <1>2
  <2>2. \A r1 \in 0 .. Loops - 1, k1 \in 0 .. 9 : at'[p] # 5 + 10 * r1 + k1
    BY <1>2
  <2> QED BY <1>2, <2>1, <2>2 DEF TriplesOK
<1> QED BY <1>1, <1>2

(* A step of main within the rounds of generateTriples.                     *)
LEMMA RoundMain ==
  ASSUME IInv, NEW p \in Parties, NEW q \in Peers(p), MainStep(p), InTriples(p),
         NEW r \in 0 .. Loops - 1, NEW k \in 0 .. 9, at[p] = 5 + 10 * r + k
  PROVE  TriplesOK(p, q)' /\ call'[p] = call[p]
<1> USE SizeAssumption
<1>1. ProgramOK /\ ShapeOK /\ MainOK(p) /\ PairOK(p, q)
  BY DEF IInv
<1>2. program' = program /\ job' = job /\ step' = step
  BY <1>1, MainLeaves
<1>3. call[p] \in 0 .. Len(program) + 1 /\ RoundOK(p, q, r, k)
  BY <1>1 DEF MainOK, PairOK, TriplesOK
<1>4. at[p] < Len(MainScript(p)) /\ 5 + 10 * r + (k + 1) = at[p] + 1
  <2>1. Len(MainScript(p)) = 5 + 10 * Loops
    BY <1>1, <1>3, OpInTriples
  <2> QED BY <2>1
<1>5. CASE k \in {1, 6}
  <2>1. Op(p) = "go"
    BY <1>1, <1>3, <1>5, OpInTriples
  <2>2. /\ inbox'[p][q] = Append(inbox[p][q], Go) /\ at'[p] = at[p] + 1 /\ call'[p] = call[p]
        /\ next' = next /\ outbox' = outbox
    BY <1>1, <1>4, <2>1, SignalIs DEF Moved
  <2>3. next[p] = FirstPeer(p)
    BY <1>1, <2>1 DEF MainOK
  <2>4. k = 1 => Working(p, q, Go, 2 + 14 * r, 8 + 14 * r)'
    BY <1>2, <1>3, <2>2, <2>3, Signalled DEF RoundOK
  <2>5. k = 6 => Working(p, q, Go, 8 + 14 * r, 16 + 14 * r)'
    BY <1>2, <1>3, <2>2, <2>3, Signalled DEF RoundOK
  <2>6. k + 1 \in 0 .. 9 /\ RoundOK(p, q, r, k + 1)'
    BY <1>5, <2>4, <2>5 DEF RoundOK
  <2> QED BY <1>4, <2>2, <2>6, RoundAt
<1>6. CASE k \in {2, 7}
  <2>1. Op(p) = "collect" /\ next[p] \in Peers(p)
    BY <1>1, <1>3, <1>6, OpInTriples DEF MainOK
  <2>2. /\ k = 2 => Working(p, q, Go, 2 + 14 * r, 8 + 14 * r)
        /\ k = 7 => Working(p, q, Go, 8 + 14 * r, 16 + 14 * r)
    BY <1>3 DEF RoundOK
  <2>3. CASE NextPeer(p, next[p]) < N
    <3>1. at'[p] = at[p] /\ call'[p] = call[p]
      BY <1>1, <2>1, <2>3, CollectIs, PeersAre DEF Stayed
    <3>2. k = 2 => Working(p, q, Go, 2 + 14 * r, 8 + 14 * r)'
      BY <1>1, <2>1, <2>2, <2>3, StillWorking
    <3>3. k = 7 => Working(p, q, Go, 8 + 14 * r, 16 + 14 * r)'
      BY <1>1, <2>1, <2>2, <2>3, StillWorking
    <3>4. RoundOK(p, q, r, k)'
      BY <1>6, <3>2, <3>3 DEF RoundOK
    <3> QED BY <3>1, <3>4, RoundAt
  <2>4. CASE NextPeer(p, next[p]) >= N
    <3>1. at'[p] = at[p] + 1 /\ call'[p] = call[p]
      BY <1>1, <1>4, <2>1, <2>4, CollectIs DEF Moved
    <3>2. k = 2 => Waits(p, q, 8 + 14 * r)'
      BY <1>1, <2>1, <2>2, <2>4, <3>1, AllCollected
    <3>3. k = 7 => Waits(p, q, 16 + 14 * r)'
      BY <1>1, <2>1, <2>2, <2>4, <3>1, AllCollected
    <3>4. k + 1 \in 0 .. 9 /\ RoundOK(p, q, r, k + 1)'
      BY <1>6, <3>2, <3>3 DEF RoundOK
    <3> QED BY <1>4, <3>1, <3>4, RoundAt
  <2> QED BY <2>1, <2>3, <2>4, PeersAre
<1>7. CASE k \notin {1, 2, 6, 7}
  <2>1. Op(p) \in {"randomize", "combine", "talk", "amplify"}
    BY <1>1, <1>3, <1>7, OpInTriples
  <2>2. /\ Moved(p) \/ Stayed(p)
        /\ inbox' = inbox /\ outbox' = outbox /\ next' = next
    BY <1>1, <2>1, PlainIs
  <2>3. call'[p] = call[p] /\ (at'[p] = at[p] + 1 \/ at'[p] = at[p])
    BY <1>4, <2>2 DEF Moved, Stayed
  <2>4. \A n : Waits(p, q, n)' = Waits(p, q, n)
    BY <1>2, <2>2, <2>3, SameWork
  <2>5. CASE at'[p] = at[p]
    <3>1. RoundOK(p, q, r, k)'
      BY <1>3, <1>7, <2>4 DEF RoundOK
    <3> QED BY <2>3, <2>5, <3>1, RoundAt
  <2>6. CASE at'[p] = at[p] + 1 /\ k < 9
    <3>1. k + 1 \in 0 .. 9 /\ RoundOK(p, q, r, k + 1)'
      BY <1>3, <1>7, <2>4, <2>6 DEF RoundOK
    <3> QED BY <1>4, <2>3, <2>6, <3>1, RoundAt
  <2>7. CASE at'[p] = at[p] + 1 /\ k = 9
    <3>1. Waits(p, q, 2 + 14 * (r + 1))'
      BY <1>3, <2>4, <2>7 DEF RoundOK
    <3>2. r + 1 \in 0 .. Loops /\ at'[p] = 5 + 10 * (r + 1)
      BY <2>7
    <3> QED BY <2>3, <3>1, <3>2, NextRound
  <2> QED BY <2>3, <2>5, <2>6, <2>7
<1> QED BY <1>5, <1>6, <1>7

(* Before the rounds.                                                       *)
LEMMA Early ==
  ASSUME NEW p, NEW q, at'[p] \in 1 .. 4,
         at'[p] = 1 => Waits(p, q, 0)',
         at'[p] \in {2, 3} => Working(p, q, J(p), 0, 2)',
         at'[p] = 4 => Waits(p, q, 2)'
  PROVE  TriplesOK(p, q)'
<1> USE SizeAssumption
<1>1. at'[p] \in 1 .. 5 + 10 * Loops /\ at'[p] # 5 + 10 * Loops
  OBVIOUS
<1>2. \A r \in 0 .. Loops - 1, k \in 0 .. 9 : at'[p] # 5 + 10 * r + k
  OBVIOUS
<1> QED BY <1>1, <1>2 DEF TriplesOK

(* A step of main in generateTriples.                                       *)
LEMMA TriplesMain ==
  ASSUME IInv, NEW p \in Parties, NEW q \in Peers(p), MainStep(p), InTriples(p)
  PROVE  PairOK(p, q)'
<1> USE SizeAssumption
<1>1. ProgramOK /\ ShapeOK /\ MainOK(p) /\ PairOK(p, q)
  BY DEF IInv
<1>2. program' = program /\ job' = job /\ step' = step
  BY <1>1, MainLeaves
<1>3. /\ call[p] \in 0 .. Len(program) + 1 /\ call[p] \in 0 .. Len(program)
      /\ J(p) = program[call[p]] /\ TriplesOK(p, q) /\ Len(MainScript(p)) = 5 + 10 * Loops
  BY <1>1, OpInTriples DEF MainOK, PairOK, InTriples, J
<1>4. CASE at[p] = 1
  <2>1. Op(p) = "job" /\ next[p] = FirstPeer(p)
    BY <1>1, <1>3, <1>4, OpInTriples DEF MainOK
  <2>2. /\ inbox'[p][q] = Append(inbox[p][q], J(p)) /\ at'[p] = 2 /\ call'[p] = call[p]
        /\ next' = next /\ outbox' = outbox
    BY <1>1, <1>3, <1>4, <2>1, SignalIs DEF Moved
  <2>3. J(p)' = J(p)
    BY <1>2, <2>2, SameCall
  <2>4. Working(p, q, J(p), 0, 2)'
    BY <1>2, <1>3, <1>4, <2>1, <2>2, <2>3, Signalled DEF TriplesOK
  <2>5. TriplesOK(p, q)'
    BY <2>2, <2>4, Early
  <2> QED BY <1>1, <1>2, <2>2, <2>5, PairInTriples
<1>5. CASE at[p] = 2
  <2>1. Op(p) = "resize"
    BY <1>1, <1>3, <1>5, OpInTriples
  <2>2. /\ Moved(p) \/ Stayed(p)
        /\ inbox' = inbox /\ outbox' = outbox /\ next' = next
    BY <1>1, <2>1, PlainIs
  <2>3. call'[p] = call[p] /\ at'[p] \in {2, 3}
    BY <1>3, <1>5, <2>2 DEF Moved, Stayed
  <2>4. J(p)' = J(p)
    BY <1>2, <2>3, SameCall
  <2>5. Working(p, q, J(p), 0, 2)'
    BY <1>2, <1>3, <1>5, <2>2, <2>3, <2>4, SameWork DEF TriplesOK, Working
  <2>6. TriplesOK(p, q)'
    BY <2>3, <2>5, Early
  <2> QED BY <1>1, <1>2, <2>3, <2>6, PairInTriples
<1>6. CASE at[p] = 3
  <2>1. Op(p) = "collect" /\ next[p] \in Peers(p) /\ Working(p, q, J(p), 0, 2)
    BY <1>1, <1>3, <1>6, OpInTriples DEF MainOK, TriplesOK
  <2>2. CASE NextPeer(p, next[p]) < N
    <3>1. at'[p] = 3 /\ call'[p] = call[p]
      BY <1>1, <1>6, <2>1, <2>2, CollectIs, PeersAre DEF Stayed
    <3>2. J(p)' = J(p)
      BY <1>2, <3>1, SameCall
    <3>3. Working(p, q, J(p), 0, 2)'
      BY <1>1, <2>1, <2>2, <3>2, StillWorking
    <3>4. TriplesOK(p, q)'
      BY <3>1, <3>3, Early
    <3> QED BY <1>1, <1>2, <3>1, <3>4, PairInTriples
  <2>3. CASE NextPeer(p, next[p]) >= N
    <3>1. at'[p] = 4 /\ call'[p] = call[p]
      BY <1>1, <1>3, <1>6, <2>1, <2>3, CollectIs DEF Moved
    <3>2. Waits(p, q, 2)'
      BY <1>1, <2>1, <2>3, <3>1, AllCollected
    <3>3. TriplesOK(p, q)'
      BY <3>1, <3>2, Early
    <3> QED BY <1>1, <1>2, <3>1, <3>3, PairInTriples
  <2> QED BY <2>1, <2>2, <2>3, PeersAre
<1>7. CASE at[p] = 4
  <2>1. Op(p) = "lock"
    BY <1>1, <1>3, <1>7, OpInTriples
  <2>2. Moved(p) /\ inbox' = inbox /\ outbox' = outbox
    BY <1>1, <2>1, PlainIs
  <2>3. at'[p] = 5 + 10 * 0 /\ call'[p] = call[p]
    BY <1>3, <1>7, <2>2 DEF Moved
  <2>4. Waits(p, q, 2)
    BY <1>3, <1>7 DEF TriplesOK
  <2>5. \A n : Waits(p, q, n)' = Waits(p, q, n)
    BY <1>2, <2>2, <2>3, SameWork
  <2>6. Waits(p, q, 2 + 14 * 0)'
    BY <2>4, <2>5
  <2>7. 0 \in 0 .. Loops
    OBVIOUS
  <2>8. TriplesOK(p, q)'
    BY <2>3, <2>6, <2>7, NextRound
  <2> QED BY <1>1, <1>2, <2>3, <2>8, PairInTriples
<1>8. CASE at[p] = 5 + 10 * Loops
  <2>1. Op(p) = "unlock"
    BY <1>1, <1>3, <1>8, OpInTriples
  <2>2. Moved(p) /\ inbox' = inbox /\ outbox' = outbox
    BY <1>1, <2>1, PlainIs
  <2>3. at'[p] = 1 /\ call'[p] = call[p] + 1
    BY <1>3, <1>8, <2>2 DEF Moved
  <2>4. Waits(p, q, 2 + 14 * Loops)
    BY <1>3, <1>8 DEF TriplesOK
  <2>5. 2 + 14 * Loops \notin 1 .. Length(p, q)
    BY DEF Length, InTriples, InOwnInputs, InInputsOf, InInputs
  <2>6. Cleared(p, q)
    BY <1>2, <2>2, <2>4, <2>5 DEF Cleared, Waits, Empty, Stands
  <2> QED BY <1>2, <1>3, <2>3, <2>6, NextCall
<1>9. ASSUME NEW r \in 0 .. Loops - 1, NEW k \in 0 .. 9, at[p] = 5 + 10 * r + k
      PROVE  PairOK(p, q)'
  BY <1>1, <1>2, <1>9, RoundMain, PairInTriples
<1> QED
  <2>1. \/ at[p] \in 1 .. 4 \/ at[p] = 5 + 10 * Loops
        \/ \E r \in 0 .. Loops - 1, k \in 0 .. 9 : at[p] = 5 + 10 * r + k
    BY <1>3, TriplesPlace DEF TriplesOK
  <2> QED BY <2>1, <1>4, <1>5, <1>6, <1>7, <1>8, <1>9

(* In a party's own inputs, OwnInputsOK is all there is to show.            *)
LEMMA PairInOwnInputs ==
  ASSUME ProgramOK, NEW p, NEW q, InOwnInputs(p), program' = program, call'[p] = call[p],
         OwnInputsOK(p, q)'
  PROVE  PairOK(p, q)'
<1>1. InTriples(p)' = InTriples(p) /\ InOwnInputs(p)' = InOwnInputs(p)
      /\ InInputsOf(p)' = InInputsOf(p) /\ AtTheEnd(p)' = AtTheEnd(p)
  BY SameCall
<1>2. call[p] # 0 /\ ~ InTriples(p) /\ ~ InInputsOf(p) /\ ~ AtTheEnd(p)
  BY DEF InTriples, InOwnInputs, InInputsOf, InInputs, AtTheEnd, ProgramOK
<1> QED BY <1>1, <1>2 DEF PairOK

(* In another party's, InputsOfOK.                                          *)
LEMMA PairInInputsOf ==
  ASSUME ProgramOK, NEW p, NEW q, InInputsOf(p), program' = program, call'[p] = call[p],
         InputsOfOK(p, q)'
  PROVE  PairOK(p, q)'
<1>1. InTriples(p)' = InTriples(p) /\ InOwnInputs(p)' = InOwnInputs(p)
      /\ InInputsOf(p)' = InInputsOf(p) /\ AtTheEnd(p)' = AtTheEnd(p)
  BY SameCall
<1>2. call[p] # 0 /\ ~ InTriples(p) /\ ~ InOwnInputs(p) /\ ~ AtTheEnd(p)
  BY DEF InTriples, InOwnInputs, InInputsOf, InInputs, AtTheEnd, ProgramOK
<1> QED BY <1>1, <1>2 DEF PairOK

(* A step of main in generateInputs, for its own inputs.                    *)
LEMMA OwnInputsMain ==
  ASSUME IInv, NEW p \in Parties, NEW q \in Peers(p), MainStep(p), InOwnInputs(p)
  PROVE  PairOK(p, q)'
<1> USE SizeAssumption
<1>1. ProgramOK /\ ShapeOK /\ MainOK(p) /\ PairOK(p, q)
  BY DEF IInv
<1>2. program' = program /\ job' = job /\ step' = step
  BY <1>1, MainLeaves
<1>3. /\ call[p] \in 0 .. Len(program) + 1 /\ call[p] \in 0 .. Len(program)
      /\ J(p) = program[call[p]] /\ OwnInputsOK(p, q) /\ Len(MainScript(p)) = 8
      /\ Length(p, q) = 3
  BY <1>1, OpInInputs
     DEF MainOK, PairOK, InOwnInputs, InInputs, InTriples, InInputsOf, J, Length
<1>8. /\ at[p] \in 1 .. 8
      /\ Moved(p) <=> IF at[p] < 8 THEN at'[p] = at[p] + 1 /\ call'[p] = call[p]
                      ELSE at'[p] = 1 /\ call'[p] = call[p] + 1
  BY <1>3 DEF Moved, OwnInputsOK
<1>9. call[p] + 1 # call[p]
  BY <1>3
<1>4. CASE at[p] \in {1, 3, 6, 7, 8}
  <2>1. Op(p) \in {"shrink", "randomize", "talk", "combine"}
    BY <1>1, <1>3, <1>4, OpInInputs
  <2>2. /\ Moved(p) \/ Stayed(p)
        /\ inbox' = inbox /\ outbox' = outbox /\ next' = next
    BY <1>1, <2>1, PlainIs
  <2>3. CASE call'[p] = call[p]
    <3>1. at'[p] = at[p] \/ (at'[p] = at[p] + 1 /\ at[p] # 8)
      BY <1>4, <1>8, <1>9, <2>2, <2>3 DEF Stayed
    <3>2. \A n : Waits(p, q, n)' = Waits(p, q, n) /\ Stands(p, q, n)' = Stands(p, q, n)
      BY <1>2, <2>2, <2>3, SameWork, SameStand
    <3>3. J(p)' = J(p)
      BY <1>2, <2>3, SameCall
    <3>4. OwnInputsOK(p, q)'
      BY <1>3, <1>4, <2>2, <3>1, <3>2, <3>3 DEF OwnInputsOK
    <3> QED BY <1>1, <1>2, <2>3, <3>4, PairInOwnInputs
  <2>4. CASE call'[p] # call[p]
    <3>1. at[p] = 8 /\ at'[p] = 1 /\ call'[p] = call[p] + 1
      BY <1>4, <1>8, <2>2, <2>4 DEF Stayed
    <3>2. Waits(p, q, 0)
      BY <1>3, <3>1 DEF OwnInputsOK
    <3>3. Cleared(p, q)
      BY <1>2, <1>3, <2>2, <3>2 DEF Cleared, Waits, Empty, Stands
    <3> QED BY <1>2, <1>3, <3>1, <3>3, NextCall
  <2> QED BY <2>3, <2>4
<1>5. CASE at[p] = 2
  <2>1. Op(p) = "job"
    BY <1>1, <1>3, <1>5, OpInInputs
  <2>2. /\ inbox'[p][q] = Append(inbox[p][q], J(p)) /\ at'[p] = 3 /\ call'[p] = call[p]
        /\ outbox' = outbox
    BY <1>1, <1>3, <1>5, <1>8, <2>1, SignalIs
  <2>3. J(p)' = J(p) /\ Stands(p, q, 0)' = Stands(p, q, 0)
    BY <1>2, <2>2, SameCall, SameStand
  <2>4. Waits(p, q, 0)
    BY <1>3, <1>5 DEF OwnInputsOK
  <2>5. inbox'[p][q] = <<J(p)>> /\ outbox'[p][q] = <<>> /\ Stands(p, q, 0)'
    BY <2>2, <2>3, <2>4, QueueFacts DEF Waits, Empty
  <2>6. OwnInputsOK(p, q)'
    BY <2>2, <2>3, <2>5 DEF OwnInputsOK
  <2> QED BY <1>1, <1>2, <2>2, <2>6, PairInOwnInputs
<1>6. CASE at[p] = 4
  <2>1. Op(p) = "go" /\ next[p] = FirstPeer(p)
    BY <1>1, <1>3, <1>6, OpInInputs DEF MainOK
  <2>2. /\ inbox'[p][q] = Append(inbox[p][q], Go) /\ at'[p] = 5 /\ call'[p] = call[p]
        /\ outbox' = outbox /\ next' = next
    BY <1>1, <1>6, <1>8, <2>1, SignalIs
  <2>3. J(p)' = J(p) /\ Stands(p, q, 0)' = Stands(p, q, 0) /\ next'[p] <= q
    BY <1>2, <2>1, <2>2, SameCall, SameStand, PeersAre
  <2>4. CASE Waits(p, q, 1)
    <3>1. Working(p, q, Go, 1, 4)'
      BY <1>2, <2>1, <2>2, <2>4, Signalled
    <3>2. OwnInputsOK(p, q)'
      BY <2>2, <3>1 DEF OwnInputsOK
    <3> QED BY <1>1, <1>2, <2>2, <3>2, PairInOwnInputs
  <2>5. CASE inbox[p][q] = <<J(p)>> /\ outbox[p][q] = <<>> /\ Stands(p, q, 0)
    <3>1. inbox'[p][q] = <<J(p), Go>> /\ outbox'[p][q] = <<>> /\ Stands(p, q, 0)'
      BY <2>2, <2>3, <2>5, QueueFacts
    <3>2. OwnInputsOK(p, q)'
      BY <2>2, <2>3, <3>1 DEF OwnInputsOK
    <3> QED BY <1>1, <1>2, <2>2, <3>2, PairInOwnInputs
  <2> QED BY <1>3, <1>6, <2>4, <2>5 DEF OwnInputsOK
<1>7. CASE at[p] = 5
  <2>1. Op(p) = "collect" /\ next[p] \in Peers(p)
    BY <1>1, <1>3, <1>7, OpInInputs DEF MainOK
  <2>2. CASE Working(p, q, Go, 1, 4) /\ NextPeer(p, next[p]) < N
    <3>1. at'[p] = 5 /\ call'[p] = call[p]
      BY <1>1, <1>7, <2>1, <2>2, CollectIs, PeersAre DEF Stayed
    <3>2. Working(p, q, Go, 1, 4)'
      BY <1>1, <2>1, <2>2, StillWorking
    <3>3. OwnInputsOK(p, q)'
      BY <3>1, <3>2 DEF OwnInputsOK
    <3> QED BY <1>1, <1>2, <3>1, <3>3, PairInOwnInputs
  <2>3. CASE Working(p, q, Go, 1, 4) /\ NextPeer(p, next[p]) >= N
    <3>1. at'[p] = 6 /\ call'[p] = call[p]
      BY <1>1, <1>7, <1>8, <2>1, <2>3, CollectIs
    <3>2. Waits(p, q, 4)' /\ Length(p, q)' = 3
      BY <1>1, <1>2, <1>3, <2>1, <2>3, <3>1, AllCollected, SameCall
    <3>3. Waits(p, q, 0)'
      BY <3>2 DEF Waits, Stands
    <3>4. OwnInputsOK(p, q)'
      BY <3>1, <3>3 DEF OwnInputsOK
    <3> QED BY <1>1, <1>2, <3>1, <3>4, PairInOwnInputs
  <2>4. CASE /\ next[p] <= q /\ inbox[p][q] = <<J(p), Go>> /\ outbox[p][q] = <<>>
             /\ Stands(p, q, 0)
    <3>1. outbox[p][next[p]] # <<>> /\ \A o \in Peers(p) \ {next[p]} : outbox'[p][o] = outbox[p][o]
      BY <1>1, <2>1, CollectIs
    <3>2. q # next[p] /\ outbox'[p][q] = <<>>
      BY <2>4, <3>1
    <3>3. q > next[p] /\ q < N /\ next[p] \in Nat /\ q \in Nat
      BY <2>1, <2>4, <3>2 DEF Peers, Parties
    <3>4. NextPeer(p, next[p]) <= q /\ NextPeer(p, next[p]) \in Nat
      BY <2>1, <3>3, PeersAre
    <3>5. at'[p] = 5 /\ call'[p] = call[p] /\ next'[p] = NextPeer(p, next[p]) /\ inbox' = inbox
      BY <1>1, <1>7, <2>1, <3>3, <3>4, CollectIs DEF Stayed
    <3>6. J(p)' = J(p) /\ Stands(p, q, 0)' = Stands(p, q, 0)
      BY <1>2, <3>5, SameCall, SameStand
    <3>7. OwnInputsOK(p, q)'
      BY <2>4, <3>2, <3>4, <3>5, <3>6 DEF OwnInputsOK
    <3> QED BY <1>1, <1>2, <3>5, <3>7, PairInOwnInputs
  <2> QED BY <1>3, <1>7, <2>1, <2>2, <2>3, <2>4, PeersAre DEF OwnInputsOK
<1> QED BY <1>3, <1>4, <1>5, <1>6, <1>7 DEF OwnInputsOK

(* A step of main in generateInputs, for another party's.                   *)
LEMMA InputsOfMain ==
  ASSUME IInv, NEW p \in Parties, NEW q \in Peers(p), MainStep(p), InInputsOf(p)
  PROVE  PairOK(p, q)'
<1> USE SizeAssumption
<1>1. ProgramOK /\ ShapeOK /\ MainOK(p) /\ PairOK(p, q)
  BY DEF IInv
<1>2. program' = program /\ job' = job /\ step' = step
  BY <1>1, MainLeaves
<1>3. /\ call[p] \in 0 .. Len(program) + 1 /\ call[p] \in 0 .. Len(program)
      /\ J(p) = program[call[p]] /\ InputsOfOK(p, q) /\ Len(MainScript(p)) = 6
      /\ Length(p, q) \in Nat \ {0}
  BY <1>1, OpInInputs, LengthIs DEF MainOK, PairOK, InInputsOf, InInputs, J
<1>4. /\ at[p] \in 1 .. 6
      /\ Moved(p) <=> IF at[p] < 6 THEN at'[p] = at[p] + 1 /\ call'[p] = call[p]
                      ELSE at'[p] = 1 /\ call'[p] = call[p] + 1
  BY <1>3 DEF Moved, InputsOfOK
<1>5. call[p] + 1 # call[p]
  BY <1>3
<1>6. CASE at[p] \in {1, 4, 5, 6}
  <2>1. Op(p) \in {"shrink", "talk", "combine"}
    BY <1>1, <1>3, <1>6, OpInInputs
  <2>2. /\ Moved(p) \/ Stayed(p)
        /\ inbox' = inbox /\ outbox' = outbox /\ next' = next
    BY <1>1, <2>1, PlainIs
  <2>3. Waits(p, q, 0)
    BY <1>3, <1>6 DEF InputsOfOK
  <2>4. CASE call'[p] = call[p]
    <3>1. at'[p] = at[p] \/ (at'[p] = at[p] + 1 /\ at[p] # 6)
      BY <1>4, <1>5, <1>6, <2>2, <2>4 DEF Stayed
    <3>2. \A n : Waits(p, q, n)' = Waits(p, q, n)
      BY <1>2, <2>2, <2>4, SameWork
    <3>3. InputsOfOK(p, q)'
      BY <1>6, <2>3, <3>1, <3>2 DEF InputsOfOK
    <3> QED BY <1>1, <1>2, <2>4, <3>3, PairInInputsOf
  <2>5. CASE call'[p] # call[p]
    <3>1. at'[p] = 1 /\ call'[p] = call[p] + 1
      BY <1>4, <1>6, <2>2, <2>5 DEF Stayed
    <3>2. Cleared(p, q)
      BY <1>2, <1>3, <2>2, <2>3 DEF Cleared, Waits, Empty, Stands
    <3> QED BY <1>2, <1>3, <3>1, <3>2, NextCall
  <2> QED BY <2>4, <2>5
<1>7. CASE at[p] = 2
  <2>1. Op(p) = "job" /\ next[p] = FirstPeer(p)
    BY <1>1, <1>3, <1>7, OpInInputs DEF MainOK
  <2>2. /\ inbox'[p][q] = Append(inbox[p][q], J(p)) /\ at'[p] = 3 /\ call'[p] = call[p]
        /\ outbox' = outbox /\ next' = next
    BY <1>1, <1>3, <1>4, <1>7, <2>1, SignalIs
  <2>3. J(p)' = J(p) /\ Length(p, q)' = Length(p, q)
    BY <1>2, <2>2, SameCall
  <2>4. Waits(p, q, 0)
    BY <1>3, <1>7 DEF InputsOfOK
  <2>5. Working(p, q, J(p), 0, Length(p, q) + 1)'
    BY <1>2, <2>1, <2>2, <2>3, <2>4, Signalled
  <2>6. InputsOfOK(p, q)'
    BY <2>2, <2>3, <2>5 DEF InputsOfOK
  <2> QED BY <1>1, <1>2, <2>2, <2>6, PairInInputsOf
<1>8. CASE at[p] = 3
  <2>1. /\ Op(p) = "collect" /\ next[p] \in Peers(p)
        /\ Working(p, q, J(p), 0, Length(p, q) + 1)
    BY <1>1, <1>3, <1>8, OpInInputs DEF MainOK, InputsOfOK
  <2>2. CASE NextPeer(p, next[p]) < N
    <3>1. at'[p] = 3 /\ call'[p] = call[p]
      BY <1>1, <1>8, <2>1, <2>2, CollectIs, PeersAre DEF Stayed
    <3>2. J(p)' = J(p) /\ Length(p, q)' = Length(p, q)
      BY <1>2, <3>1, SameCall
    <3>3. Working(p, q, J(p), 0, Length(p, q) + 1)'
      BY <1>1, <2>1, <2>2, <3>2, StillWorking
    <3>4. InputsOfOK(p, q)'
      BY <3>1, <3>2, <3>3 DEF InputsOfOK
    <3> QED BY <1>1, <1>2, <3>1, <3>4, PairInInputsOf
  <2>3. CASE NextPeer(p, next[p]) >= N
    <3>1. at'[p] = 4 /\ call'[p] = call[p]
      BY <1>1, <1>4, <1>8, <2>1, <2>3, CollectIs
    <3>2. Length(p, q)' = Length(p, q)
      BY <1>2, <3>1, SameCall
    <3>3. Waits(p, q, Length(p, q) + 1)'
      BY <1>1, <2>1, <2>3, <3>1, <3>2, AllCollected
    <3>4. Waits(p, q, 0)'
      BY <1>3, <3>2, <3>3 DEF Waits, Stands
    <3>5. InputsOfOK(p, q)'
      BY <3>1, <3>4 DEF InputsOfOK
    <3> QED BY <1>1, <1>2, <3>1, <3>5, PairInInputsOf
  <2> QED BY <2>1, <2>2, <2>3, PeersAre
<1> QED BY <1>4, <1>6, <1>7, <1>8

(* A step of main in the constructor.                                       *)
LEMMA StartMain ==
  ASSUME IInv, NEW p \in Parties, NEW q \in Peers(p), MainStep(p), call[p] = 0
  PROVE  PairOK(p, q)'
<1> USE SizeAssumption
<1>1. ProgramOK /\ ShapeOK /\ MainOK(p) /\ PairOK(p, q) /\ Len(program) \in Nat
  BY DEF IInv, ProgramOK
<1>2. program' = program /\ job' = job /\ step' = step
  BY <1>1, MainLeaves
<1>3. /\ call[p] \in 0 .. Len(program) + 1 /\ call[p] \in 0 .. Len(program)
      /\ at[p] = 1 /\ Working(p, q, J(p), 0, 4)
  BY <1>1 DEF PairOK
<1>4. Op(p) = "collect" /\ Len(MainScript(p)) = 1 /\ next[p] \in Peers(p)
  BY <1>1, <1>3, OpElsewhere DEF MainOK
<1>5. Length(p, q) = 3
  BY JobIs, <1>1 DEF Length, InTriples, InOwnInputs, InInputsOf, InInputs
<1>6. CASE NextPeer(p, next[p]) < N
  <2>1. at'[p] = 1 /\ call'[p] = 0
    BY <1>1, <1>3, <1>4, <1>6, CollectIs, PeersAre DEF Stayed
  <2>2. J(p)' = J(p) /\ Working(p, q, J(p), 0, 4)'
    BY <1>1, <1>2, <1>3, <1>4, <1>6, <2>1, SameCall, StillWorking
  <2>3. ~ InTriples(p)' /\ ~ InOwnInputs(p)' /\ ~ InInputsOf(p)' /\ ~ AtTheEnd(p)'
    BY <1>1, <1>2, <2>1 DEF InTriples, InOwnInputs, InInputsOf, InInputs, AtTheEnd
  <2> QED BY <2>1, <2>2, <2>3 DEF PairOK
<1>7. CASE NextPeer(p, next[p]) >= N
  <2>1. at'[p] = 1 /\ call'[p] = call[p] + 1
    <3>1. Moved(p)
      BY <1>1, <1>4, <1>7, CollectIs
    <3> QED BY <1>3, <1>4, <3>1 DEF Moved
  <2>2. Empty(p, q)' /\ Stands(p, q, 4)
    BY <1>1, <1>3, <1>4, <1>7, Collected
  <2>3. Cleared(p, q)
    BY <1>2, <1>5, <2>2 DEF Cleared, Stands
  <2> QED BY <1>2, <1>3, <2>1, <2>3, NextCall
<1> QED BY <1>4, <1>6, <1>7, PeersAre

(* A step of main in the destructor.                                        *)
LEMMA EndMain ==
  ASSUME IInv, NEW p \in Parties, NEW q \in Peers(p), MainStep(p), AtTheEnd(p)
  PROVE  PairOK(p, q)' /\ call'[p] = call[p] /\ at'[p] \in {1, 2}
<1>1. ProgramOK /\ ShapeOK /\ MainOK(p) /\ PairOK(p, q) /\ Len(program) \in Nat
  BY DEF IInv, ProgramOK
<1>2. program' = program /\ job' = job /\ step' = step
  BY <1>1, MainLeaves
<1>3. /\ call[p] \in 0 .. Len(program) + 1 /\ Len(MainScript(p)) = 2
      /\ at[p] \in {1, 2} /\ Empty(p, q) /\ job[p][q] \in {Idle, Over}
  BY <1>1, OpElsewhere DEF PairOK, MainOK
<1>4. at[p] = 1 /\ Op(p) = "destroy" /\ next[p] \in Peers(p)
  BY <1>1, <1>3, OpElsewhere, EndedIs DEF MainOK
<1>5. Moved(p) \/ Stayed(p)
  BY <1>1, <1>4, DestroyIs
<1>6. call'[p] = call[p] /\ at'[p] \in {1, 2}
  BY <1>3, <1>4, <1>5 DEF Moved, Stayed
<1>7. inbox' = inbox /\ outbox' = outbox
  BY <1>1, <1>4, DestroyIs
<1>8. Empty(p, q)' /\ job'[p][q] \in {Idle, Over}
  BY <1>2, <1>3, <1>7 DEF Empty
<1>9. call'[p] # 0 /\ ~ InTriples(p)' /\ ~ InOwnInputs(p)' /\ ~ InInputsOf(p)'
  BY <1>1, <1>2, <1>6 DEF AtTheEnd, InTriples, InOwnInputs, InInputsOf, InInputs
<1> QED BY <1>6, <1>8, <1>9 DEF PairOK

(* Main is at an operation of its script; the destructor's are nowhere      *)
(* else, and lock is in one place.                                          *)
LEMMA OpKinds ==
  ASSUME IInv, NEW p \in Parties
  PROVE  /\ at[p] \in 1 .. Len(MainScript(p)) /\ Len(MainScript(p)) \in Nat
         /\ call[p] \in 0 .. Len(program) => Op(p) \notin {"destroy", "ended"}
         /\ AtTheEnd(p) => Op(p) \in {"destroy", "ended"}
         /\ Op(p) = "lock" => InTriples(p) /\ at[p] = 4
<1> USE SizeAssumption
<1> DEFINE q == FirstPeer(p)
<1>1. q \in Peers(p)
  BY PeersAre
<1> HIDE DEF q
<1>2. /\ ProgramOK /\ MainOK(p) /\ PairOK(p, q) /\ call[p] \in 0 .. Len(program) + 1
      /\ Len(program) \in Nat
  BY <1>1 DEF IInv, MainOK, ProgramOK
<1>3. CASE call[p] = 0
  BY <1>2, <1>3, OpElsewhere DEF PairOK, AtTheEnd
<1>4. CASE InTriples(p)
  <2>1. at[p] \in 1 .. 5 + 10 * Loops /\ Len(MainScript(p)) = 5 + 10 * Loops /\ ~ AtTheEnd(p)
    BY <1>2, <1>4, OpInTriples DEF PairOK, TriplesOK, AtTheEnd, InTriples
  <2>2. CASE at[p] \in 1 .. 4 \/ at[p] = 5 + 10 * Loops
    <3>1. /\ Op(p) \in {"job", "resize", "collect", "lock", "unlock"}
          /\ Op(p) = "lock" => at[p] = 4
      BY <1>2, <1>4, <2>2, OpInTriples
    <3> QED BY <1>4, <2>1, <3>1
  <2>3. ASSUME NEW r \in 0 .. Loops - 1, NEW k \in 0 .. 9, at[p] = 5 + 10 * r + k
        PROVE  Op(p) \in {"go", "collect", "randomize", "combine", "talk", "amplify"}
    BY <1>2, <1>4, <2>3, OpInTriples
  <2>4. \/ at[p] \in 1 .. 4 \/ at[p] = 5 + 10 * Loops
        \/ \E r \in 0 .. Loops - 1, k \in 0 .. 9 : at[p] = 5 + 10 * r + k
    BY <2>1, TriplesPlace
  <2>5. CASE Op(p) \in {"go", "collect", "randomize", "combine", "talk", "amplify"}
    BY <2>1, <2>5
  <2> QED BY <2>2, <2>3, <2>4, <2>5
<1>5. CASE InOwnInputs(p)
  <2>1. at[p] \in 1 .. 8 /\ Len(MainScript(p)) = 8 /\ ~ AtTheEnd(p)
    BY <1>2, <1>5, OpInInputs DEF PairOK, OwnInputsOK, InOwnInputs, InInputs, AtTheEnd
  <2>2. Op(p) \in {"shrink", "job", "randomize", "go", "collect", "talk", "combine"}
    BY <1>2, <1>5, <2>1, OpInInputs
  <2> QED BY <2>1, <2>2
<1>6. CASE InInputsOf(p)
  <2>1. at[p] \in 1 .. 6 /\ Len(MainScript(p)) = 6 /\ ~ AtTheEnd(p)
    BY <1>2, <1>6, OpInInputs DEF PairOK, InputsOfOK, InInputsOf, InInputs, AtTheEnd
  <2>2. Op(p) \in {"shrink", "job", "collect", "talk", "combine"}
    BY <1>2, <1>6, <2>1, OpInInputs
  <2> QED BY <2>1, <2>2
<1>7. CASE AtTheEnd(p)
  <2>1. at[p] \in 1 .. 2 /\ Len(MainScript(p)) = 2 /\ call[p] \notin 0 .. Len(program)
    BY <1>2, <1>7, OpElsewhere DEF PairOK, AtTheEnd
  <2>2. Op(p) \in {"destroy", "ended"}
    BY <1>2, <1>7, <2>1, OpElsewhere
  <2> QED BY <2>1, <2>2
<1> QED BY <1>2, <1>3, <1>4, <1>5, <1>6, <1>7, MainScriptIs

(* Every step of main goes on or stays.                                     *)
LEMMA MovedOrStayed ==
  ASSUME IInv, NEW p \in Parties, MainStep(p)
  PROVE  Moved(p) \/ Stayed(p)
<1>1. ShapeOK /\ MainOK(p)
  BY DEF IInv
<1>2. Op(p) # "ended" /\ next[p] \in Peers(p)
  BY <1>1, EndedIs DEF MainOK
<1> QED BY <1>1, <1>2, SignalIs, CollectIs, PlainIs, DestroyIs

(* No step of main breaks its own part of the invariant.                    *)
LEMMA MainKeepsMain ==
  ASSUME IInv, NEW p \in Parties, MainStep(p)
  PROVE  MainOK(p)'
<1> USE SizeAssumption
<1>1. ProgramOK /\ ShapeOK /\ MainOK(p) /\ Len(program) \in Nat /\ program' = program
  BY MainLeaves DEF IInv, ProgramOK
<1>2. /\ call[p] \in 0 .. Len(program) + 1 /\ Op(p) # "ended" /\ next[p] \in Peers(p)
      /\ FirstPeer(p) \in Peers(p)
  BY <1>1, EndedIs, PeersAre DEF MainOK
<1>3. Moved(p) \/ Stayed(p)
  BY MovedOrStayed
<1>4. /\ at[p] \in 1 .. Len(MainScript(p)) /\ Len(MainScript(p)) \in Nat
      /\ Op(p) = "destroy" => AtTheEnd(p)
      /\ AtTheEnd(p) => Op(p) = "destroy"
      /\ Op(p) = "lock" => InTriples(p) /\ at[p] = 4
  BY <1>1, <1>2, OpKinds DEF AtTheEnd
<1>5. Stayed(p) => Op(p)' = Op(p)
  BY <1>1 DEF Stayed, Op, MainScript, TriplesScript, InputsScript
<1>6. AtTheEnd(p) => call'[p] = call[p]
  BY <1>2, EndMain
<1>7. call'[p] \in 0 .. Len(program) + 1
  BY <1>2, <1>3, <1>6 DEF Moved, Stayed, AtTheEnd
<1>8. /\ Op(p)' # "ended" => next'[p] \in Peers(p)
      /\ Op(p)' \notin {"collect", "destroy", "ended"} => next'[p] = FirstPeer(p)
  <2>1. CASE Op(p) = "collect"
    <3>1. CASE NextPeer(p, next[p]) >= N
      BY <1>1, <1>2, <2>1, <3>1, CollectIs
    <3>2. CASE NextPeer(p, next[p]) < N
      <4>1. next'[p] = NextPeer(p, next[p]) /\ Stayed(p) /\ NextPeer(p, next[p]) \in Peers(p)
        BY <1>1, <1>2, <2>1, <3>2, CollectIs, PeersAre
      <4> QED BY <1>5, <2>1, <4>1
    <3> QED BY <1>2, <3>1, <3>2, PeersAre
  <2>2. CASE Op(p) = "destroy"
    <3>1. CASE Stayed(p) /\ next'[p] \in Peers(p)
      BY <1>5, <2>2, <3>1
    <3>2. CASE Moved(p)
      <4>1. MainScript(p) = <<"destroy", "ended">> /\ call'[p] = call[p]
        BY <1>1, <1>2, <1>4, <1>6, <2>2, MainScriptIs
      <4>2. MainScript(p)' = MainScript(p)
        BY <1>1, <4>1 DEF MainScript, TriplesScript, InputsScript
      <4>3. at'[p] = 2
        BY <1>2, <1>4, <3>2, <4>1 DEF Moved
      <4> QED BY <4>1, <4>2, <4>3 DEF Op
    <3> QED BY <1>1, <1>2, <2>2, <3>1, <3>2, DestroyIs
  <2>3. CASE Op(p) \notin {"collect", "destroy"}
    <3>1. next' = next /\ next[p] = FirstPeer(p)
      BY <1>1, <1>2, <2>3, SignalIs, PlainIs DEF MainOK
    <3> QED BY <1>2, <3>1
  <2> QED BY <2>1, <2>2, <2>3
<1>9. call'[p] \in 0 .. Len(program) => \A q \in Peers(p) : running'[p][q]
  <2>1. SUFFICES ASSUME call'[p] \in 0 .. Len(program) PROVE running' = running /\ call[p] \in 0 .. Len(program)
    BY <1>1 DEF MainOK
  <2>2. ~ AtTheEnd(p) /\ call[p] \in 0 .. Len(program)
    BY <1>1, <1>2, <1>6, <2>1 DEF AtTheEnd
  <2>3. Op(p) # "destroy"
    BY <1>4, <2>2
  <2> QED BY <1>1, <1>2, <2>2, <2>3, SignalIs, CollectIs, PlainIs
<1>10. locked'[p] => InTriples(p)' /\ at'[p] \in 5 .. 5 + 10 * Loops
  <2>1. SUFFICES ASSUME locked'[p] PROVE InTriples(p)' /\ at'[p] \in 5 .. 5 + 10 * Loops
    OBVIOUS
  <2>2. Op(p) = "lock" \/ (locked[p] /\ Op(p) # "unlock")
    BY <1>1, <1>2, <2>1, SignalIs, CollectIs, PlainIs, DestroyIs
  <2>3. InTriples(p) /\ at[p] \in 4 .. 5 + 10 * Loops /\ (at[p] = 4 => Op(p) = "lock") /\ Op(p) # "unlock"
    BY <1>1, <1>4, <2>2 DEF MainOK
  <2>4. at[p] # 5 + 10 * Loops /\ Len(MainScript(p)) = 5 + 10 * Loops
    BY <1>1, <1>2, <2>3, OpInTriples
  <2>5. Op(p) = "lock" => Moved(p)
    BY <1>1, PlainIs
  <2>6. call'[p] = call[p] /\ at'[p] \in 5 .. 5 + 10 * Loops
    BY <1>3, <2>3, <2>4, <2>5 DEF Moved, Stayed
  <2> QED BY <1>1, <2>3, <2>6, SameCall
<1>11. FirstPeer(p)' = FirstPeer(p) /\ Peers(p)' = Peers(p)
  OBVIOUS
<1> QED BY <1>1, <1>7, <1>8, <1>9, <1>10, <1>11 DEF MainOK

(* No step of main breaks the invariant.                                    *)
LEMMA MainKeeps ==
  ASSUME IInv, NEW p \in Parties, MainStep(p)
  PROVE  IInv'
<1>1. /\ program' = program /\ job' = job /\ step' = step /\ ShapeOK'
      /\ \A o \in Parties \ {p} :
           /\ call'[o] = call[o] /\ at'[o] = at[o] /\ next'[o] = next[o]
           /\ locked'[o] = locked[o] /\ running'[o] = running[o]
           /\ inbox'[o] = inbox[o] /\ outbox'[o] = outbox[o]
  BY MainLeaves DEF IInv
<1>2. ProgramOK'
  BY <1>1 DEF IInv, ProgramOK
<1>3. \A o \in Parties \ {p} : MainOK(o)' /\ \A q \in Peers(o) : PairOK(o, q)'
  BY <1>1, MainSame, PairSame DEF IInv
<1>4. MainOK(p)'
  BY MainKeepsMain
<1>5. ASSUME NEW q \in Peers(p) PROVE PairOK(p, q)'
  <2>1. call[p] = 0 \/ InTriples(p) \/ InOwnInputs(p) \/ InInputsOf(p) \/ AtTheEnd(p)
    BY MainScriptIs DEF IInv, MainOK
  <2> QED BY <2>1, StartMain, TriplesMain, OwnInputsMain, InputsOfMain, EndMain
<1> QED BY <1>1, <1>2, <1>3, <1>4, <1>5 DEF IInv

(* The constructor starts with every multiplier at the key exchange.        *)
LEMMA InitInv == Init => IInv
<1> SUFFICES ASSUME Init PROVE IInv
  OBVIOUS
<1> USE SizeAssumption
<1>1. ProgramOK
  BY ProgramAssumption DEF Init, ProgramOK
<1>2. ShapeOK
  BY DEF Init, ShapeOK
<1>3. Len(program) \in Nat
  BY <1>1 DEF ProgramOK
<1>4. ASSUME NEW p \in Parties PROVE MainOK(p)
  <2>1. call[p] = 0 /\ at[p] = 1 /\ next[p] = FirstPeer(p) /\ ~ locked[p]
        /\ \A q \in Peers(p) : running[p][q]
    BY DEF Init
  <2>2. Op(p) = "collect" /\ FirstPeer(p) \in Peers(p)
    BY <1>1, <1>3, <2>1, OpElsewhere, PeersAre
  <2> QED BY <1>3, <2>1, <2>2 DEF MainOK
<1>5. ASSUME NEW p \in Parties, NEW q \in Peers(p) PROVE PairOK(p, q)
  <2>1. /\ call[p] = 0 /\ at[p] = 1 /\ next[p] = FirstPeer(p) /\ job[p][q] = Start
        /\ step[p][q] = 1 /\ inbox[p][q] = <<>> /\ outbox[p][q] = <<>>
    BY DEF Init
  <2>2. J(p) = Start /\ next[p] <= q
    BY <2>1, PeersAre DEF J
  <2>3. Working(p, q, J(p), 0, 4)
    BY <2>1, <2>2 DEF Working, Works, Empty
  <2> QED BY <1>3, <2>1, <2>3 DEF PairOK, InTriples, InOwnInputs, InInputsOf, InInputs, AtTheEnd
<1> QED BY <1>1, <1>2, <1>4, <1>5 DEF IInv

(* No step breaks it.                                                       *)
LEMMA NextKeeps == IInv /\ [Next]_vars => IInv'
<1> SUFFICES ASSUME IInv, [Next]_vars PROVE IInv'
  OBVIOUS
<1>1. CASE UNCHANGED vars
  <2>1. ProgramOK' /\ ShapeOK'
    BY <1>1 DEF IInv, ProgramOK, ShapeOK, vars, mains, threads
  <2>2. \A p \in Parties : MainOK(p)' /\ \A q \in Peers(p) : PairOK(p, q)'
    BY <1>1, MainSame, PairSame DEF IInv, vars, mains, threads
  <2> QED BY <2>1, <2>2 DEF IInv
<1>2. CASE \E p \in Parties : MainStep(p)
  BY <1>2, MainKeeps
<1>3. CASE \E p \in Parties : \E q \in Peers(p) : MultiplierStep(p, q)
  BY <1>3, MultiplierKeeps
<1> QED BY <1>1, <1>2, <1>3 DEF Next, AllOver

(* Where main is in its script says, at every step of any thread, what is   *)
(* in the queues of each of its multipliers and where that one stands.      *)
THEOREM Invariance == Spec => []IInv
BY InitInv, NextKeeps, PTL DEF Spec

(* A multiplier that may use its connection has been asked to and has not   *)
(* answered, and main is waiting for the answer.                            *)
LEMMA Exchanging ==
  ASSUME IInv, NEW p \in Parties, NEW q \in Peers(p),
         Does(p, q, "send") \/ Does(p, q, "receive")
  PROVE  Op(p) = "collect" /\ next[p] <= q
<1> USE SizeAssumption
<1>1. /\ ProgramOK /\ MainOK(p) /\ PairOK(p, q) /\ call[p] \in 0 .. Len(program) + 1
      /\ Len(program) \in Nat
  BY DEF IInv, MainOK, ProgramOK
<1>2. job[p][q] \notin {Idle, Over}
  BY IdleDoes
<1>3. call[p] \in 0 .. Len(program) /\ ~ AtTheEnd(p)
  BY <1>1, <1>2 DEF PairOK, AtTheEnd
<1>4. ASSUME NEW s, s \in 1 .. Length(p, q) => s \in Pops(p, q) \cup Answers(p, q)
      PROVE  ~ Stands(p, q, s)
  BY <1>1, <1>2, <1>3, <1>4, ScriptIs DEF Stands, Does
<1>5. ASSUME NEW x, NEW s, NEW t, Turn(p, q, x, s, t), Working(p, q, x, s, t)
      PROVE  next[p] <= q
  BY <1>4, <1>5 DEF Working, Waits, Turn
<1>6. CASE call[p] = 0
  <2>1. Turn(p, q, J(p), 0, 4) /\ Working(p, q, J(p), 0, 4) /\ Op(p) = "collect"
    BY <1>1, <1>6, TurnsAre, OpElsewhere DEF PairOK
  <2> QED BY <2>1, <1>5
<1>7. CASE InTriples(p)
  <2>1. TriplesOK(p, q) /\ Turn(p, q, J(p), 0, 2)
    BY <1>1, <1>7, TurnsAre DEF PairOK
  <2>2. ~ Stands(p, q, 0) /\ ~ Stands(p, q, 2)
    BY <2>1, <1>4 DEF Turn
  <2>3. at[p] \notin {1, 4}
    BY <2>1, <2>2 DEF TriplesOK, Waits
  <2>4. at[p] # 5 + 10 * Loops
    <3>1. 2 + 14 * Loops \notin 1 .. Length(p, q)
      BY <1>7 DEF Length, InTriples, InOwnInputs, InInputsOf, InInputs
    <3> QED BY <1>4, <2>1, <3>1 DEF TriplesOK, Waits
  <2>5. at[p] # 2
    <3>1. SUFFICES ASSUME at[p] = 2 PROVE FALSE
      OBVIOUS
    <3>2. Op(p) = "resize" /\ next[p] = FirstPeer(p)
      BY <1>1, <1>7, <3>1, OpInTriples DEF MainOK
    <3>3. Works(p, q, J(p), 0, 2)
      BY <2>1, <3>1, <3>2, PeersAre DEF TriplesOK, Working
    <3>4. job[p][q] = J(p) /\ step[p][q] = 1
      BY <2>2, <3>3 DEF Works
    <3>5. 1 \in Answers(p, q) /\ 1 \in 1 .. Length(p, q)
      <4>1. Length(p, q) = 1 + 14 * Loops
        BY <1>7 DEF Length, InTriples, InOwnInputs, InInputsOf, InInputs
      <4> QED BY <4>1, <1>7 DEF Answers
    <3> QED BY <1>1, <1>3, <3>4, <3>5, ScriptIs DEF Does
  <2>6. CASE at[p] = 3
    BY <1>1, <1>5, <1>7, <2>1, <2>6, OpInTriples DEF TriplesOK
  <2>7. ASSUME NEW r \in 0 .. Loops - 1, NEW k \in 0 .. 9, at[p] = 5 + 10 * r + k
        PROVE  Op(p) = "collect" /\ next[p] <= q
    <3>1. /\ Turn(p, q, Go, 2 + 14 * r, 8 + 14 * r) /\ Turn(p, q, Go, 8 + 14 * r, 16 + 14 * r)
          /\ RoundOK(p, q, r, k)
      BY <1>7, <2>1, <2>7, TurnsAre DEF TriplesOK
    <3>2. ~ Stands(p, q, 2 + 14 * r)
      BY <1>4, <3>1 DEF Turn
    <3>3. ~ Stands(p, q, 8 + 14 * r)
      BY <1>4, <3>1 DEF Turn
    <3>4. ~ Stands(p, q, 16 + 14 * r)
      BY <1>4, <3>1 DEF Turn
    <3>5. k \in {2, 7}
      BY <3>1, <3>2, <3>3, <3>4 DEF RoundOK, Waits
    <3>6. next[p] <= q
      BY <1>5, <3>1, <3>5 DEF RoundOK
    <3> QED BY <1>1, <1>7, <2>7, <3>5, <3>6, OpInTriples
  <2>8. \/ at[p] \in 1 .. 4 \/ at[p] = 5 + 10 * Loops
        \/ \E r \in 0 .. Loops - 1, k \in 0 .. 9 : at[p] = 5 + 10 * r + k
    BY <2>1, TriplesPlace DEF TriplesOK
  <2> QED BY <2>3, <2>4, <2>5, <2>6, <2>7, <2>8
<1>8. CASE InOwnInputs(p)
  <2>1. OwnInputsOK(p, q) /\ Turn(p, q, Go, 1, 4)
    BY <1>1, <1>8, TurnsAre DEF PairOK
  <2>2. ~ Stands(p, q, 0) /\ ~ Stands(p, q, 1)
    BY <2>1, <1>4 DEF Turn
  <2>3. at[p] = 5 /\ Working(p, q, Go, 1, 4)
    BY <2>1, <2>2 DEF OwnInputsOK, Waits
  <2> QED BY <1>1, <1>5, <1>8, <2>1, <2>3, OpInInputs
<1>9. CASE InInputsOf(p)
  <2>1. InputsOfOK(p, q) /\ Turn(p, q, J(p), 0, Length(p, q) + 1)
    BY <1>1, <1>9, TurnsAre DEF PairOK
  <2>2. ~ Stands(p, q, 0)
    BY <1>4
  <2>3. at[p] = 3 /\ Working(p, q, J(p), 0, Length(p, q) + 1)
    BY <2>1, <2>2 DEF InputsOfOK, Waits
  <2> QED BY <1>1, <1>5, <1>9, <2>1, <2>3, OpInInputs
<1> QED BY <1>1, <1>3, <1>6, <1>7, <1>8, <1>9, MainScriptIs

(* plainTripleRound and amplify of NPartyTripleGenerator never write a      *)
(* vector of valueBits that a thread of OTMultiplier may still read.        *)
THEOREM AlwaysHeldStill == Spec => []BitsHeldStill
<1>1. IInv => BitsHeldStill
  BY Exchanging DEF BitsHeldStill, Reading
<1> QED BY <1>1, Invariance, PTL

(* A connection of globalPlayer is used by the main thread or by the        *)
(* multiplier for that peer (OTMultiplier), never by both at once.          *)
THEOREM AlwaysOneUser == Spec => []OneUser
<1>1. IInv => OneUser
  <2> SUFFICES ASSUME IInv, NEW p \in Parties, NEW q \in Peers(p),
                      Does(p, q, "send") \/ Does(p, q, "receive")
               PROVE  Op(p) # "talk"
    BY DEF OneUser
  <2> QED BY Exchanging
<1> QED BY <1>1, Invariance, PTL

(* generateTriples and generateInputs end with all queues of the            *)
(* multipliers empty, all of them back in the loop of multiply, and, with   *)
(* the unlock of their caller, the mutex free.                              *)
THEOREM AlwaysLeftClean == Spec => []LeftClean
<1>1. IInv => LeftClean
  <2> SUFFICES ASSUME IInv, NEW p \in Parties, at[p] = 1, call[p] > 0
               PROVE  /\ ~ locked[p]
                      /\ \A q \in Peers(p) : /\ inbox[p][q] = <<>> /\ outbox[p][q] = <<>>
                                             /\ job[p][q] \in {Idle, Over}
    BY DEF LeftClean
  <2>1. MainOK(p) /\ ProgramOK /\ call[p] \in 0 .. Len(program) + 1
    BY DEF IInv, MainOK
  <2>2. ~ locked[p]
    BY <2>1 DEF MainOK
  <2>3. ASSUME NEW q \in Peers(p)
        PROVE  inbox[p][q] = <<>> /\ outbox[p][q] = <<>> /\ job[p][q] \in {Idle, Over}
    <3>1. PairOK(p, q)
      BY DEF IInv
    <3>2. call[p] # 0
      BY <2>1
    <3>3. Waits(p, q, 0) \/ (Empty(p, q) /\ job[p][q] \in {Idle, Over})
      BY <2>1, <3>1, <3>2, MainScriptIs DEF PairOK, TriplesOK, OwnInputsOK, InputsOfOK
    <3> QED BY <3>3 DEF Waits, Empty, Stands
  <2> QED BY <2>2, <2>3
<1> QED BY <1>1, Invariance, PTL

-----------------------------------------------------------------------------
(***************************************************************************)
(* The messages of a party's multipliers and of its main thread, which     *)
(* have no tags and share the connections of the Player, reach the thread  *)
(* and the step they were sent for, and what a party adds up belongs to    *)
(* one set of bits.                                                        *)
(*                                                                         *)
(* What a party says in a program is one stream, the same to every peer:   *)
(* its main and the multiplier for the peer take turns as the program has  *)
(* it.  A connection holds the part of the stream between what has been    *)
(* sent and what has been read, and where the two threads at either end    *)
(* are says how much that is.                                              *)
(***************************************************************************)
(* A part of a stream, as a queue.                                          *)
Slice(f, a, b) == [j \in 1 .. b - a |-> f[a + j]]

(* What an append, a look and a removal make of it.                         *)
LEMMA SliceIs ==
  ASSUME NEW f, NEW a \in Nat, NEW b \in Nat, a <= b
  PROVE  /\ Append(Slice(f, a, b), f[b + 1]) = Slice(f, a, b + 1)
         /\ Slice(f, a, b) # <<>> => /\ a + 1 <= b /\ Head(Slice(f, a, b)) = f[a + 1]
                                     /\ Tail(Slice(f, a, b)) = Slice(f, a + 1, b)
         /\ Slice(f, a, a) = <<>>
<1> DEFINE V == {f[n] : n \in Nat}
           s == Slice(f, a, b)
<1>1. s \in Seq(V) /\ Len(s) = b - a /\ \A j \in 1 .. b - a : s[j] = f[a + j]
  <2>1. b - a \in Nat /\ \A j \in 1 .. b - a : f[a + j] \in V
    OBVIOUS
  <2> QED BY <2>1 DEF Slice
<1>2. Append(s, f[b + 1]) = Slice(f, a, b + 1)
  <2> DEFINE u == Append(s, f[b + 1])
  <2>1. u \in Seq(V) /\ Len(u) = b + 1 - a
    BY <1>1
  <2>2. \A j \in 1 .. b + 1 - a : u[j] = f[a + j]
    BY <1>1
  <2> HIDE DEF u
  <2>3. u = [j \in 1 .. b + 1 - a |-> f[a + j]]
    BY <2>1, <2>2
  <2> QED BY <2>3 DEF Slice, u
<1>3. ASSUME s # <<>>
      PROVE  a + 1 <= b /\ Head(s) = f[a + 1] /\ Tail(s) = Slice(f, a + 1, b)
  <2>1. Len(s) # 0
    BY <1>1, <1>3
  <2>2. a + 1 <= b /\ Head(s) = f[a + 1]
    BY <1>1, <2>1
  <2> DEFINE u == Tail(s)
  <2>3. u \in Seq(V) /\ Len(u) = b - (a + 1)
    BY <1>1, <2>1
  <2>4. \A j \in 1 .. b - (a + 1) : u[j] = f[(a + 1) + j]
    BY <1>1, <2>1
  <2> HIDE DEF u
  <2>5. u = [j \in 1 .. b - (a + 1) |-> f[(a + 1) + j]]
    BY <2>3, <2>4
  <2> QED BY <2>2, <2>5 DEF Slice, u
<1>4. Slice(f, a, a) = <<>>
  BY DEF Slice
<1> QED BY <1>2, <1>3, <1>4

(* Induction from 0 up to n.                                                *)
LEMMA UpTo ==
  ASSUME NEW n \in Nat, NEW S, 0 \in S, \A i \in 0 .. n : i # n /\ i \in S => i + 1 \in S
  PROVE  0 .. n \subseteq S
<1> DEFINE D == (0 .. n) \ S
<1> SUFFICES ASSUME D # {} PROVE FALSE
  OBVIOUS
<1>1. D \in SUBSET Nat
  OBVIOUS
<1> HIDE DEF D
<1>2. PICK m \in D : \A i \in D : ~ (<<i, m>> \in OpToRel(<, Nat))
  BY <1>1, NatLessThanWellFounded, WFMin
<1>3. m \in 0 .. n /\ m \notin S
  BY DEF D
<1>4. m # 0 /\ m - 1 \in 0 .. n /\ m - 1 # n /\ m - 1 + 1 = m /\ m - 1 < m /\ m \in Nat /\ m - 1 \in Nat
  BY <1>3
<1>5. m - 1 \notin D
  BY <1>2, <1>4 DEF OpToRel
<1>6. m - 1 \in S
  BY <1>4, <1>5 DEF D
<1> QED BY <1>3, <1>4, <1>6

(* The sums of a row of numbers, from none of them to all.                  *)
IsSums(B, n, T) == /\ B \in [0 .. n + 1 -> Nat] /\ B[0] = 0
                   /\ \A c \in 0 .. n : B[c + 1] = B[c] + T[c]

(* There are such sums.                                                     *)
LEMMA SumsExist ==
  ASSUME NEW n \in Nat, NEW T \in [0 .. n -> Nat]
  PROVE  \E B : IsSums(B, n, T)
<1> DEFINE S == {k \in Nat : \E B \in [0 .. n + 1 -> Nat] :
                               B[0] = 0 /\ \A c \in 0 .. n : c < k => B[c + 1] = B[c] + T[c]}
<1>1. 0 \in S
  <2>1. [c \in 0 .. n + 1 |-> 0] \in [0 .. n + 1 -> Nat]
    OBVIOUS
  <2>2. [c \in 0 .. n + 1 |-> 0][0] = 0
    OBVIOUS
  <2> QED BY <2>1, <2>2
<1>2. ASSUME NEW k \in 0 .. n + 1, k # n + 1, k \in S PROVE k + 1 \in S
  <2>1. PICK B \in [0 .. n + 1 -> Nat] : B[0] = 0 /\ \A c \in 0 .. n : c < k => B[c + 1] = B[c] + T[c]
    BY <1>2
  <2>2. k \in 0 .. n /\ T[k] \in Nat /\ B[k] \in Nat
    BY <1>2, <2>1
  <2> DEFINE C == [B EXCEPT ![k + 1] = B[k] + T[k]]
  <2>3. C \in [0 .. n + 1 -> Nat] /\ C[0] = 0
    BY <2>1, <2>2
  <2>4. ASSUME NEW c \in 0 .. n, c < k + 1 PROVE C[c + 1] = C[c] + T[c]
    <3>1. c \in 0 .. n + 1 /\ c + 1 \in 0 .. n + 1 /\ c # k + 1
      BY <2>4
    <3>2. C[c] = B[c]
      BY <2>1, <3>1
    <3>3. CASE c = k
      BY <2>1, <3>1, <3>2, <3>3
    <3>4. CASE c # k
      <4>1. c < k /\ c + 1 # k + 1
        BY <2>2, <2>4, <3>4
      <4>2. C[c + 1] = B[c + 1]
        BY <2>1, <3>1, <4>1
      <4> QED BY <2>1, <3>2, <4>1, <4>2
    <3> QED BY <3>3, <3>4
  <2> HIDE DEF C
  <2>5. k + 1 \in Nat /\ C[0] = 0 /\ \A c \in 0 .. n : c < k + 1 => C[c + 1] = C[c] + T[c]
    BY <2>3, <2>4
  <2> QED BY <2>3, <2>5
<1> HIDE DEF S
<1>3. n + 1 \in S
  <2>1. ASSUME NEW m \in Nat, m = n + 1 PROVE m \in S
    <3>1. \A i \in 0 .. m : i # m /\ i \in S => i + 1 \in S
      BY <1>2, <2>1
    <3>2. 0 .. m \subseteq S
      BY <1>1, <3>1, UpTo
    <3> QED BY <3>2
  <2> QED BY <2>1
<1> USE DEF S
<1>4. PICK B \in [0 .. n + 1 -> Nat] : B[0] = 0 /\ \A c \in 0 .. n : c < n + 1 => B[c + 1] = B[c] + T[c]
  BY <1>3
<1>5. \A c \in 0 .. n : c < n + 1
  OBVIOUS
<1> QED BY <1>4, <1>5 DEF IsSums

(* They grow.                                                               *)
LEMMA SumsGrow ==
  ASSUME NEW n \in Nat, NEW T \in [0 .. n -> Nat], NEW B, IsSums(B, n, T),
         NEW a \in 0 .. n + 1, NEW b \in 0 .. n + 1, a <= b
  PROVE  B[a] <= B[b]
<1> DEFINE S == {k \in 0 .. n + 1 : a <= k => B[a] <= B[k]}
<1>1. 0 \in S
  <2>1. a <= 0 => a = 0
    OBVIOUS
  <2> QED BY <2>1 DEF IsSums
<1>2. ASSUME NEW k \in 0 .. n + 1, k # n + 1, k \in S PROVE k + 1 \in S
  <2>1. k \in 0 .. n /\ T[k] \in Nat /\ B[k] \in Nat /\ B[a] \in Nat /\ B[k + 1] = B[k] + T[k]
    BY <1>2 DEF IsSums
  <2>2. CASE a <= k
    BY <1>2, <2>1, <2>2
  <2>3. CASE a = k + 1
    BY <2>1, <2>3 DEF IsSums
  <2>4. CASE a > k + 1
    BY <2>1, <2>4
  <2> QED BY <2>2, <2>3, <2>4, <2>1
<1> HIDE DEF S
<1>3. b \in S
  <2>1. ASSUME NEW m \in Nat, m = n + 1 PROVE b \in S
    <3>1. \A i \in 0 .. m : i # m /\ i \in S => i + 1 \in S
      BY <1>2, <2>1
    <3>2. 0 .. m \subseteq S
      BY <1>1, <3>1, UpTo
    <3> QED BY <2>1, <3>2
  <2> QED BY <2>1
<1> QED BY <1>3 DEF S

-----------------------------------------------------------------------------
(* How many messages a party sends to each of its peers in call c, and what *)
(* they are, the same for all of them: those of its multiplier for that     *)
(* peer and those of main, in the order of the script of main.              *)
Total(p, c) == IF c = 0 THEN 1
               ELSE IF program[c].op = "triples" THEN 7 * Loops
               ELSE IF program[c].player = p THEN 3 ELSE 2

Bits(j, c, a) == Message("ot", <<j, <<c, a>>>>)
Word(c, left) == Message("main", <<c, left>>)

(* A round of generateTriples: two vectors, a word, three vectors, a word.  *)
SaidInRound(c, r, m) ==
  IF m <= 1 THEN Bits(m + 1, c, 5 + 10 * r)
  ELSE IF m = 2 THEN Word(c, 10 * Loops - 10 * r - 4)
  ELSE IF m <= 5 THEN Bits(m - 2, c, 10 + 10 * r)
  ELSE Word(c, 10 * Loops - 10 * r - 9)

Said(p, c, i) ==
  IF c = 0 THEN Message("ot", <<KeyExchange, Blank>>)
  ELSE IF program[c].op = "triples" THEN SaidInRound(c, (i - 1) \div 7, (i - 1) % 7)
  ELSE IF program[c].player = p
       THEN IF i = 1 THEN Bits(1, c, 3) ELSE IF i = 2 THEN Word(c, 2) ELSE Word(c, 0)
       ELSE IF i = 1 THEN Word(c, 2) ELSE Word(c, 0)

(* How many it has sent before call c, and the messages of all its calls,   *)
(* numbered from 1.                                                         *)
Totals(p) == [c \in 0 .. Len(program) |-> Total(p, c)]
Base(p)   == CHOOSE B : IsSums(B, Len(program), Totals(p))

Stream(p) == [n \in Nat |-> CHOOSE m : \E c \in 0 .. Len(program) : \E i \in 1 .. Total(p, c) :
                              n = Base(p)[c] + i /\ m = Said(p, c, i)]

(* Base counts the messages.                                                *)
LEMMA BaseIs ==
  ASSUME ProgramOK, NEW p
  PROVE  /\ Len(program) \in Nat /\ Totals(p) \in [0 .. Len(program) -> Nat]
         /\ IsSums(Base(p), Len(program), Totals(p))
         /\ \A c \in 0 .. Len(program) + 1 : Base(p)[c] \in Nat
         /\ \A c \in 0 .. Len(program) : Base(p)[c + 1] = Base(p)[c] + Total(p, c)
<1> DEFINE n == Len(program)
           T == Totals(p)
<1>1. n \in Nat /\ T \in [0 .. n -> Nat]
  <2>1. \A c \in 0 .. n : Total(p, c) \in Nat
    BY SizeAssumption DEF Total
  <2> QED BY <2>1 DEF ProgramOK, Totals
<1> HIDE DEF n, T
<1>2. \E B : IsSums(B, n, T)
  BY <1>1, SumsExist
<1>3. IsSums(Base(p), n, T)
  BY <1>2 DEF Base, n, T
<1>4. /\ \A c \in 0 .. n + 1 : Base(p)[c] \in Nat
      /\ \A c \in 0 .. n : Base(p)[c + 1] = Base(p)[c] + T[c]
  BY <1>3 DEF IsSums
<1>5. \A c \in 0 .. n : T[c] = Total(p, c)
  BY DEF T, n, Totals
<1> QED BY <1>1, <1>3, <1>4, <1>5 DEF n, T

(* A number is that of one message.                                         *)
LEMMA StreamIs ==
  ASSUME ProgramOK, NEW p, NEW c \in 0 .. Len(program), NEW i \in 1 .. Total(p, c)
  PROVE  Base(p)[c] + i \in Nat /\ Stream(p)[Base(p)[c] + i] = Said(p, c, i)
<1> DEFINE B == Base(p)
           n == Len(program)
           T == Totals(p)
<1>1. n \in Nat /\ T \in [0 .. n -> Nat] /\ IsSums(B, n, T)
  BY BaseIs
<1>2. /\ \A d \in 0 .. n + 1 : B[d] \in Nat
      /\ \A d \in 0 .. n : Total(p, d) \in Nat /\ B[d + 1] = B[d] + Total(p, d)
  BY BaseIs, SizeAssumption DEF Total
<1> HIDE DEF B, n, T
<1>3. ASSUME NEW d \in 0 .. n, NEW j \in 1 .. Total(p, d), NEW e \in 0 .. n,
             NEW k \in 1 .. Total(p, e), d < e
      PROVE  B[d] + j < B[e] + k
  <2>1. d \in 0 .. n + 1 /\ d + 1 \in 0 .. n + 1 /\ e \in 0 .. n + 1 /\ d + 1 <= e
    BY <1>1, <1>3
  <2>2. B[d + 1] <= B[e]
    BY <1>1, <2>1, SumsGrow
  <2>3. B[d] \in Nat /\ B[e] \in Nat /\ B[d + 1] = B[d] + Total(p, d) /\ Total(p, d) \in Nat
        /\ Total(p, e) \in Nat
    BY <1>2, <2>1
  <2>4. \A a, b, t, x, y \in Nat : a + t <= b /\ x <= t /\ y >= 1 => a + x < b + y
    OBVIOUS
  <2>5. j \in Nat /\ k \in Nat /\ j <= Total(p, d) /\ k >= 1 /\ B[d] + Total(p, d) <= B[e]
    BY <2>2, <2>3
  <2> QED BY <2>3, <2>4, <2>5
<1>4. c \in 0 .. n
  BY DEF n
<1>5. ASSUME NEW d \in 0 .. n, NEW j \in 1 .. Total(p, d), B[d] + j = B[c] + i
      PROVE  d = c /\ j = i
  <2>1. B[d] \in Nat /\ B[c] \in Nat /\ Total(p, d) \in Nat /\ Total(p, c) \in Nat
    BY <1>2, <1>4, <1>1
  <2>2. ~ (d < c) /\ ~ (c < d)
    BY <1>3, <1>4, <1>5, <2>1
  <2>3. d = c
    BY <2>2, <1>4, <1>1
  <2> QED BY <2>1, <2>3, <1>5
<1>6. B[c] + i \in Nat
  BY <1>1, <1>2, <1>4
<1> DEFINE w == B[c] + i
<1>7. \A m : (\E d \in 0 .. n : \E j \in 1 .. Total(p, d) : w = B[d] + j /\ m = Said(p, d, j))
               <=> m = Said(p, c, i)
  BY <1>4, <1>5
<1>8. Stream(p)[w] = CHOOSE m : \E d \in 0 .. n : \E j \in 1 .. Total(p, d) :
                                   w = B[d] + j /\ m = Said(p, d, j)
  BY <1>6 DEF Stream, B, n
<1> HIDE DEF w
<1>9. Stream(p)[w] = Said(p, c, i)
  BY <1>7, <1>8
<1> QED BY <1>6, <1>9 DEF w, B

(* The messages of a round of generateTriples.                              *)
LEMMA RoundSaid ==
  ASSUME NEW p, NEW c, c # 0, program[c].op = "triples", NEW r \in 0 .. Loops - 1, NEW m \in 0 .. 6
  PROVE  7 * r + m + 1 \in 1 .. Total(p, c) /\ Said(p, c, 7 * r + m + 1) = SaidInRound(c, r, m)
<1> USE SizeAssumption
<1>1. Total(p, c) = 7 * Loops
  BY DEF Total
<1>2. 7 * r + m + 1 \in 1 .. 7 * Loops
  OBVIOUS
<1>3. (7 * r + m + 1) - 1 = 7 * r + m /\ (7 * r + m) \div 7 = r /\ (7 * r + m) % 7 = m
  OBVIOUS
<1> QED BY <1>1, <1>2, <1>3 DEF Said

-----------------------------------------------------------------------------
(* Where main of generateTriples is, after the first four operations.       *)
RoundOf(a) == (a - 5) \div 10
PlaceOf(a) == (a - 5) % 10

Round(p) == RoundOf(at[p])
Place(p) == PlaceOf(at[p])

(* Main waits for multipliers that exchange messages.  The turn they are in *)
(* is after the operation From, and has so many of them; how far in it the  *)
(* one for q is.                                                            *)
Exchanges(p) == \/ call[p] = 0
                \/ InTriples(p) /\ at[p] >= 5 /\ Place(p) \in {2, 7}
                \/ InOwnInputs(p) /\ at[p] = 5
                \/ InInputsOf(p) /\ at[p] = 3

From(p) == IF InTriples(p) THEN (IF Place(p) = 2 THEN 2 ELSE 8) + 14 * Round(p)
           ELSE IF InOwnInputs(p) THEN 1 ELSE 0

Ops(p, q) == IF InTriples(p) THEN (IF Place(p) = 2 THEN 5 ELSE 7)
             ELSE IF InOwnInputs(p) THEN 2
             ELSE IF InInputsOf(p) THEN Length(p, q) ELSE 3

Part(p, q) == IF inbox[p][q] # <<>> THEN 1
              ELSE IF next[p] > q \/ outbox[p][q] # <<>> THEN Ops(p, q)
              ELSE step[p][q] - From(p)

(* The messages of the turn before its n-th operation.                      *)
SentAt(p, n) == IF InInputsOf(p) THEN 0 ELSE IF InOwnInputs(p) THEN n - 1 ELSE n \div 2
ReadAt(p, n) == IF InInputsOf(p) THEN n - 1 ELSE IF InOwnInputs(p) THEN 0 ELSE (n - 1) \div 2

(* The messages of the call before the operation main is at.                *)
InRound(k) == IF k <= 2 THEN 0 ELSE IF k <= 4 THEN 2 ELSE IF k <= 7 THEN 3 ELSE 6

SentBefore(p) ==
  IF InTriples(p) THEN (IF at[p] < 5 THEN 0 ELSE 7 * Round(p) + InRound(Place(p)))
  ELSE IF InOwnInputs(p) THEN (IF at[p] <= 5 THEN 0 ELSE IF at[p] = 6 THEN 1 ELSE 2)
  ELSE IF InInputsOf(p) THEN (IF at[p] <= 4 THEN 0 ELSE 1)
  ELSE 0

ReadBefore(p, q) ==
  IF InOwnInputs(p) THEN (IF at[p] <= 6 THEN 0 ELSE 1)
  ELSE IF InInputsOf(p) /\ J(p).player = q
       THEN (IF at[p] <= 3 THEN 0 ELSE IF at[p] = 4 THEN 1 ELSE 2)
  ELSE SentBefore(p)

(* The bits main has drawn last in the call.                                *)
Drawn(p) == IF call[p] = 0 THEN Blank
            ELSE IF InTriples(p) THEN <<call[p], (IF Place(p) <= 5 THEN 5 ELSE 10) + 10 * Round(p)>>
            ELSE <<call[p], 3>>

(* They are in the vectors, from the operation on that wrote them.          *)
BitsOK(p) ==
  /\ call[p] = 0 => valueBits[p] = <<>>
  /\ InTriples(p) /\ at[p] >= 3 => DOMAIN valueBits[p] = 1 .. 3
  /\ InTriples(p) /\ at[p] >= 5 /\ Place(p) >= 1 => /\ valueBits[p][1] = Drawn(p)
                                                    /\ valueBits[p][2] = Drawn(p)
  /\ InTriples(p) /\ at[p] >= 5 /\ Place(p) >= 6 => valueBits[p][3] = Drawn(p)
  /\ InOwnInputs(p) /\ at[p] >= 2 => DOMAIN valueBits[p] = 1 .. 1
  /\ InOwnInputs(p) /\ at[p] >= 4 => valueBits[p][1] = Drawn(p)

(* The number and the place of an operation of a round.                     *)
LEMMA PlaceIs ==
  ASSUME NEW r \in Nat, NEW k \in 0 .. 9, NEW a, a = 5 + 10 * r + k
  PROVE  a \in Nat /\ a >= 5 /\ RoundOf(a) = r /\ PlaceOf(a) = k
<1>1. a - 5 = 10 * r + k /\ (10 * r + k) \div 10 = r /\ (10 * r + k) % 10 = k /\ 10 * r + k >= 0
  OBVIOUS
<1> QED BY <1>1 DEF RoundOf, PlaceOf

(* The rounds that are over, and none, at their end.                        *)
LEMMA PlaceAtEnd ==
  ASSUME NEW a, a = 5 + 10 * Loops
  PROVE  a \in Nat /\ a >= 5 /\ RoundOf(a) = Loops /\ PlaceOf(a) = 0
<1>1. PICK r \in Nat : r = Loops
  BY SizeAssumption
<1>2. a = 5 + 10 * r + 0 /\ 0 \in 0 .. 9
  BY <1>1
<1>3. a \in Nat /\ a >= 5 /\ RoundOf(a) = r /\ PlaceOf(a) = 0
  BY <1>2, PlaceIs
<1> QED BY <1>1, <1>3

(* The kinds of calls exclude one another.                                  *)
LEMMA OneKind ==
  ASSUME ProgramOK, NEW p
  PROVE  /\ InTriples(p)   => call[p] # 0 /\ ~ InOwnInputs(p) /\ ~ InInputsOf(p) /\ ~ AtTheEnd(p)
         /\ InOwnInputs(p) => call[p] # 0 /\ ~ InTriples(p) /\ ~ InInputsOf(p) /\ ~ AtTheEnd(p)
         /\ InInputsOf(p)  => call[p] # 0 /\ ~ InTriples(p) /\ ~ InOwnInputs(p) /\ ~ AtTheEnd(p)
         /\ AtTheEnd(p)    => call[p] # 0 /\ ~ InTriples(p) /\ ~ InOwnInputs(p) /\ ~ InInputsOf(p)
         /\ call[p] = 0    => ~ InTriples(p) /\ ~ InOwnInputs(p) /\ ~ InInputsOf(p) /\ ~ AtTheEnd(p)
BY DEF InTriples, InOwnInputs, InInputsOf, InInputs, AtTheEnd, ProgramOK

(* What the program says of the call main is in.                            *)
LEMMA CallIs ==
  ASSUME ProgramOK, NEW p
  PROVE  /\ InTriples(p) => call[p] \in 1 .. Len(program) /\ program[call[p]].op = "triples"
         /\ InOwnInputs(p) => /\ call[p] \in 1 .. Len(program) /\ program[call[p]].op # "triples"
                              /\ program[call[p]].player = p
         /\ InInputsOf(p) => /\ call[p] \in 1 .. Len(program) /\ program[call[p]].op # "triples"
                             /\ program[call[p]].player # p /\ J(p) = program[call[p]]
BY DEF InTriples, InOwnInputs, InInputsOf, InInputs, J, ProgramOK

(* What main does in a round.                                               *)
LEMMA RoundOp ==
  ASSUME ProgramOK, NEW p \in Parties, InTriples(p), NEW r \in 0 .. Loops - 1, NEW k \in 0 .. 9,
         at[p] = 5 + 10 * r + k
  PROVE  /\ Op(p) = TripleRound[k + 1]
         /\ Op(p) = "randomize" <=> k = 0
         /\ Op(p) = "go" <=> k \in {1, 6}
         /\ Op(p) = "collect" <=> k \in {2, 7}
         /\ Op(p) = "combine" <=> k \in {3, 8}
         /\ Op(p) = "talk" <=> k \in {4, 9}
         /\ Op(p) = "amplify" <=> k = 5
<1>1. MainScript(p) = TriplesScript
  BY DEF MainScript, InTriples, J, ProgramOK
<1>2. Op(p) = TripleRound[k + 1]
  BY <1>1, MainTriples DEF Op
<1> QED BY <1>2 DEF TripleRound

(* How main of a call stands: before the rounds, in one, after them, or in  *)
(* the inputs.                                                              *)
LEMMA Situations ==
  ASSUME IInv, NEW p \in Parties
  PROVE  /\ ProgramOK /\ ShapeOK /\ MainOK(p) /\ Len(program) \in Nat
         /\ call[p] \in 0 .. Len(program) + 1
         /\ call[p] = 0 \/ InTriples(p) \/ InOwnInputs(p) \/ InInputsOf(p) \/ AtTheEnd(p)
         /\ call[p] = 0 => at[p] = 1
         /\ InTriples(p) => \/ at[p] \in 1 .. 4 \/ at[p] = 5 + 10 * Loops
                            \/ \E r \in 0 .. Loops - 1, k \in 0 .. 9 : at[p] = 5 + 10 * r + k
         /\ InOwnInputs(p) => at[p] \in 1 .. 8
         /\ InInputsOf(p) => at[p] \in 1 .. 6
         /\ AtTheEnd(p) => at[p] \in 1 .. 2
<1> DEFINE q == FirstPeer(p)
<1>1. q \in Peers(p)
  BY PeersAre
<1> HIDE DEF q
<1>2. ProgramOK /\ ShapeOK /\ MainOK(p) /\ PairOK(p, q)
  BY <1>1 DEF IInv
<1>3. call[p] \in 0 .. Len(program) + 1 /\ Len(program) \in Nat
  BY <1>2 DEF MainOK, ProgramOK
<1>4. call[p] = 0 \/ InTriples(p) \/ InOwnInputs(p) \/ InInputsOf(p) \/ AtTheEnd(p)
  BY <1>2, <1>3, MainScriptIs
<1>5. InTriples(p) => \/ at[p] \in 1 .. 4 \/ at[p] = 5 + 10 * Loops
                      \/ \E r \in 0 .. Loops - 1, k \in 0 .. 9 : at[p] = 5 + 10 * r + k
  BY <1>2, TriplesPlace DEF PairOK, TriplesOK
<1> QED BY <1>2, <1>3, <1>4, <1>5 DEF PairOK, OwnInputsOK, InputsOfOK

-----------------------------------------------------------------------------
(* A turn in which messages are exchanged, and where q's multiplier is in   *)
(* it.  Those of a party with inputs may get go before they have the job.   *)
InTurn(p, q, x) == LET t == From(p) + Ops(p, q) + 1
                   IN  /\ Turn(p, q, x, From(p), t)
                       /\ \/ Working(p, q, x, From(p), t)
                          \/ /\ InOwnInputs(p) /\ next[p] <= q /\ inbox[p][q] = <<J(p), Go>>
                             /\ outbox[p][q] = <<>> /\ job[p][q] = Idle

(* While main waits for an exchange, every multiplier is in its turn.       *)
LEMMA TurnIs ==
  ASSUME IInv, NEW p \in Parties, NEW q \in Peers(p), Exchanges(p)
  PROVE  /\ call[p] \in 0 .. Len(program) /\ Op(p) = "collect" /\ running[p][q] /\ next[p] \in Peers(p)
         /\ From(p) \in Nat /\ Ops(p, q) \in Nat \ {0} /\ \E x : InTurn(p, q, x)
<1> USE SizeAssumption
<1>1. /\ ProgramOK /\ MainOK(p) /\ PairOK(p, q) /\ call[p] \in 0 .. Len(program) + 1
      /\ Len(program) \in Nat
  BY DEF IInv, MainOK, ProgramOK
<1>2. CASE call[p] = 0
  <2>1. ~ InTriples(p) /\ ~ InOwnInputs(p) /\ ~ InInputsOf(p)
    BY <1>1, <1>2, OneKind
  <2>2. From(p) = 0 /\ Ops(p, q) = 3
    BY <2>1 DEF From, Ops
  <2>3. Op(p) = "collect" /\ Turn(p, q, J(p), 0, 4) /\ Working(p, q, J(p), 0, 4)
    BY <1>1, <1>2, OpElsewhere, TurnsAre DEF PairOK
  <2>4. InTurn(p, q, J(p))
    BY <2>2, <2>3 DEF InTurn
  <2> QED BY <1>1, <1>2, <2>2, <2>3, <2>4 DEF MainOK
<1>3. CASE InTriples(p)
  <2>1. call[p] # 0 /\ ~ InOwnInputs(p) /\ ~ InInputsOf(p) /\ at[p] >= 5 /\ Place(p) \in {2, 7}
        /\ call[p] \in 0 .. Len(program) /\ TriplesOK(p, q)
    BY <1>1, <1>3, OneKind DEF Exchanges, InTriples, PairOK
  <2>2. at[p] # 5 + 10 * Loops
    BY <2>1, PlaceAtEnd DEF Place
  <2>3. PICK r \in 0 .. Loops - 1, k \in 0 .. 9 : at[p] = 5 + 10 * r + k
    <3>1. ~ (at[p] \in 1 .. 4)
      BY <2>1
    <3> QED BY <1>3, <2>2, <3>1, Situations, ZenonT(60)
  <2>4. Round(p) = r /\ Place(p) = k /\ k \in {2, 7} /\ r \in Nat
    <3>1. r \in Nat
      OBVIOUS
    <3>2. Round(p) = r /\ Place(p) = k
      BY <2>3, <3>1, PlaceIs DEF Round, Place
    <3> QED BY <2>1, <3>1, <3>2
  <2>5. Op(p) = "collect" /\ RoundOK(p, q, r, k)
    BY <1>1, <1>3, <2>1, <2>3, <2>4, RoundOp DEF TriplesOK
  <2>6. /\ Turn(p, q, Go, 2 + 14 * r, 8 + 14 * r) /\ Turn(p, q, Go, 8 + 14 * r, 16 + 14 * r)
    BY <1>3, TurnsAre
  <2>7. CASE k = 2
    <3>1. From(p) = 2 + 14 * r /\ Ops(p, q) = 5 /\ From(p) + Ops(p, q) + 1 = 8 + 14 * r
      BY <1>3, <2>4, <2>7 DEF From, Ops
    <3>2. InTurn(p, q, Go)
      BY <2>5, <2>6, <2>7, <3>1 DEF InTurn, RoundOK
    <3> QED BY <1>1, <2>1, <2>5, <3>1, <3>2 DEF MainOK
  <2>8. CASE k = 7
    <3>1. From(p) = 8 + 14 * r /\ Ops(p, q) = 7 /\ From(p) + Ops(p, q) + 1 = 16 + 14 * r
      BY <1>3, <2>4, <2>8 DEF From, Ops
    <3>2. InTurn(p, q, Go)
      BY <2>5, <2>6, <2>8, <3>1 DEF InTurn, RoundOK
    <3> QED BY <1>1, <2>1, <2>5, <3>1, <3>2 DEF MainOK
  <2> QED BY <2>4, <2>7, <2>8
<1>4. CASE InOwnInputs(p)
  <2>1. call[p] # 0 /\ ~ InTriples(p) /\ ~ InInputsOf(p) /\ at[p] = 5
        /\ call[p] \in 0 .. Len(program) /\ OwnInputsOK(p, q)
    BY <1>1, <1>4, OneKind DEF Exchanges, InOwnInputs, InInputs, PairOK
  <2>2. From(p) = 1 /\ Ops(p, q) = 2
    BY <1>4, <2>1 DEF From, Ops
  <2>3. Op(p) = "collect" /\ Turn(p, q, Go, 1, 4)
    BY <1>1, <1>4, <2>1, OpInInputs, TurnsAre
  <2>4. InTurn(p, q, Go)
    BY <1>4, <2>1, <2>2, <2>3 DEF InTurn, OwnInputsOK, Stands
  <2> QED BY <1>1, <2>1, <2>2, <2>3, <2>4 DEF MainOK
<1>5. CASE InInputsOf(p)
  <2>1. call[p] # 0 /\ ~ InTriples(p) /\ ~ InOwnInputs(p) /\ at[p] = 3
        /\ call[p] \in 0 .. Len(program) /\ InputsOfOK(p, q)
    BY <1>1, <1>5, OneKind DEF Exchanges, InInputsOf, InInputs, PairOK
  <2>2. From(p) = 0 /\ Ops(p, q) = Length(p, q) /\ Length(p, q) \in Nat \ {0}
    BY <1>1, <1>5, <2>1, LengthIs DEF From, Ops
  <2>3. Op(p) = "collect" /\ Turn(p, q, J(p), 0, Length(p, q) + 1)
    BY <1>1, <1>5, <2>1, OpInInputs, TurnsAre
  <2>4. InTurn(p, q, J(p))
    BY <1>5, <2>1, <2>2, <2>3 DEF InTurn, InputsOfOK
  <2> QED BY <1>1, <2>1, <2>2, <2>3, <2>4 DEF MainOK
<1> QED BY <1>2, <1>3, <1>4, <1>5 DEF Exchanges

(* The n-th operation of the turn sends the message that is next, with the  *)
(* bits that main has drawn, or expects the one that is.                    *)
Bit(p, j) == IF j \in DOMAIN valueBits[p] THEN valueBits[p][j] ELSE Blank

TurnSends(p, n, o) ==
  /\ o[1] = "send" /\ Bit(p, o[2]) = Drawn(p)
  /\ SentAt(p, n + 1) = SentAt(p, n) + 1 /\ ReadAt(p, n + 1) = ReadAt(p, n)
  /\ SentBefore(p) + SentAt(p, n) + 1 \in 1 .. Total(p, call[p])
  /\ Said(p, call[p], SentBefore(p) + SentAt(p, n) + 1) = Message("ot", <<o[2], Drawn(p)>>)

TurnReads(p, q, n, o) ==
  /\ o[1] = "receive"
  /\ SentAt(p, n + 1) = SentAt(p, n) /\ ReadAt(p, n + 1) = ReadAt(p, n) + 1
  /\ ReadBefore(p, q) + ReadAt(p, n) + 1 \in 1 .. Total(q, call[p])
  /\ Said(q, call[p], ReadBefore(p, q) + ReadAt(p, n) + 1) = Message("ot", <<o[2], Drawn(p)>>)

(* Every operation of a turn but the answer is one of the two.              *)
LEMMA TurnOp ==
  ASSUME IInv, NEW p \in Parties, NEW q \in Peers(p), Exchanges(p), BitsOK(p), job[p][q] = J(p),
         NEW n \in 1 .. Ops(p, q) - 1
  PROVE  \/ TurnSends(p, n, MultiplierScript(p, q)[From(p) + n])
         \/ TurnReads(p, q, n, MultiplierScript(p, q)[From(p) + n])
<1> USE SizeAssumption
<1>1. /\ ProgramOK /\ MainOK(p) /\ PairOK(p, q) /\ call[p] \in 0 .. Len(program) + 1
      /\ Len(program) \in Nat
  BY DEF IInv, MainOK, ProgramOK
<1>2. CASE call[p] = 0
  <2>1. ~ InTriples(p) /\ ~ InOwnInputs(p) /\ ~ InInputsOf(p)
    BY <1>1, <1>2, OneKind
  <2>2. /\ From(p) = 0 /\ Ops(p, q) = 3 /\ SentBefore(p) = 0 /\ ReadBefore(p, q) = 0
        /\ Drawn(p) = Blank /\ Total(p, call[p]) = 1 /\ Total(q, call[p]) = 1
        /\ \A i : Said(p, call[p], i) = Message("ot", <<KeyExchange, Blank>>)
        /\ \A i : Said(q, call[p], i) = Message("ot", <<KeyExchange, Blank>>)
    BY <1>2, <2>1 DEF From, Ops, SentBefore, ReadBefore, Drawn, Total, Said
  <2>3. /\ MultiplierScript(p, q)[1] = <<"send", KeyExchange>>
        /\ MultiplierScript(p, q)[2] = <<"receive", KeyExchange>>
    <3> DEFINE S == {"send", "receive", "answer"} \X {0, KeyExchange}
               e == Exchange(KeyExchange)
               z == <<Answer>>
               T == e \o z
    <3>1. MultiplierScript(p, q) = T
      <4>1. job[p][q].op = "start"
        BY <1>1, <1>2, JobIs DEF Start
      <4> HIDE DEF e, z
      <4> QED BY <4>1 DEF MultiplierScript, e, z
    <3>2. /\ e \in Seq(S) /\ Len(e) = 2 /\ e[1] = <<"send", KeyExchange>>
          /\ e[2] = <<"receive", KeyExchange>> /\ z \in Seq(S)
      BY DEF Exchange, Answer, KeyExchange
    <3> HIDE DEF e, z, S
    <3>3. IsJoin(T, e, z)
      BY <3>2, Joined, ZenonT(120)
    <3> HIDE DEF T
    <3> QED BY <3>1, <3>2, <3>3 DEF IsJoin
  <2>4. Bit(p, KeyExchange) = Blank
    BY <1>2 DEF Bit, BitsOK, KeyExchange
  <2>5. SentAt(p, 1) = 0 /\ SentAt(p, 2) = 1 /\ ReadAt(p, 1) = 0 /\ ReadAt(p, 2) = 0
        /\ SentAt(p, 3) = 1 /\ ReadAt(p, 3) = 1
    BY <2>1 DEF SentAt, ReadAt
  <2>6. CASE n = 1
    <3>1. TurnSends(p, 1, <<"send", KeyExchange>>)
      BY <2>2, <2>4, <2>5 DEF TurnSends
    <3> QED BY <2>2, <2>3, <2>6, <3>1
  <2>7. CASE n = 2
    <3>1. TurnReads(p, q, 2, <<"receive", KeyExchange>>)
      BY <2>2, <2>5 DEF TurnReads
    <3> QED BY <2>2, <2>3, <2>7, <3>1
  <2> QED BY <2>2, <2>6, <2>7
<1>3. CASE InTriples(p)
  <2>1. /\ call[p] # 0 /\ ~ InOwnInputs(p) /\ ~ InInputsOf(p) /\ at[p] >= 5 /\ Place(p) \in {2, 7}
        /\ TriplesOK(p, q) /\ program[call[p]].op = "triples" /\ J(p) = program[call[p]]
    BY <1>1, <1>3, OneKind, CallIs DEF Exchanges, InTriples, PairOK, J
  <2>2. at[p] # 5 + 10 * Loops
    BY <2>1, PlaceAtEnd DEF Place
  <2>3. PICK r \in 0 .. Loops - 1, k \in 0 .. 9 : at[p] = 5 + 10 * r + k
    BY <2>1, <2>2, TriplesPlace DEF TriplesOK
  <2>4. Round(p) = r /\ Place(p) = k /\ k \in {2, 7} /\ r \in Nat
    <3>1. r \in Nat
      OBVIOUS
    <3>2. Round(p) = r /\ Place(p) = k
      BY <2>3, <3>1, PlaceIs DEF Round, Place
    <3> QED BY <2>1, <3>1, <3>2
  <2>5. \A i \in 0 .. 13 : MultiplierScript(p, q)[2 + 14 * r + i] = MultiplierRound[i + 1]
    <3>1. job[p][q].op = "triples"
      BY <2>1
    <3>2. ASSUME NEW i \in 0 .. 13
          PROVE  MultiplierScript(p, q)[2 + 14 * r + i] = MultiplierRound[i + 1]
      BY <3>1, MultiplierTriples, ZenonT(60)
    <3> QED BY <3>2
  <2>6. \A m \in 0 .. 6 : /\ 7 * r + m + 1 \in 1 .. Total(p, call[p])
                          /\ Said(p, call[p], 7 * r + m + 1) = SaidInRound(call[p], r, m)
                          /\ 7 * r + m + 1 \in 1 .. Total(q, call[p])
                          /\ Said(q, call[p], 7 * r + m + 1) = SaidInRound(call[p], r, m)
    BY <2>1, RoundSaid
  <2>7. \A i \in Nat : SentAt(p, i) = i \div 2 /\ ReadAt(p, i) = (i - 1) \div 2
    BY <2>1 DEF SentAt, ReadAt
  <2>8. ReadBefore(p, q) = SentBefore(p) /\ SentBefore(p) = 7 * r + InRound(k)
    <3>1. ReadBefore(p, q) = SentBefore(p)
      BY <2>1 DEF ReadBefore
    <3>2. ~ (at[p] < 5)
      BY <2>3
    <3>3. SentBefore(p) = 7 * Round(p) + InRound(Place(p))
      BY <1>3, <3>2 DEF SentBefore
    <3> QED BY <2>4, <3>1, <3>3
  <2>9. CASE k = 2
    <3>1. /\ From(p) = 2 + 14 * r /\ Ops(p, q) = 5 /\ InRound(k) = 0
          /\ Drawn(p) = <<call[p], 5 + 10 * r>>
      BY <1>3, <2>1, <2>4, <2>9 DEF From, Ops, InRound, Drawn
    <3>2. \A j \in 1 .. 2 : Bit(p, j) = Drawn(p)
      <4>1. at[p] >= 3 /\ at[p] >= 5 /\ Place(p) >= 1
        BY <2>3, <2>4, <2>9
      <4>2. /\ DOMAIN valueBits[p] = 1 .. 3
            /\ valueBits[p][1] = Drawn(p) /\ valueBits[p][2] = Drawn(p)
        BY <1>3, <4>1 DEF BitsOK
      <4> QED BY <4>2 DEF Bit
    <3>3. \A j \in 1 .. 2 : SaidInRound(call[p], r, j - 1) = Message("ot", <<j, Drawn(p)>>)
      BY <3>1 DEF SaidInRound, Bits
    <3>4. \A j \in 1 .. 2 : /\ SentAt(p, 2 * j - 1) = j - 1 /\ SentAt(p, 2 * j) = j
                            /\ SentAt(p, 2 * j + 1) = j
                            /\ ReadAt(p, 2 * j - 1) = j - 1 /\ ReadAt(p, 2 * j) = j - 1
                            /\ ReadAt(p, 2 * j + 1) = j
      BY <2>7
    <3>5. ASSUME NEW j \in 1 .. 2
          PROVE  /\ MultiplierScript(p, q)[From(p) + (2 * j - 1)] = <<"send", j>>
                 /\ MultiplierScript(p, q)[From(p) + 2 * j] = <<"receive", j>>
      <4>1. /\ 2 * j - 1 \in 0 .. 13 /\ 2 * j \in 0 .. 13 /\ (2 * j - 1) + 1 = 2 * j
        OBVIOUS
      <4>2. MultiplierRound[2 * j] = <<"send", j>> /\ MultiplierRound[2 * j + 1] = <<"receive", j>>
        BY OneRound
      <4> QED BY <2>5, <3>1, <4>1, <4>2
    <3>6. ASSUME NEW j \in 1 .. 2
          PROVE  /\ TurnSends(p, 2 * j - 1, <<"send", j>>)
                 /\ TurnReads(p, q, 2 * j, <<"receive", j>>)
      <4>1. 7 * r + InRound(k) + (j - 1) + 1 = 7 * r + (j - 1) + 1 /\ (2 * j - 1) + 1 = 2 * j
            /\ j - 1 \in 0 .. 6
        BY <3>1
      <4> QED BY <2>6, <2>8, <3>2, <3>3, <3>4, <4>1 DEF TurnSends, TurnReads
    <3>7. \E j \in 1 .. 2 : n = 2 * j - 1 \/ n = 2 * j
      BY <3>1
    <3> QED BY <3>5, <3>6, <3>7
  <2>10. CASE k = 7
    <3>1. /\ From(p) = 8 + 14 * r /\ Ops(p, q) = 7 /\ InRound(k) = 3
          /\ Drawn(p) = <<call[p], 10 + 10 * r>>
      BY <1>3, <2>1, <2>4, <2>10 DEF From, Ops, InRound, Drawn
    <3>2. \A j \in 1 .. 3 : Bit(p, j) = Drawn(p)
      <4>1. at[p] >= 3 /\ at[p] >= 5 /\ Place(p) >= 1 /\ Place(p) >= 6
        BY <2>3, <2>4, <2>10
      <4>2. /\ DOMAIN valueBits[p] = 1 .. 3 /\ valueBits[p][1] = Drawn(p)
            /\ valueBits[p][2] = Drawn(p) /\ valueBits[p][3] = Drawn(p)
        BY <1>3, <4>1 DEF BitsOK
      <4> QED BY <4>2 DEF Bit
    <3>3. \A j \in 1 .. 3 : SaidInRound(call[p], r, j + 2) = Message("ot", <<j, Drawn(p)>>)
      BY <3>1 DEF SaidInRound, Bits
    <3>4. \A j \in 1 .. 3 : /\ SentAt(p, 2 * j - 1) = j - 1 /\ SentAt(p, 2 * j) = j
                            /\ SentAt(p, 2 * j + 1) = j
                            /\ ReadAt(p, 2 * j - 1) = j - 1 /\ ReadAt(p, 2 * j) = j - 1
                            /\ ReadAt(p, 2 * j + 1) = j
      BY <2>7
    <3>5. ASSUME NEW j \in 1 .. 3
          PROVE  /\ MultiplierScript(p, q)[From(p) + (2 * j - 1)] = <<"send", j>>
                 /\ MultiplierScript(p, q)[From(p) + 2 * j] = <<"receive", j>>
      <4>1. /\ 2 * j + 5 \in 0 .. 13 /\ 2 * j + 6 \in 0 .. 13
            /\ 8 + 14 * r + (2 * j - 1) = 2 + 14 * r + (2 * j + 5) /\ (2 * j + 5) + 1 = 2 * j + 6
            /\ 8 + 14 * r + 2 * j = 2 + 14 * r + (2 * j + 6) /\ (2 * j + 6) + 1 = 2 * j + 7
        OBVIOUS
      <4>2. MultiplierRound[2 * j + 6] = <<"send", j>> /\ MultiplierRound[2 * j + 7] = <<"receive", j>>
        BY OneRound
      <4> QED BY <2>5, <3>1, <4>1, <4>2
    <3>6. ASSUME NEW j \in 1 .. 3
          PROVE  /\ TurnSends(p, 2 * j - 1, <<"send", j>>)
                 /\ TurnReads(p, q, 2 * j, <<"receive", j>>)
      <4>1. 7 * r + InRound(k) + (j - 1) + 1 = 7 * r + (j + 2) + 1 /\ (2 * j - 1) + 1 = 2 * j
            /\ j + 2 \in 0 .. 6
        BY <3>1
      <4> QED BY <2>6, <2>8, <3>2, <3>3, <3>4, <4>1 DEF TurnSends, TurnReads
    <3>7. \E j \in 1 .. 3 : n = 2 * j - 1 \/ n = 2 * j
      BY <3>1
    <3> QED BY <3>5, <3>6, <3>7
  <2> QED BY <2>4, <2>9, <2>10
<1>4. CASE InOwnInputs(p)
  <2>1. /\ call[p] # 0 /\ ~ InTriples(p) /\ ~ InInputsOf(p) /\ at[p] = 5
        /\ program[call[p]].op # "triples" /\ program[call[p]].player = p
    BY <1>1, <1>4, OneKind, CallIs DEF Exchanges
  <2>2. /\ From(p) = 1 /\ Ops(p, q) = 2 /\ SentBefore(p) = 0 /\ Drawn(p) = <<call[p], 3>>
        /\ Total(p, call[p]) = 3 /\ Said(p, call[p], 1) = Bits(1, call[p], 3)
    BY <1>4, <2>1 DEF From, Ops, SentBefore, Drawn, Total, Said
  <2>3. MultiplierScript(p, q)[2] = <<"send", 1>>
    <3>1. MultiplierScript(p, q) = <<Pop, <<"send", 1>>, Answer>>
      BY <1>4 DEF MultiplierScript, InOwnInputs, InInputs
    <3> QED BY <3>1
  <2>4. Bit(p, 1) = Drawn(p)
    BY <1>4, <2>1 DEF Bit, BitsOK
  <2>5. SentAt(p, 1) = 0 /\ SentAt(p, 2) = 1 /\ ReadAt(p, 1) = 0 /\ ReadAt(p, 2) = 0
    BY <1>4, <2>1 DEF SentAt, ReadAt
  <2>6. TurnSends(p, 1, <<"send", 1>>)
    BY <2>2, <2>4, <2>5 DEF TurnSends, Bits
  <2>7. n = 1 /\ From(p) + n = 2
    BY <2>2
  <2> QED BY <2>3, <2>6, <2>7
<1>5. CASE InInputsOf(p)
  <2>1. /\ call[p] # 0 /\ ~ InTriples(p) /\ ~ InOwnInputs(p) /\ at[p] = 3
        /\ program[call[p]].op # "triples" /\ J(p) = program[call[p]]
        /\ From(p) = 0 /\ Ops(p, q) = Length(p, q)
    BY <1>1, <1>5, OneKind, CallIs DEF Exchanges, From, Ops
  <2>2. Length(p, q) = IF J(p).player = q THEN 2 ELSE 1
    BY <1>5 DEF Length, InOwnInputs, InInputsOf, InInputs, InTriples
  <2>3. J(p).player = q /\ n = 1
    BY <2>1, <2>2
  <2>4. /\ ReadBefore(p, q) = 0 /\ Drawn(p) = <<call[p], 3>>
        /\ Total(q, call[p]) = 3 /\ Said(q, call[p], 1) = Bits(1, call[p], 3)
    BY <1>5, <2>1, <2>3 DEF ReadBefore, Drawn, Total, Said
  <2>5. MultiplierScript(p, q)[1] = <<"receive", 1>>
    <3>1. MultiplierScript(p, q) = <<<<"receive", 1>>, Answer>>
      BY <1>5, <2>3 DEF MultiplierScript, InInputsOf, InInputs
    <3> QED BY <3>1
  <2>6. SentAt(p, 1) = 0 /\ SentAt(p, 2) = 0 /\ ReadAt(p, 1) = 0 /\ ReadAt(p, 2) = 1
    BY <1>5 DEF SentAt, ReadAt
  <2>7. TurnReads(p, q, 1, <<"receive", 1>>)
    BY <2>4, <2>6 DEF TurnReads, Bits
  <2> QED BY <2>1, <2>3, <2>5, <2>7
<1> QED BY <1>2, <1>3, <1>4, <1>5 DEF Exchanges

-----------------------------------------------------------------------------
(* What main says and hears in an exchange of its own is what is next.      *)
LEMMA TalkIs ==
  ASSUME IInv, NEW p \in Parties, NEW q \in Peers(p), Op(p) = "talk"
  PROVE  /\ ~ Exchanges(p) /\ call[p] \in 1 .. Len(program)
         /\ SentBefore(p) + 1 \in 1 .. Total(p, call[p])
         /\ Said(p, call[p], SentBefore(p) + 1) = Message("main", Topic(p))
         /\ ReadBefore(p, q) + 1 \in 1 .. Total(q, call[p])
         /\ Said(q, call[p], ReadBefore(p, q) + 1) = Message("main", Topic(p))
<1> USE SizeAssumption
<1>1. /\ ProgramOK /\ MainOK(p) /\ call[p] \in 0 .. Len(program) + 1 /\ Len(program) \in Nat
  BY DEF IInv, MainOK, ProgramOK
<1>2. ~ Exchanges(p)
  BY TurnIs
<1>3. call[p] # 0 /\ ~ AtTheEnd(p)
  BY <1>1, Situations, OpElsewhere
<1>4. CASE InTriples(p)
  <2>1. /\ call[p] # 0 /\ call[p] \in 1 .. Len(program) /\ ~ InOwnInputs(p) /\ ~ InInputsOf(p)
        /\ program[call[p]].op = "triples" /\ Len(MainScript(p)) = 5 + 10 * Loops
    BY <1>1, <1>4, OneKind, CallIs, OpInTriples
  <2>2. at[p] \notin 1 .. 4 /\ at[p] # 5 + 10 * Loops
    <3>1. at[p] \notin {1, 2, 3, 4} /\ at[p] # 5 + 10 * Loops
      BY <1>1, <1>4, OpInTriples
    <3> QED BY <3>1
  <2>3. PICK r \in 0 .. Loops - 1, k \in 0 .. 9 : at[p] = 5 + 10 * r + k
    BY <1>4, <2>2, Situations
  <2>4. k \in {4, 9}
    BY <1>1, <1>4, <2>3, RoundOp
  <2>5. r \in Nat /\ at[p] >= 5 /\ Round(p) = r /\ Place(p) = k /\ at[p] \in Nat
    <3>1. r \in Nat
      OBVIOUS
    <3> QED BY <2>3, <3>1, PlaceIs DEF Round, Place
  <2>6. ReadBefore(p, q) = SentBefore(p) /\ SentBefore(p) = 7 * r + InRound(k)
    <3>1. ReadBefore(p, q) = SentBefore(p)
      BY <2>1 DEF ReadBefore
    <3>2. ~ (at[p] < 5)
      BY <2>5
    <3>3. SentBefore(p) = 7 * Round(p) + InRound(Place(p))
      BY <1>4, <3>2 DEF SentBefore
    <3> QED BY <2>5, <3>1, <3>3
  <2>7. InRound(k) \in 0 .. 6 /\ InRound(k) = (IF k = 4 THEN 2 ELSE 6)
    BY <2>4 DEF InRound
  <2>8. SaidInRound(call[p], r, InRound(k)) = Message("main", Topic(p))
    <3>1. CASE k = 4
      <4>1. Len(MainScript(p)) - at[p] = 10 * Loops - 10 * r - 4 /\ InRound(k) = 2
        BY <2>1, <2>3, <2>7, <3>1
      <4>2. SaidInRound(call[p], r, 2) = Word(call[p], 10 * Loops - 10 * r - 4)
        BY DEF SaidInRound
      <4>3. Topic(p) = <<call[p], Len(MainScript(p)) - at[p]>>
        BY DEF Topic
      <4> QED BY <4>1, <4>2, <4>3 DEF Word
    <3>2. CASE k = 9
      <4>1. Len(MainScript(p)) - at[p] = 10 * Loops - 10 * r - 9 /\ InRound(k) = 6
        BY <2>1, <2>3, <2>7, <3>2
      <4>2. SaidInRound(call[p], r, 6) = Word(call[p], 10 * Loops - 10 * r - 9)
        BY DEF SaidInRound
      <4>3. Topic(p) = <<call[p], Len(MainScript(p)) - at[p]>>
        BY DEF Topic
      <4> QED BY <4>1, <4>2, <4>3 DEF Word
    <3> QED BY <2>4, <3>1, <3>2
  <2>9. /\ 7 * r + InRound(k) + 1 \in 1 .. Total(p, call[p])
        /\ Said(p, call[p], 7 * r + InRound(k) + 1) = SaidInRound(call[p], r, InRound(k))
        /\ 7 * r + InRound(k) + 1 \in 1 .. Total(q, call[p])
        /\ Said(q, call[p], 7 * r + InRound(k) + 1) = SaidInRound(call[p], r, InRound(k))
    BY <2>1, <2>7, RoundSaid
  <2> QED BY <1>2, <2>1, <2>6, <2>8, <2>9
<1>5. CASE InOwnInputs(p)
  <2>1. /\ call[p] # 0 /\ call[p] \in 1 .. Len(program) /\ ~ InTriples(p) /\ ~ InInputsOf(p)
        /\ program[call[p]].op # "triples" /\ program[call[p]].player = p
        /\ Len(MainScript(p)) = 8 /\ at[p] \in 1 .. 8 /\ p # q
    BY <1>1, <1>5, OneKind, CallIs, OpInInputs, Situations DEF Peers
  <2>2. at[p] \in {6, 8}
    BY <1>1, <1>5, <2>1, OpInInputs
  <2>3. /\ Total(p, call[p]) = 3 /\ Total(q, call[p]) = 2
        /\ Said(p, call[p], 2) = Word(call[p], 2) /\ Said(p, call[p], 3) = Word(call[p], 0)
        /\ Said(q, call[p], 1) = Word(call[p], 2) /\ Said(q, call[p], 2) = Word(call[p], 0)
    BY <2>1 DEF Total, Said
  <2>4. SentBefore(p) = (IF at[p] = 6 THEN 1 ELSE 2) /\ ReadBefore(p, q) = (IF at[p] = 6 THEN 0 ELSE 1)
    BY <1>5, <2>1, <2>2 DEF SentBefore, ReadBefore
  <2>5. Topic(p) = <<call[p], IF at[p] = 6 THEN 2 ELSE 0>>
    BY <2>1, <2>2 DEF Topic
  <2> QED BY <1>2, <2>1, <2>2, <2>3, <2>4, <2>5 DEF Word
<1>6. CASE InInputsOf(p)
  <2>1. /\ call[p] # 0 /\ call[p] \in 1 .. Len(program) /\ ~ InTriples(p) /\ ~ InOwnInputs(p)
        /\ program[call[p]].op # "triples" /\ program[call[p]].player # p
        /\ Len(MainScript(p)) = 6 /\ at[p] \in 1 .. 6 /\ J(p) = program[call[p]]
    BY <1>1, <1>6, OneKind, CallIs, OpInInputs, Situations
  <2>2. at[p] \in {4, 6}
    BY <1>1, <1>6, <2>1, OpInInputs
  <2>3. /\ Total(p, call[p]) = 2 
        /\ Said(p, call[p], 1) = Word(call[p], 2) /\ Said(p, call[p], 2) = Word(call[p], 0)
    BY <2>1 DEF Total, Said
  <2>4. SentBefore(p) = (IF at[p] = 4 THEN 0 ELSE 1)
    BY <1>6, <2>1, <2>2 DEF SentBefore
  <2>5. Topic(p) = <<call[p], IF at[p] = 4 THEN 2 ELSE 0>>
    BY <2>1, <2>2 DEF Topic
  <2>6. /\ ReadBefore(p, q) + 1 \in 1 .. Total(q, call[p])
        /\ Said(q, call[p], ReadBefore(p, q) + 1) = Message("main", Topic(p))
    <3>1. CASE J(p).player = q
      <4>1. /\ Total(q, call[p]) = 3
            /\ Said(q, call[p], 2) = Word(call[p], 2) /\ Said(q, call[p], 3) = Word(call[p], 0)
        BY <2>1, <3>1 DEF Total, Said
      <4>2. ReadBefore(p, q) = (IF at[p] = 4 THEN 1 ELSE 2)
        BY <1>6, <2>1, <2>2, <3>1 DEF ReadBefore
      <4> QED BY <2>2, <2>5, <4>1, <4>2 DEF Word
    <3>2. CASE J(p).player # q
      <4>1. /\ Total(q, call[p]) = 2
            /\ Said(q, call[p], 1) = Word(call[p], 2) /\ Said(q, call[p], 2) = Word(call[p], 0)
        BY <2>1, <3>2 DEF Total, Said
      <4>2. ReadBefore(p, q) = (IF at[p] = 4 THEN 0 ELSE 1)
        BY <1>6, <2>1, <2>4, <3>2 DEF ReadBefore
      <4> QED BY <2>2, <2>5, <4>1, <4>2 DEF Word
    <3> QED BY <3>1, <3>2
  <2> QED BY <1>2, <2>1, <2>2, <2>3, <2>4, <2>5, <2>6 DEF Word
<1> QED BY <1>1, <1>3, <1>4, <1>5, <1>6, Situations

-----------------------------------------------------------------------------
(* What the operation main is at comes to, when it is done.                 *)
SentBy(p, q) == IF Exchanges(p) THEN SentAt(p, Ops(p, q)) ELSE IF Op(p) = "talk" THEN 1 ELSE 0
ReadBy(p, q) == IF Exchanges(p) THEN ReadAt(p, Ops(p, q)) ELSE IF Op(p) = "talk" THEN 1 ELSE 0

(* It makes up the difference to the next operation, also over the end of a *)
(* call.                                                                    *)
Counted(p, q) ==
  IF call'[p] = call[p]
  THEN /\ SentBefore(p)' = SentBefore(p) + SentBy(p, q)
       /\ ReadBefore(p, q)' = ReadBefore(p, q) + ReadBy(p, q)
  ELSE /\ call'[p] = call[p] + 1 /\ SentBefore(p)' = 0 /\ ReadBefore(p, q)' = 0
       /\ Total(p, call[p]) = SentBefore(p) + SentBy(p, q)
       /\ Total(q, call[p]) = ReadBefore(p, q) + ReadBy(p, q)

(* An operation that is done has come to that.                              *)
LEMMA Progress ==
  ASSUME IInv, NEW p \in Parties, NEW q \in Peers(p), program' = program, Moved(p),
         call[p] \in 0 .. Len(program)
  PROVE  Counted(p, q)
<1> USE SizeAssumption
<1>1. ProgramOK /\ MainOK(p) /\ call[p] \in 0 .. Len(program) + 1 /\ Len(program) \in Nat /\ p # q
  BY DEF IInv, MainOK, ProgramOK, Peers
<1>2. ~ AtTheEnd(p) /\ call[p] \in Nat
  BY <1>1 DEF AtTheEnd
<1>3. at'[p] = 1 => SentBefore(p)' = 0 /\ ReadBefore(p, q)' = 0
  BY DEF SentBefore, ReadBefore
<1>4. CASE call[p] = 0
  <2>1. ~ InTriples(p) /\ ~ InOwnInputs(p) /\ ~ InInputsOf(p) /\ at[p] = 1 /\ Len(MainScript(p)) = 1
    BY <1>1, <1>4, OneKind, Situations, OpElsewhere
  <2>2. /\ SentBefore(p) = 0 /\ ReadBefore(p, q) = 0 /\ Total(p, call[p]) = 1 /\ Total(q, call[p]) = 1
        /\ Ops(p, q) = 3 /\ Exchanges(p)
    BY <1>4, <2>1 DEF SentBefore, ReadBefore, Total, Ops, Exchanges
  <2>3. SentBy(p, q) = 1 /\ ReadBy(p, q) = 1
    BY <2>1, <2>2 DEF SentBy, ReadBy, SentAt, ReadAt
  <2>4. at'[p] = 1 /\ call'[p] = call[p] + 1 /\ call'[p] # call[p]
    BY <1>2, <2>1 DEF Moved
  <2> QED BY <1>3, <2>2, <2>3, <2>4 DEF Counted
<1>5. CASE InTriples(p)
  <2>1. /\ call[p] # 0 /\ call[p] \in 1 .. Len(program) /\ ~ InOwnInputs(p) /\ ~ InInputsOf(p)
        /\ program[call[p]].op = "triples" /\ Len(MainScript(p)) = 5 + 10 * Loops
    BY <1>1, <1>5, OneKind, CallIs, OpInTriples
  <2>2. /\ ReadBefore(p, q) = SentBefore(p)
        /\ SentBefore(p) = IF at[p] < 5 THEN 0 ELSE 7 * Round(p) + InRound(Place(p))
        /\ Exchanges(p) <=> at[p] >= 5 /\ Place(p) \in {2, 7}
        /\ Total(p, call[p]) = 7 * Loops /\ Total(q, call[p]) = 7 * Loops
        /\ \A n : SentAt(p, n) = n \div 2 /\ ReadAt(p, n) = (n - 1) \div 2
    BY <1>5, <2>1 DEF ReadBefore, SentBefore, Exchanges, Total, SentAt, ReadAt
  <2>3. call'[p] = call[p] => InTriples(p)' /\ ~ InOwnInputs(p)' /\ ~ InInputsOf(p)'
    BY <1>5, <2>1, SameCall
  <2>4. call'[p] = call[p] =>
          /\ ReadBefore(p, q)' = SentBefore(p)'
          /\ SentBefore(p)' = IF at'[p] < 5 THEN 0 ELSE 7 * RoundOf(at'[p]) + InRound(PlaceOf(at'[p]))
    BY <2>3 DEF ReadBefore, SentBefore, Round, Place
  <2>5. CASE at[p] \in 1 .. 4
    <3>1. at'[p] = at[p] + 1 /\ call'[p] = call[p] /\ ~ Exchanges(p) /\ Op(p) # "talk"
      <4>1. at[p] < 5 + 10 * Loops
        BY <2>5
      <4>2. at[p] \in {1, 2, 3, 4}
        BY <2>5
      <4> QED BY <1>1, <1>5, <2>1, <2>2, <2>5, <4>1, <4>2, OpInTriples DEF Moved
    <3>2. SentBefore(p)' = 0
      <4>1. CASE at'[p] < 5
        BY <2>4, <3>1, <4>1
      <4>2. CASE ~ (at'[p] < 5)
        <5>1. at'[p] = 5 + 10 * 0 + 0 /\ 0 \in Nat /\ 0 \in 0 .. 9
          BY <2>5, <3>1, <4>2
        <5>2. RoundOf(at'[p]) = 0 /\ PlaceOf(at'[p]) = 0
          BY <5>1, PlaceIs
        <5> QED BY <2>4, <3>1, <4>2, <5>2 DEF InRound
      <4> QED BY <4>1, <4>2
    <3>3. SentBefore(p) = 0 /\ ReadBefore(p, q) = 0 /\ ReadBefore(p, q)' = 0
      BY <2>2, <2>4, <2>5, <3>1, <3>2
    <3> QED BY <3>1, <3>2, <3>3 DEF Counted, SentBy, ReadBy
  <2>6. CASE at[p] = 5 + 10 * Loops
    <3>1. at[p] >= 5 /\ Round(p) = Loops /\ Place(p) = 0 /\ at[p] \in Nat
      BY <2>6, PlaceAtEnd DEF Round, Place
    <3>2. at'[p] = 1 /\ call'[p] = call[p] + 1 /\ call'[p] # call[p]
      BY <1>2, <2>1, <2>6 DEF Moved
    <3>3. ~ Exchanges(p) /\ Op(p) # "talk"
      BY <1>1, <1>5, <2>2, <2>6, <3>1, OpInTriples
    <3>4. SentBefore(p) = 7 * Loops
      BY <2>2, <3>1 DEF InRound
    <3> QED BY <1>3, <2>2, <3>2, <3>3, <3>4 DEF Counted, SentBy, ReadBy
  <2>7. ASSUME NEW r \in 0 .. Loops - 1, NEW k \in 0 .. 9, at[p] = 5 + 10 * r + k
        PROVE  Counted(p, q)
    <3>1. r \in Nat /\ r + 1 \in Nat
      OBVIOUS
    <3>2. at[p] >= 5 /\ Round(p) = r /\ Place(p) = k /\ at[p] \in Nat
      BY <2>7, <3>1, PlaceIs DEF Round, Place
    <3>3. at[p] < 5 + 10 * Loops
      BY <2>7
    <3>4. at'[p] = at[p] + 1 /\ call'[p] = call[p]
      BY <2>1, <3>3 DEF Moved
    <3>5. SentBefore(p) = 7 * r + InRound(k)
      BY <2>2, <3>2
    <3>6. SentBefore(p)' = 7 * r + (IF k = 9 THEN 7 ELSE InRound(k + 1))
      <4>1. CASE k = 9
        <5>1. at'[p] = 5 + 10 * (r + 1) + 0 /\ 0 \in 0 .. 9
          BY <2>7, <3>4, <4>1
        <5>2. RoundOf(at'[p]) = r + 1 /\ PlaceOf(at'[p]) = 0 /\ at'[p] >= 5 /\ at'[p] \in Nat
          BY <3>1, <5>1, PlaceIs
        <5> QED BY <2>4, <3>4, <4>1, <5>2 DEF InRound
      <4>2. CASE k # 9
        <5>1. at'[p] = 5 + 10 * r + (k + 1) /\ k + 1 \in 0 .. 9
          BY <2>7, <3>4, <4>2
        <5>2. RoundOf(at'[p]) = r /\ PlaceOf(at'[p]) = k + 1 /\ at'[p] >= 5 /\ at'[p] \in Nat
          BY <3>1, <5>1, PlaceIs
        <5> QED BY <2>4, <3>4, <4>2, <5>2
      <4> QED BY <4>1, <4>2
    <3>7. (IF k = 9 THEN 7 ELSE InRound(k + 1))
            = InRound(k) + (IF k = 2 THEN 2 ELSE IF k = 7 THEN 3 ELSE IF k \in {4, 9} THEN 1 ELSE 0)
      BY DEF InRound
    <3>8. /\ SentBy(p, q) = (IF k = 2 THEN 2 ELSE IF k = 7 THEN 3 ELSE IF k \in {4, 9} THEN 1 ELSE 0)
          /\ ReadBy(p, q) = SentBy(p, q)
      <4>1. Op(p) = "talk" <=> k \in {4, 9}
        BY <1>1, <1>5, <2>7, RoundOp
      <4>2. Exchanges(p) <=> k \in {2, 7}
        BY <2>2, <3>2
      <4>3. Ops(p, q) = IF k = 2 THEN 5 ELSE 7
        BY <1>5, <3>2 DEF Ops
      <4>4. CASE k = 2
        BY <2>2, <4>2, <4>3, <4>4 DEF SentBy, ReadBy
      <4>5. CASE k = 7
        BY <2>2, <4>2, <4>3, <4>5 DEF SentBy, ReadBy
      <4>6. CASE k \notin {2, 7}
        BY <4>1, <4>2, <4>6 DEF SentBy, ReadBy
      <4> QED BY <4>4, <4>5, <4>6
    <3>9. InRound(k) \in Nat /\ 7 * r \in Nat
      BY DEF InRound
    <3>10. SentBefore(p)' = SentBefore(p) + SentBy(p, q)
      BY <3>5, <3>6, <3>7, <3>8, <3>9
    <3>11. ReadBefore(p, q)' = ReadBefore(p, q) + ReadBy(p, q)
      BY <2>2, <2>4, <3>4, <3>8, <3>10
    <3> QED BY <3>4, <3>10, <3>11 DEF Counted
  <2> QED BY <1>5, <2>5, <2>6, <2>7, Situations
<1>6. CASE InOwnInputs(p)
  <2>1. /\ call[p] # 0 /\ call[p] \in 1 .. Len(program) /\ ~ InTriples(p) /\ ~ InInputsOf(p)
        /\ program[call[p]].op # "triples" /\ program[call[p]].player = p
        /\ Len(MainScript(p)) = 8 /\ at[p] \in 1 .. 8
    BY <1>1, <1>6, OneKind, CallIs, OpInInputs, Situations
  <2>2. /\ Total(p, call[p]) = 3 /\ Total(q, call[p]) = 2 /\ Ops(p, q) = 2
        /\ SentAt(p, 2) = 1 /\ ReadAt(p, 2) = 0 /\ (Exchanges(p) <=> at[p] = 5)
    BY <1>1, <1>6, <2>1 DEF Total, Ops, SentAt, ReadAt, Exchanges
  <2>3. Op(p) = "talk" <=> at[p] \in {6, 8}
    BY <1>1, <1>6, <2>1, OpInInputs
  <2>4. /\ SentBefore(p) = (IF at[p] <= 5 THEN 0 ELSE IF at[p] = 6 THEN 1 ELSE 2)
        /\ ReadBefore(p, q) = (IF at[p] <= 6 THEN 0 ELSE 1)
    BY <1>6, <2>1 DEF SentBefore, ReadBefore
  <2>5. CASE at[p] < 8
    <3>1. at'[p] = at[p] + 1 /\ call'[p] = call[p]
      BY <2>1, <2>5 DEF Moved
    <3>2. ~ InTriples(p)' /\ InOwnInputs(p)'
      BY <1>6, <2>1, <3>1, SameCall
    <3>3. /\ SentBefore(p)' = (IF at'[p] <= 5 THEN 0 ELSE IF at'[p] = 6 THEN 1 ELSE 2)
          /\ ReadBefore(p, q)' = (IF at'[p] <= 6 THEN 0 ELSE 1)
      BY <3>2 DEF SentBefore, ReadBefore
    <3>4. /\ SentBy(p, q) = IF at[p] \in {5, 6} THEN 1 ELSE 0
          /\ ReadBy(p, q) = IF at[p] = 6 THEN 1 ELSE 0
      BY <2>1, <2>2, <2>3, <2>5 DEF SentBy, ReadBy
    <3> QED BY <2>1, <2>4, <2>5, <3>1, <3>3, <3>4 DEF Counted
  <2>6. CASE at[p] = 8
    <3>1. at'[p] = 1 /\ call'[p] = call[p] + 1 /\ call'[p] # call[p]
      BY <1>2, <2>1, <2>6 DEF Moved
    <3>2. SentBy(p, q) = 1 /\ ReadBy(p, q) = 1
      BY <2>2, <2>3, <2>6 DEF SentBy, ReadBy
    <3> QED BY <1>3, <2>2, <2>4, <2>6, <3>1, <3>2 DEF Counted
  <2> QED BY <2>1, <2>5, <2>6
<1>7. CASE InInputsOf(p)
  <2>1. /\ call[p] # 0 /\ call[p] \in 1 .. Len(program) /\ ~ InTriples(p) /\ ~ InOwnInputs(p)
        /\ program[call[p]].op # "triples" /\ program[call[p]].player # p
        /\ Len(MainScript(p)) = 6 /\ at[p] \in 1 .. 6 /\ J(p) = program[call[p]]
    BY <1>1, <1>7, OneKind, CallIs, OpInInputs, Situations
  <2>2. /\ Total(p, call[p]) = 2 /\ Total(q, call[p]) = (IF J(p).player = q THEN 3 ELSE 2)
        /\ Ops(p, q) = (IF J(p).player = q THEN 2 ELSE 1)
        /\ \A n : SentAt(p, n) = 0 /\ ReadAt(p, n) = n - 1
        /\ Exchanges(p) <=> at[p] = 3
    BY <1>1, <1>7, <2>1 DEF Total, Ops, SentAt, ReadAt, Exchanges, Length
  <2>3. Op(p) = "talk" <=> at[p] \in {4, 6}
    BY <1>1, <1>7, <2>1, OpInInputs
  <2>4. /\ SentBefore(p) = (IF at[p] <= 4 THEN 0 ELSE 1)
        /\ ReadBefore(p, q) = IF J(p).player = q THEN (IF at[p] <= 3 THEN 0 ELSE IF at[p] = 4 THEN 1 ELSE 2)
                              ELSE IF at[p] <= 4 THEN 0 ELSE 1
    BY <1>7, <2>1 DEF SentBefore, ReadBefore
  <2>5. CASE at[p] < 6
    <3>1. at'[p] = at[p] + 1 /\ call'[p] = call[p]
      BY <2>1, <2>5 DEF Moved
    <3>2. ~ InTriples(p)' /\ ~ InOwnInputs(p)' /\ InInputsOf(p)' /\ J(p)' = J(p)
      BY <1>7, <2>1, <3>1, SameCall
    <3>3. /\ SentBefore(p)' = (IF at'[p] <= 4 THEN 0 ELSE 1)
          /\ ReadBefore(p, q)' = IF J(p).player = q
                                 THEN (IF at'[p] <= 3 THEN 0 ELSE IF at'[p] = 4 THEN 1 ELSE 2)
                                 ELSE IF at'[p] <= 4 THEN 0 ELSE 1
      BY <3>2 DEF SentBefore, ReadBefore
    <3>4. /\ SentBy(p, q) = IF at[p] = 4 THEN 1 ELSE 0
          /\ ReadBy(p, q) = IF at[p] = 3 THEN (IF J(p).player = q THEN 1 ELSE 0)
                            ELSE IF at[p] = 4 THEN 1 ELSE 0
      BY <2>1, <2>2, <2>3, <2>5 DEF SentBy, ReadBy
    <3> QED BY <2>1, <2>4, <2>5, <3>1, <3>3, <3>4 DEF Counted
  <2>6. CASE at[p] = 6
    <3>1. at'[p] = 1 /\ call'[p] = call[p] + 1 /\ call'[p] # call[p]
      BY <1>2, <2>1, <2>6 DEF Moved
    <3>2. SentBy(p, q) = 1 /\ ReadBy(p, q) = 1
      BY <2>2, <2>3, <2>6 DEF SentBy, ReadBy
    <3> QED BY <1>3, <2>2, <2>4, <2>6, <3>1, <3>2 DEF Counted
  <2> QED BY <2>1, <2>5, <2>6
<1> QED BY <1>1, <1>2, <1>4, <1>5, <1>6, <1>7, Situations

-----------------------------------------------------------------------------
(* A multiplier that sends or expects a message is in a turn, at its n-th   *)
(* operation.                                                               *)
AtWork(p, q, n) == /\ inbox[p][q] = <<>> /\ outbox[p][q] = <<>> /\ next[p] <= q
                   /\ job[p][q] = J(p) /\ step[p][q] = From(p) + n

(* Only such a multiplier uses a connection.                                *)
LEMMA Doing ==
  ASSUME IInv, NEW p \in Parties, NEW q \in Peers(p),
         Does(p, q, "send") \/ Does(p, q, "receive")
  PROVE  Exchanges(p) /\ Part(p, q) \in 1 .. Ops(p, q) - 1 /\ AtWork(p, q, Part(p, q))
<1> USE SizeAssumption
<1>1. /\ ProgramOK /\ MainOK(p) /\ PairOK(p, q) /\ call[p] \in 0 .. Len(program) + 1
      /\ Len(program) \in Nat
  BY DEF IInv, MainOK, ProgramOK
<1>2. Op(p) = "collect" /\ next[p] <= q /\ job[p][q] \notin {Idle, Over}
  BY Exchanging, IdleDoes
<1>3. call[p] \in 0 .. Len(program) /\ ~ AtTheEnd(p)
  BY <1>1, <1>2 DEF PairOK, AtTheEnd
<1>4. ASSUME NEW s, s \in 1 .. Length(p, q) => s \in Pops(p, q) \cup Answers(p, q)
      PROVE  ~ Stands(p, q, s)
  BY <1>1, <1>2, <1>3, <1>4, ScriptIs DEF Stands, Does
<1>5. ASSUME NEW x, NEW s, NEW t, Turn(p, q, x, s, t), Working(p, q, x, s, t)
      PROVE  Empty(p, q) /\ job[p][q] = J(p) /\ step[p][q] \in s + 1 .. t - 2
  <2>1. s \in 1 .. Length(p, q) => s \in Pops(p, q)
    BY <1>5 DEF Turn
  <2>2. t \in 1 .. Length(p, q) => t \in Pops(p, q)
    BY <1>5 DEF Turn
  <2>3. ~ Stands(p, q, s) /\ ~ Stands(p, q, t)
    BY <1>4, <2>1, <2>2
  <2>4. Empty(p, q) /\ job[p][q] = J(p) /\ step[p][q] \in s + 1 .. t - 1
    BY <1>2, <1>5, <2>3 DEF Working, Works
  <2>5. step[p][q] # t - 1
    <3>1. t - 1 \in Answers(p, q) /\ t - 1 \in 1 .. Length(p, q)
      BY <1>5, <1>1, <1>3, LengthIs DEF Turn
    <3> QED BY <1>1, <1>3, <2>4, <3>1, ScriptIs DEF Does
  <2> QED BY <2>4, <2>5, <1>5 DEF Turn
<1>6. Exchanges(p)
  <2>1. CASE InTriples(p)
    <3>1. TriplesOK(p, q) /\ Turn(p, q, J(p), 0, 2)
      BY <1>1, <2>1, TurnsAre DEF PairOK
    <3>2. at[p] \notin {1, 2, 3, 4}
      <4>1. at[p] # 3
        BY <1>5, <3>1 DEF TriplesOK
      <4> QED BY <1>1, <1>2, <2>1, <4>1, OpInTriples
    <3>3. at[p] # 5 + 10 * Loops
      BY <1>1, <1>2, <2>1, OpInTriples
    <3>4. PICK r \in 0 .. Loops - 1, k \in 0 .. 9 : at[p] = 5 + 10 * r + k
      BY <2>1, <3>2, <3>3, Situations
    <3>5. k \in {2, 7} /\ r \in Nat
      <4>1. k \in {2, 7}
        BY <1>1, <1>2, <2>1, <3>4, RoundOp
      <4> QED BY <4>1
    <3>6. at[p] >= 5 /\ Place(p) = k
      BY <3>4, <3>5, PlaceIs DEF Place
    <3> QED BY <2>1, <3>5, <3>6 DEF Exchanges
  <2>2. CASE InOwnInputs(p)
    <3>1. at[p] \in {1, 2, 3, 4, 5, 6, 7, 8}
      BY <2>2, Situations
    <3>2. at[p] = 5
      BY <1>1, <1>2, <2>2, <3>1, OpInInputs
    <3> QED BY <2>2, <3>2 DEF Exchanges
  <2>3. CASE InInputsOf(p)
    <3>1. at[p] \in {1, 2, 3, 4, 5, 6}
      BY <2>3, Situations
    <3>2. at[p] = 3
      BY <1>1, <1>2, <2>3, <3>1, OpInInputs
    <3> QED BY <2>3, <3>2 DEF Exchanges
  <2> QED BY <1>3, <2>1, <2>2, <2>3, Situations DEF Exchanges
<1>7. From(p) \in Nat /\ Ops(p, q) \in Nat \ {0} /\ next[p] \in Peers(p)
  BY <1>6, TurnIs
<1>8. PICK x : InTurn(p, q, x)
  BY <1>6, TurnIs
<1> DEFINE t == From(p) + Ops(p, q) + 1
<1>9. Turn(p, q, x, From(p), t) /\ Working(p, q, x, From(p), t)
  BY <1>2, <1>8 DEF InTurn
<1>10. Empty(p, q) /\ job[p][q] = J(p) /\ step[p][q] \in From(p) + 1 .. t - 2
  BY <1>5, <1>9
<1>11. ~ (next[p] > q)
  BY <1>2, <1>7 DEF Peers, Parties
<1>12. Part(p, q) = step[p][q] - From(p)
  BY <1>10, <1>11 DEF Part, Empty
<1>13. Part(p, q) \in 1 .. Ops(p, q) - 1 /\ step[p][q] = From(p) + Part(p, q)
  BY <1>7, <1>10, <1>12
<1> QED BY <1>2, <1>6, <1>10, <1>13 DEF AtWork, Empty

(* While main is at one operation, what is said of its place stays.         *)
LEMMA SamePlace ==
  ASSUME NEW p, NEW q, program' = program, call'[p] = call[p], at'[p] = at[p]
  PROVE  /\ Exchanges(p)' = Exchanges(p) /\ From(p)' = From(p) /\ Ops(p, q)' = Ops(p, q)
         /\ SentBefore(p)' = SentBefore(p) /\ ReadBefore(p, q)' = ReadBefore(p, q)
         /\ Drawn(p)' = Drawn(p) /\ Round(p)' = Round(p) /\ Place(p)' = Place(p)
         /\ \A n : SentAt(p, n)' = SentAt(p, n) /\ ReadAt(p, n)' = ReadAt(p, n)
         /\ Op(p)' = Op(p) /\ MainScript(p)' = MainScript(p)
<1>1. /\ J(p)' = J(p) /\ InTriples(p)' = InTriples(p) /\ InOwnInputs(p)' = InOwnInputs(p)
      /\ InInputsOf(p)' = InInputsOf(p) /\ Length(p, q)' = Length(p, q)
  BY SameCall
<1>2. Round(p)' = Round(p) /\ Place(p)' = Place(p)
  BY DEF Round, Place
<1>3. MainScript(p)' = MainScript(p)
  BY DEF MainScript, TriplesScript, InputsScript
<1>4. Op(p)' = Op(p)
  BY <1>3 DEF Op
<1>5. SentBefore(p)' = SentBefore(p)
  BY <1>1, <1>2 DEF SentBefore
<1>6. ReadBefore(p, q)' = ReadBefore(p, q)
  BY <1>1, <1>5 DEF ReadBefore
<1>7. Exchanges(p)' = Exchanges(p) /\ From(p)' = From(p) /\ Ops(p, q)' = Ops(p, q)
  BY <1>1, <1>2 DEF Exchanges, From, Ops
<1>8. Drawn(p)' = Drawn(p)
  BY <1>1, <1>2 DEF Drawn
<1>9. \A n : SentAt(p, n)' = SentAt(p, n) /\ ReadAt(p, n)' = ReadAt(p, n)
  BY <1>1 DEF SentAt, ReadAt
<1> QED BY <1>2, <1>3, <1>4, <1>5, <1>6, <1>7, <1>8, <1>9

(* A step in a turn: it takes the job or go, or answers, and is no further, *)
(* or sends or receives, and is.                                            *)
Quiet(p, q) == /\ Part(p, q)' = Part(p, q) /\ chan' = chan
               /\ \/ Part(p, q) = 1 /\ result' = [result EXCEPT ![p][q] = {}]
                  \/ inbox[p][q] = <<>> /\ result' = result

Active(p, q) == /\ Part(p, q) \in 1 .. Ops(p, q) - 1 /\ AtWork(p, q, Part(p, q))
                /\ Part(p, q)' = Part(p, q) + 1 /\ inbox'[p][q] = <<>>
                /\ Send(p, q) \/ Receive(p, q)

(* A step in a turn is of one of the two kinds.                             *)
LEMMA TurnMove ==
  ASSUME IInv, NEW p \in Parties, NEW q \in Peers(p), Exchanges(p), MultiplierStep(p, q)
  PROVE  Quiet(p, q) \/ Active(p, q)
<1> USE SizeAssumption
<1>1. /\ ProgramOK /\ ShapeOK /\ MainOK(p) /\ PairOK(p, q) /\ call[p] \in 0 .. Len(program)
      /\ running[p][q] /\ next[p] \in Peers(p) /\ From(p) \in Nat /\ Ops(p, q) \in Nat \ {0}
      /\ J(p) # Idle /\ J(p) # Over
  BY TurnIs, JobIs DEF IInv
<1>2. /\ call' = call /\ at' = at /\ next' = next /\ program' = program
      /\ From(p)' = From(p) /\ Ops(p, q)' = Ops(p, q)
  BY <1>1, MultiplierLeaves, SamePlace
<1>3. PICK x : InTurn(p, q, x)
  BY TurnIs
<1> DEFINE s == From(p)
           t == From(p) + Ops(p, q) + 1
<1>4. Turn(p, q, x, s, t)
  BY <1>3 DEF InTurn
<1>5. Length(p, q) \in Nat \ {0} /\ s + 1 <= Length(p, q) /\ t <= Length(p, q) + 1
  BY <1>1, <1>4, LengthIs DEF Turn
<1>6. CASE Does(p, q, "send") \/ Does(p, q, "receive")
  <2>1. Part(p, q) \in 1 .. Ops(p, q) - 1 /\ AtWork(p, q, Part(p, q))
    BY <1>6, Doing
  <2>2. Send(p, q) \/ Receive(p, q)
    <3>1. ~ Does(p, q, "pop") /\ ~ Does(p, q, "answer")
      BY <1>6 DEF Does
    <3> QED BY <1>1, <2>1, <3>1 DEF MultiplierStep, TakeJob, End, TakeGo, PushAnswer, AtWork
  <2>3. /\ inbox'[p][q] = <<>> /\ outbox'[p][q] = <<>> /\ StepOn(p, q)
    BY <2>1, <2>2 DEF Send, Receive, AtWork
  <2>4. step[p][q] < Len(MultiplierScript(p, q))
    <3>1. Len(MultiplierScript(p, q)) = Length(p, q)
      BY <1>1, <2>1, ScriptIs DEF AtWork
    <3> QED BY <1>1, <1>5, <2>1, <3>1 DEF AtWork
  <2>5. step'[p][q] = step[p][q] + 1
    BY <1>1, <2>3, <2>4 DEF StepOn, ShapeOK
  <2>6. ~ (next[p] > q)
    BY <1>1, <2>1 DEF AtWork, Peers, Parties
  <2>7. Part(p, q)' = step'[p][q] - From(p)
    BY <1>2, <2>3, <2>6 DEF Part
  <2>8. Part(p, q)' = Part(p, q) + 1
    BY <1>1, <2>1, <2>5, <2>7 DEF AtWork
  <2> QED BY <2>1, <2>2, <2>3, <2>8 DEF Active
<1>7. CASE ~ (Does(p, q, "send") \/ Does(p, q, "receive"))
  <2>1. TakeJob(p, q) \/ TakeGo(p, q) \/ PushAnswer(p, q)
    BY <1>1, <1>7 DEF MultiplierStep, End, Send, Receive
  <2>2. chan' = chan
    BY <2>1 DEF TakeJob, TakeGo, PushAnswer
  <2>3. CASE inbox[p][q] # <<>>
    <3>1. Part(p, q) = 1
      BY <2>3 DEF Part
    <3>2. CASE inbox[p][q] = <<J(p), Go>> /\ outbox[p][q] = <<>> /\ job[p][q] = Idle
      <4>1. TakeJob(p, q)
        BY <2>1, <3>2, IdleDoes DEF TakeGo, PushAnswer
      <4>2. inbox'[p][q] = <<Go>> /\ result' = [result EXCEPT ![p][q] = {}]
        BY <1>1, <3>2, <4>1, QueueFacts DEF TakeJob, ShapeOK
      <4>3. Part(p, q)' = 1
        BY <4>2, QueueFacts DEF Part
      <4> QED BY <2>2, <3>1, <4>2, <4>3 DEF Quiet
    <3>3. CASE ~ (inbox[p][q] = <<J(p), Go>> /\ outbox[p][q] = <<>> /\ job[p][q] = Idle)
      <4>1. Working(p, q, x, s, t)
        BY <1>3, <3>3 DEF InTurn
      <4>2. next[p] <= q /\ inbox[p][q] = <<x>> /\ outbox[p][q] = <<>> /\ Stands(p, q, s)
        BY <2>3, <4>1 DEF Working, Works, Waits, Empty
      <4>3. /\ inbox'[p][q] = <<>> /\ outbox'[p][q] = <<>> /\ step'[p][q] = s + 1
            /\ result' = [result EXCEPT ![p][q] = {}]
        <5>1. CASE s = 0
          <6>1. job[p][q] = Idle
            BY <4>2, <5>1 DEF Stands
          <6>2. TakeJob(p, q)
            BY <2>1, <6>1, IdleDoes DEF TakeGo, PushAnswer
          <6> QED BY <1>1, <4>2, <5>1, <6>2, QueueFacts DEF TakeJob, ShapeOK
        <5>2. CASE s # 0
          <6>1. s \in 1 .. Length(p, q) /\ s \in Pops(p, q) /\ job[p][q] = J(p) /\ step[p][q] = s
            BY <1>1, <1>4, <1>5, <4>2, <5>2 DEF Stands, Turn
          <6>2. TakeGo(p, q) /\ s < Len(MultiplierScript(p, q))
            BY <1>1, <1>5, <2>1, <6>1, ScriptIs DEF TakeJob, PushAnswer, Does
          <6>3. inbox'[p][q] = <<>> /\ outbox'[p][q] = <<>> /\ result' = [result EXCEPT ![p][q] = {}]
            BY <1>1, <4>2, <6>2, QueueFacts DEF TakeGo, ShapeOK
          <6>4. step'[p][q] = s + 1
            BY <1>1, <6>1, <6>2 DEF TakeGo, StepOn, ShapeOK
          <6> QED BY <6>3, <6>4
        <5> QED BY <5>1, <5>2
      <4>4. ~ (next[p] > q)
        BY <1>1, <4>2 DEF Peers, Parties
      <4>5. Part(p, q)' = step'[p][q] - From(p)
        BY <1>2, <4>3, <4>4 DEF Part
      <4>6. Part(p, q)' = 1
        BY <1>1, <4>3, <4>5
      <4> QED BY <2>2, <3>1, <4>3, <4>6 DEF Quiet
    <3> QED BY <3>2, <3>3
  <2>4. CASE inbox[p][q] = <<>>
    <3>1. Working(p, q, x, s, t)
      BY <1>3, <2>4, QueueFacts DEF InTurn
    <3>2. next[p] <= q
      <4>1. t \in 1 .. Length(p, q) => t \in Pops(p, q)
        BY <1>4 DEF Turn
      <4>2. ~ Waits(p, q, t)
        BY <1>1, <4>1, WaitStep
      <4> QED BY <3>1, <4>2 DEF Working
    <3>3. ~ (next[p] > q)
      BY <1>1, <3>2 DEF Peers, Parties
    <3>4. ~ (outbox[p][q] = <<J(p)>> /\ Stands(p, q, t))
      <4>1. t \in 1 .. Length(p, q) => t \in Pops(p, q)
        BY <1>4 DEF Turn
      <4> QED BY <1>1, <2>1, <2>4, <4>1, ScriptIs, IdleDoes DEF Stands, TakeJob, TakeGo, PushAnswer, Does
    <3>5. Empty(p, q) /\ job[p][q] = J(p) /\ step[p][q] \in s + 1 .. t - 1
      BY <2>4, <3>1, <3>2, <3>4, QueueFacts DEF Working, Works
    <3>6. step[p][q] \notin Pops(p, q)
      <4>1. CASE step[p][q] = t - 1
        <5>1. t - 1 \in Answers(p, q) /\ t - 1 \in 1 .. Length(p, q)
          BY <1>1, <1>4, <1>5 DEF Turn
        <5> QED BY <1>1, <3>5, <4>1, <5>1, ScriptIs
      <4>2. CASE step[p][q] # t - 1
        <5>1. step[p][q] \in s + 1 .. t - 2
          BY <1>1, <3>5, <4>2
        <5> QED BY <1>4, <5>1 DEF Turn
      <4> QED BY <4>1, <4>2
    <3>7. PushAnswer(p, q) /\ step[p][q] \in Answers(p, q)
      <4>1. step[p][q] \in 1 .. Length(p, q)
        BY <1>1, <1>5, <3>5
      <4> QED BY <1>1, <2>1, <3>5, <3>6, <4>1, ScriptIs DEF TakeJob, TakeGo, PushAnswer, Does
    <3>8. step[p][q] = t - 1
      <4>1. step[p][q] \notin s + 1 .. t - 2
        BY <1>4, <3>7 DEF Turn
      <4> QED BY <1>1, <3>5, <4>1, SMTT(30)
    <3>9. Part(p, q) = Ops(p, q)
      <4>1. Part(p, q) = step[p][q] - From(p)
        BY <2>4, <3>3, <3>5 DEF Part, Empty
      <4> QED BY <1>1, <3>8, <4>1
    <3>10. inbox'[p][q] = <<>> /\ outbox'[p][q] = <<J(p)>> /\ result' = result
      BY <1>1, <2>4, <3>5, <3>7, QueueFacts DEF PushAnswer, ShapeOK, Empty
    <3>11. Part(p, q)' = Ops(p, q)
      BY <1>2, <3>10, QueueFacts DEF Part
    <3> QED BY <2>2, <2>4, <3>9, <3>10, <3>11 DEF Quiet
  <2> QED BY <2>3, <2>4
<1> QED BY <1>6, <1>7

-----------------------------------------------------------------------------
(* How much of its stream p has sent to q, and of that of q it has read,    *)
(* since the start.                                                         *)
TurnSent(p, q) == IF Exchanges(p) THEN SentAt(p, Part(p, q)) ELSE 0
TurnRead(p, q) == IF Exchanges(p) THEN ReadAt(p, Part(p, q)) ELSE 0
Talked(p)      == IF heard[p] = {} THEN 0 ELSE 1
HeardOf(p, q)  == IF q \in heard[p] THEN 1 ELSE 0

SentIn(p, q) == SentBefore(p) + Talked(p) + TurnSent(p, q)
ReadIn(p, q) == ReadBefore(p, q) + HeardOf(p, q) + TurnRead(p, q)

Sent(p, q) == Base(p)[call[p]] + SentIn(p, q)
Read(p, q) == Base(q)[call[p]] + ReadIn(p, q)

(* The rest is under way.                                                   *)
Linked(p, q) == /\ Read(q, p) <= Sent(p, q)
                /\ chan[p][q] = Slice(Stream(p), Read(q, p), Sent(p, q))

(* In an exchange of its own, main sends first.                             *)
HeardOK(p) == /\ heard[p] \subseteq Parties
              /\ heard[p] # {} => Op(p) = "talk" /\ p \in heard[p]

(* After the turn main has the results and has not drawn other bits; it     *)
(* adds them up and talks about the sums.                                   *)
After(p, q) == \/ InTriples(p) /\ at[p] >= 5 /\ Place(p) \in {3, 8}
               \/ InOwnInputs(p) /\ at[p] \in {6, 7}
               \/ InInputsOf(p) /\ at[p] \in {4, 5} /\ J(p).player = q

Combined(p) == \/ InTriples(p) /\ at[p] >= 5 /\ Place(p) \in {4, 9}
               \/ InOwnInputs(p) /\ at[p] = 8
               \/ InInputsOf(p) /\ at[p] = 6

(* A multiplier's results are the bits last drawn, from its first message   *)
(* on; then main has them.                                                  *)
ResultOK(p, q) ==
  /\ Exchanges(p) /\ inbox[p][q] = <<>> /\ Part(p, q) = 1 => result[p][q] = {}
  /\ Exchanges(p) /\ Part(p, q) # 1 => result[p][q] = {Drawn(p)}
  /\ After(p, q) => result[p][q] = {Drawn(p)}

UsedOK(p) == Combined(p) => used[p] = {Drawn(p)}

DataShape == /\ DOMAIN heard = Parties /\ DOMAIN valueBits = Parties /\ DOMAIN used = Parties
             /\ DOMAIN result = Parties /\ DOMAIN chan = Parties
             /\ \A p \in Parties : DOMAIN result[p] = Peers(p) /\ DOMAIN chan[p] = Peers(p)

(* The inductive invariant of the connections and the bits: it relates the  *)
(* threads of the parties at the two ends.                                  *)
CInv == /\ IInv /\ DataShape
        /\ \A p \in Parties : /\ BitsOK(p) /\ UsedOK(p) /\ HeardOK(p)
                              /\ \A q \in Peers(p) : Linked(p, q) /\ ResultOK(p, q)

(* How far a multiplier in a turn is.                                       *)
LEMMA PartIs ==
  ASSUME IInv, NEW p \in Parties, NEW q \in Peers(p), Exchanges(p)
  PROVE  /\ Part(p, q) \in 1 .. Ops(p, q)
         /\ outbox[p][q] # <<>> => inbox[p][q] = <<>> /\ Part(p, q) = Ops(p, q)
         /\ next[p] > q => inbox[p][q] = <<>> /\ Part(p, q) = Ops(p, q)
<1>1. From(p) \in Nat /\ Ops(p, q) \in Nat \ {0} /\ next[p] \in Peers(p)
  BY TurnIs
<1>2. PICK x : InTurn(p, q, x)
  BY TurnIs
<1>3. next[p] > q <=> ~ (next[p] <= q)
  BY <1>1, SizeAssumption DEF Peers, Parties
<1>4. outbox[p][q] # <<>> \/ next[p] > q => inbox[p][q] = <<>>
  BY <1>2, <1>3, QueueFacts DEF InTurn, Working, Works, Waits, Empty
<1>5. CASE inbox[p][q] # <<>>
  BY <1>1, <1>4, <1>5 DEF Part
<1>6. CASE inbox[p][q] = <<>> /\ (next[p] > q \/ outbox[p][q] # <<>>)
  BY <1>1, <1>4, <1>6 DEF Part
<1>7. CASE inbox[p][q] = <<>> /\ ~ (next[p] > q) /\ outbox[p][q] = <<>>
  <2>1. step[p][q] \in From(p) + 1 .. (From(p) + Ops(p, q) + 1) - 1
    BY <1>2, <1>3, <1>7, QueueFacts DEF InTurn, Working, Works
  <2>2. Part(p, q) = step[p][q] - From(p)
    BY <1>7 DEF Part
  <2> QED BY <1>1, <1>7, <2>1, <2>2
<1> QED BY <1>5, <1>6, <1>7

(* The counts are numbers.                                                  *)
LEMMA BeforeIs ==
  ASSUME IInv, NEW p \in Parties, NEW q \in Peers(p)
  PROVE  SentBefore(p) \in Nat /\ ReadBefore(p, q) \in Nat
<1> USE SizeAssumption
<1>1. SentBefore(p) \in Nat
  <2>1. CASE InTriples(p)
    <3>1. at[p] \in Nat
      <4>1. \A r \in 0 .. Loops - 1, k \in 0 .. 9 : 5 + 10 * r + k \in Nat
        OBVIOUS
      <4> QED BY <2>1, <4>1, Situations
    <3>2. at[p] >= 5 => Round(p) \in Nat /\ Place(p) \in 0 .. 9
      BY <3>1 DEF Round, Place, RoundOf, PlaceOf
    <3> QED BY <2>1, <3>1, <3>2 DEF SentBefore, InRound
  <2>2. CASE ~ InTriples(p)
    BY <2>2 DEF SentBefore
  <2> QED BY <2>1, <2>2
<1>2. ReadBefore(p, q) \in Nat
  BY <1>1 DEF ReadBefore
<1> QED BY <1>1, <1>2

(* So are what has been sent and read.                                      *)
LEMMA CountsAre ==
  ASSUME IInv, NEW p \in Parties, NEW q \in Peers(p)
  PROVE  /\ TurnSent(p, q) \in Nat /\ TurnRead(p, q) \in Nat
         /\ SentIn(p, q) \in Nat /\ ReadIn(p, q) \in Nat
         /\ Sent(p, q) \in Nat /\ Read(p, q) \in Nat
<1>1. TurnSent(p, q) \in Nat /\ TurnRead(p, q) \in Nat
  <2>1. CASE Exchanges(p)
    <3>1. Part(p, q) \in Nat \ {0}
      BY <2>1, PartIs, TurnIs
    <3> QED BY <2>1, <3>1 DEF TurnSent, TurnRead, SentAt, ReadAt
  <2>2. CASE ~ Exchanges(p)
    BY <2>2 DEF TurnSent, TurnRead
  <2> QED BY <2>1, <2>2
<1>2. SentIn(p, q) \in Nat /\ ReadIn(p, q) \in Nat
  BY <1>1, BeforeIs DEF SentIn, ReadIn, Talked, HeardOf
<1>3. Base(p)[call[p]] \in Nat /\ Base(q)[call[p]] \in Nat
  BY Situations, BaseIs
<1> QED BY <1>1, <1>2, <1>3 DEF Sent, Read

(* The streams depend on the program only.                                  *)
LEMMA StreamSame ==
  ASSUME NEW p, program' = program
  PROVE  Base(p)' = Base(p) /\ Stream(p)' = Stream(p)
<1>1. \A c, i : Total(p, c)' = Total(p, c) /\ Said(p, c, i)' = Said(p, c, i)
  BY DEF Total, Said, SaidInRound, Bits, Word
<1>2. Totals(p)' = Totals(p)
  BY <1>1 DEF Totals
<1>3. Base(p)' = Base(p)
  BY <1>2 DEF Base
<1> QED BY <1>1, <1>3 DEF Stream

(* Nothing is sent or read.                                                 *)
LEMMA LinkedSame ==
  ASSUME NEW p, NEW q, Linked(p, q), program' = program, chan'[p][q] = chan[p][q],
         Sent(p, q)' = Sent(p, q), Read(q, p)' = Read(q, p)
  PROVE  Linked(p, q)'
BY StreamSame DEF Linked, Slice

(* What is next is sent.                                                    *)
LEMMA LinkedSend ==
  ASSUME IInv, NEW p \in Parties, NEW q \in Peers(p), Linked(p, q), program' = program,
         NEW i \in 1 .. Total(p, call[p]), i = SentIn(p, q) + 1, call[p] \in 0 .. Len(program),
         chan'[p][q] = Append(chan[p][q], Said(p, call[p], i)),
         Sent(p, q)' = Sent(p, q) + 1, Read(q, p)' = Read(q, p)
  PROVE  Linked(p, q)'
<1>1. Sent(p, q) \in Nat /\ Read(q, p) \in Nat /\ SentIn(p, q) \in Nat /\ ProgramOK
  <2>1. q \in Parties /\ p \in Peers(q)
    BY DEF Peers
  <2> QED BY <2>1, CountsAre DEF IInv
<1>2. Said(p, call[p], i) = Stream(p)[Sent(p, q) + 1]
  <2>1. Stream(p)[Base(p)[call[p]] + i] = Said(p, call[p], i)
    BY <1>1, StreamIs
  <2>2. Base(p)[call[p]] \in Nat
    BY <1>1, BaseIs
  <2>3. Base(p)[call[p]] + i = Sent(p, q) + 1
    <3>1. \A b, n \in Nat : b + (n + 1) = (b + n) + 1
      OBVIOUS
    <3> QED BY <1>1, <2>2, <3>1 DEF Sent
  <2> QED BY <2>1, <2>3
<1>3. chan'[p][q] = Slice(Stream(p), Read(q, p), Sent(p, q) + 1)
  <2>1. Append(Slice(Stream(p), Read(q, p), Sent(p, q)), Stream(p)[Sent(p, q) + 1])
           = Slice(Stream(p), Read(q, p), Sent(p, q) + 1)
    BY <1>1, SliceIs DEF Linked
  <2> QED BY <1>2, <2>1 DEF Linked
<1>4. Read(q, p) <= Sent(p, q) + 1
  BY <1>1 DEF Linked
<1> QED BY <1>3, <1>4, StreamSame DEF Linked, Slice

(* What is next is read.                                                    *)
LEMMA LinkedRead ==
  ASSUME IInv, NEW p \in Parties, NEW q \in Peers(p), Linked(p, q), chan[p][q] # <<>>
  PROVE  /\ /\ program' = program /\ chan'[p][q] = Tail(chan[p][q])
            /\ Sent(p, q)' = Sent(p, q) /\ Read(q, p)' = Read(q, p) + 1
            => Linked(p, q)'
         /\ ReadIn(q, p) + 1 \in 1 .. Total(p, call[q]) /\ call[q] \in 0 .. Len(program) =>
              Head(chan[p][q]) = Said(p, call[q], ReadIn(q, p) + 1)
<1>1. Sent(p, q) \in Nat /\ Read(q, p) \in Nat /\ ReadIn(q, p) \in Nat /\ ProgramOK
  <2>1. q \in Parties /\ p \in Peers(q)
    BY DEF Peers
  <2> QED BY <2>1, CountsAre DEF IInv
<1>2. /\ Read(q, p) + 1 <= Sent(p, q) /\ Head(chan[p][q]) = Stream(p)[Read(q, p) + 1]
      /\ Tail(chan[p][q]) = Slice(Stream(p), Read(q, p) + 1, Sent(p, q))
  <2>1. chan[p][q] = Slice(Stream(p), Read(q, p), Sent(p, q)) /\ Read(q, p) <= Sent(p, q)
    BY DEF Linked
  <2>2. Slice(Stream(p), Read(q, p), Sent(p, q)) # <<>>
    BY <2>1
  <2>3. /\ Read(q, p) + 1 <= Sent(p, q)
        /\ Head(Slice(Stream(p), Read(q, p), Sent(p, q))) = Stream(p)[Read(q, p) + 1]
        /\ Tail(Slice(Stream(p), Read(q, p), Sent(p, q))) = Slice(Stream(p), Read(q, p) + 1, Sent(p, q))
    <3>1. PICK a \in Nat, b \in Nat : a = Read(q, p) /\ b = Sent(p, q)
      BY <1>1
    <3>2. PICK f : f = Stream(p)
      OBVIOUS
    <3>3. a <= b /\ Slice(f, a, b) # <<>>
      BY <2>1, <2>2, <3>1, <3>2
    <3>4. /\ a + 1 <= b /\ Head(Slice(f, a, b)) = f[a + 1]
          /\ Tail(Slice(f, a, b)) = Slice(f, a + 1, b)
      BY <3>3, SliceIs
    <3> QED BY <3>1, <3>2, <3>4
  <2> QED BY <2>1, <2>3
<1>3. ASSUME program' = program, chan'[p][q] = Tail(chan[p][q]), Sent(p, q)' = Sent(p, q),
             Read(q, p)' = Read(q, p) + 1
      PROVE  Linked(p, q)'
  BY <1>2, <1>3, StreamSame DEF Linked, Slice
<1>4. ASSUME ReadIn(q, p) + 1 \in 1 .. Total(p, call[q]), call[q] \in 0 .. Len(program)
      PROVE  Head(chan[p][q]) = Said(p, call[q], ReadIn(q, p) + 1)
  <2>1. Stream(p)[Base(p)[call[q]] + (ReadIn(q, p) + 1)] = Said(p, call[q], ReadIn(q, p) + 1)
    BY <1>1, <1>4, StreamIs
  <2>2. Base(p)[call[q]] \in Nat
    BY <1>1, <1>4, BaseIs
  <2>3. Base(p)[call[q]] + (ReadIn(q, p) + 1) = Read(q, p) + 1
    BY <1>1, <2>2 DEF Read
  <2> QED BY <1>2, <2>1, <2>3
<1> QED BY <1>3, <1>4

-----------------------------------------------------------------------------
(* A step of another thread.  What it leaves alone of main, and of main and *)
(* the multiplier for q.                                                    *)
Still(p) == /\ call'[p] = call[p] /\ at'[p] = at[p] /\ heard'[p] = heard[p]
            /\ valueBits'[p] = valueBits[p] /\ used'[p] = used[p]

StillPair(p, q) == /\ next'[p] = next[p] /\ inbox'[p][q] = inbox[p][q]
                   /\ outbox'[p][q] = outbox[p][q] /\ step'[p][q] = step[p][q]
                   /\ result'[p][q] = result[p][q]

(* Nothing of main has changed.                                             *)
LEMMA MainStill ==
  ASSUME NEW p, program' = program, Still(p)
  PROVE  /\ BitsOK(p) => BitsOK(p)'
         /\ UsedOK(p) => UsedOK(p)'
         /\ HeardOK(p) => HeardOK(p)'
         /\ \A q : After(p, q)' = After(p, q)
<1>1. /\ InTriples(p)' = InTriples(p) /\ InOwnInputs(p)' = InOwnInputs(p)
      /\ InInputsOf(p)' = InInputsOf(p) /\ J(p)' = J(p)
  BY SameCall DEF Still
<1>2. /\ call'[p] = call[p] /\ at'[p] = at[p] /\ Drawn(p)' = Drawn(p) /\ Place(p)' = Place(p)
      /\ Op(p)' = Op(p)
  BY SamePlace DEF Still
<1>3. BitsOK(p) => BitsOK(p)'
  BY <1>1, <1>2 DEF BitsOK, Still
<1>4. UsedOK(p) => UsedOK(p)'
  BY <1>1, <1>2 DEF UsedOK, Combined, Still
<1>5. HeardOK(p) => HeardOK(p)'
  BY <1>2 DEF HeardOK, Still
<1>6. \A q : After(p, q)' = After(p, q)
  BY <1>1, <1>2 DEF After
<1> QED BY <1>3, <1>4, <1>5, <1>6

(* A step that leaves main where it is counts by the part of the turn.      *)
LEMMA CountsSame ==
  ASSUME NEW p, NEW q, program' = program, Still(p), NEW n, NEW m,
         Exchanges(p) => Part(p, q) = n /\ Part(p, q)' = m
  PROVE  /\ Exchanges(p)' = Exchanges(p) /\ Base(p)' = Base(p) /\ Base(q)' = Base(q)
         /\ Exchanges(p) => /\ TurnSent(p, q) = SentAt(p, n) /\ TurnSent(p, q)' = SentAt(p, m)
                            /\ TurnRead(p, q) = ReadAt(p, n) /\ TurnRead(p, q)' = ReadAt(p, m)
         /\ ~ Exchanges(p) => /\ TurnSent(p, q) = 0 /\ TurnSent(p, q)' = 0
                              /\ TurnRead(p, q) = 0 /\ TurnRead(p, q)' = 0
         /\ TurnSent(p, q)' = TurnSent(p, q) => SentIn(p, q)' = SentIn(p, q) /\ Sent(p, q)' = Sent(p, q)
         /\ TurnRead(p, q)' = TurnRead(p, q) => ReadIn(p, q)' = ReadIn(p, q) /\ Read(p, q)' = Read(p, q)
<1>1. /\ Exchanges(p)' = Exchanges(p) /\ SentBefore(p)' = SentBefore(p)
      /\ ReadBefore(p, q)' = ReadBefore(p, q) /\ call'[p] = call[p] /\ heard'[p] = heard[p]
      /\ SentAt(p, m)' = SentAt(p, m) /\ ReadAt(p, m)' = ReadAt(p, m)
  BY SamePlace DEF Still
<1>2. Base(p)' = Base(p) /\ Base(q)' = Base(q)
  BY StreamSame
<1>3. Talked(p)' = Talked(p) /\ HeardOf(p, q)' = HeardOf(p, q)
  BY <1>1 DEF Talked, HeardOf
<1>4. Exchanges(p) => /\ TurnSent(p, q) = SentAt(p, n) /\ TurnSent(p, q)' = SentAt(p, m)
                      /\ TurnRead(p, q) = ReadAt(p, n) /\ TurnRead(p, q)' = ReadAt(p, m)
  BY <1>1 DEF TurnSent, TurnRead
<1>5. ~ Exchanges(p) => /\ TurnSent(p, q) = 0 /\ TurnSent(p, q)' = 0
                        /\ TurnRead(p, q) = 0 /\ TurnRead(p, q)' = 0
  BY <1>1 DEF TurnSent, TurnRead
<1>6. TurnSent(p, q)' = TurnSent(p, q) => SentIn(p, q)' = SentIn(p, q) /\ Sent(p, q)' = Sent(p, q)
  BY <1>1, <1>2, <1>3 DEF SentIn, Sent
<1>7. TurnRead(p, q)' = TurnRead(p, q) => ReadIn(p, q)' = ReadIn(p, q) /\ Read(p, q)' = Read(p, q)
  BY <1>1, <1>2, <1>3 DEF ReadIn, Read
<1> QED BY <1>1, <1>2, <1>4, <1>5, <1>6, <1>7

(* Nothing of main and the multiplier has changed.                          *)
LEMMA PairStill ==
  ASSUME NEW p, NEW q, program' = program, Still(p), StillPair(p, q)
  PROVE  /\ Sent(p, q)' = Sent(p, q) /\ Read(p, q)' = Read(p, q)
         /\ Part(p, q)' = Part(p, q)
         /\ ResultOK(p, q) => ResultOK(p, q)'
<1>1. /\ Exchanges(p)' = Exchanges(p) /\ From(p)' = From(p) /\ Ops(p, q)' = Ops(p, q)
      /\ Drawn(p)' = Drawn(p)
  BY SamePlace DEF Still
<1>2. Part(p, q)' = Part(p, q)
  BY <1>1 DEF Part, StillPair
<1>3. PICK n : n = Part(p, q)
  OBVIOUS
<1>4. Exchanges(p) => Part(p, q) = n /\ Part(p, q)' = n
  BY <1>2, <1>3
<1>5. Sent(p, q)' = Sent(p, q) /\ Read(p, q)' = Read(p, q)
  <2>1. TurnSent(p, q)' = TurnSent(p, q) /\ TurnRead(p, q)' = TurnRead(p, q)
    BY <1>4, CountsSame
  <2> QED BY <1>4, <2>1, CountsSame
<1>6. After(p, q)' = After(p, q)
  BY MainStill
<1>7. ResultOK(p, q) => ResultOK(p, q)'
  BY <1>1, <1>2, <1>6 DEF ResultOK, StillPair
<1> QED BY <1>2, <1>5, <1>7

(* The data that the step of a multiplier leaves alone.                     *)
LEMMA MultiplierData ==
  ASSUME ShapeOK, DataShape, NEW p \in Parties, NEW q \in Peers(p), MultiplierStep(p, q)
  PROVE  /\ heard' = heard /\ valueBits' = valueBits /\ used' = used /\ DataShape'
         /\ \A o \in Parties : \A r \in Peers(o) : <<o, r>> # <<p, q>> =>
              result'[o][r] = result[o][r]
         /\ ~ Receive(p, q) => \A o \in Parties : \A r \in Peers(o) : <<o, r>> # <<p, q>> =>
              chan'[o][r] = chan[o][r]
         /\ ~ Send(p, q) => \A o \in Parties : \A r \in Peers(o) : <<o, r>> # <<q, p>> =>
              chan'[o][r] = chan[o][r]
         /\ ~ Send(p, q) /\ ~ Receive(p, q) => chan' = chan
<1> USE DEF DataShape
<1>1. q \in Parties /\ p \in Peers(q) /\ p # q
  BY DEF Peers
<1>2. CASE TakeJob(p, q)
  BY <1>2 DEF TakeJob, mains
<1>3. CASE End(p, q)
  BY <1>3 DEF End, mains
<1>4. CASE TakeGo(p, q)
  BY <1>4 DEF TakeGo, mains
<1>5. CASE Send(p, q)
  <2>1. heard' = heard /\ valueBits' = valueBits /\ used' = used /\ ~ Receive(p, q)
    BY <1>5 DEF Send, Receive, Does, mains
  <2>2. PICK w : result' = [result EXCEPT ![p][q] = w]
    BY <1>5 DEF Send
  <2>3. PICK s : chan' = [chan EXCEPT ![p][q] = s]
    BY <1>5 DEF Send
  <2> QED BY <1>1, <1>5, <2>1, <2>2, <2>3
<1>6. CASE Receive(p, q)
  <2>1. heard' = heard /\ valueBits' = valueBits /\ used' = used /\ ~ Send(p, q)
    BY <1>6 DEF Send, Receive, Does, mains
  <2>2. PICK w : result' = [result EXCEPT ![p][q] = w]
    BY <1>6 DEF Receive
  <2>3. PICK s : chan' = [chan EXCEPT ![q][p] = s]
    BY <1>6 DEF Receive
  <2> QED BY <1>1, <1>6, <2>1, <2>2, <2>3
<1>7. CASE PushAnswer(p, q)
  BY <1>7 DEF PushAnswer, mains
<1> QED BY <1>2, <1>3, <1>4, <1>5, <1>6, <1>7 DEF MultiplierStep

(* A turn is on, or its results are with main.                              *)
LEMMA NotAfter ==
  ASSUME ProgramOK, NEW p, NEW q, Exchanges(p)
  PROVE  ~ After(p, q)
BY OneKind DEF Exchanges, After

(* While main has the results, no multiplier takes a step.                  *)
LEMMA AfterRests ==
  ASSUME IInv, NEW p \in Parties, NEW q \in Peers(p), After(p, q)
  PROVE  ~ MultiplierStep(p, q)
<1> USE SizeAssumption
<1>1. ProgramOK /\ MainOK(p) /\ PairOK(p, q) /\ Len(program) \in Nat
  BY DEF IInv, ProgramOK
<1>2. call[p] \in 0 .. Len(program)
  BY <1>1, CallIs DEF After
<1>3. running[p][q]
  BY <1>1, <1>2 DEF MainOK
<1>4. CASE InTriples(p)
  <2>1. at[p] >= 5 /\ Place(p) \in {3, 8} /\ TriplesOK(p, q)
    BY <1>1, <1>4, OneKind DEF After, PairOK
  <2>2. at[p] # 5 + 10 * Loops /\ at[p] \notin 1 .. 4
    BY <2>1, PlaceAtEnd DEF Place
  <2>3. PICK r \in 0 .. Loops - 1, k \in 0 .. 9 : at[p] = 5 + 10 * r + k
    BY <1>4, <2>2, Situations
  <2>4. k \in {3, 8}
    <3>1. r \in Nat
      OBVIOUS
    <3> QED BY <2>1, <2>3, <3>1, PlaceIs DEF Place
  <2>5. RoundOK(p, q, r, k) /\ Turn(p, q, Go, 2 + 14 * r, 8 + 14 * r)
        /\ Turn(p, q, Go, 8 + 14 * r, 16 + 14 * r)
    BY <1>4, <2>1, <2>3, TurnsAre DEF TriplesOK
  <2>6. CASE k = 3
    <3>1. Waits(p, q, 8 + 14 * r) /\ (8 + 14 * r \in 1 .. Length(p, q) => 8 + 14 * r \in Pops(p, q))
      BY <2>5, <2>6 DEF RoundOK, Turn
    <3> QED BY <1>1, <1>2, <1>3, <3>1, WaitStep
  <2>7. CASE k = 8
    <3>1. Waits(p, q, 16 + 14 * r) /\ (16 + 14 * r \in 1 .. Length(p, q) => 16 + 14 * r \in Pops(p, q))
      BY <2>5, <2>7 DEF RoundOK, Turn
    <3> QED BY <1>1, <1>2, <1>3, <3>1, WaitStep
  <2> QED BY <2>4, <2>6, <2>7
<1>5. CASE ~ InTriples(p)
  <2>1. Waits(p, q, 0)
    BY <1>1, <1>5 DEF After, PairOK, OwnInputsOK, InputsOfOK
  <2>2. ~ (0 \in 1 .. Length(p, q))
    OBVIOUS
  <2> QED BY <1>1, <1>2, <1>3, <2>1, <2>2, WaitStep
<1> QED BY <1>4, <1>5

(* What a step of p's multiplier for q has to keep.                         *)
Kept(p, q) == Linked(p, q)' /\ Linked(q, p)' /\ ResultOK(p, q)'

(* A step in which nothing is sent or received.                             *)
LEMMA QuietStep ==
  ASSUME CInv, NEW p \in Parties, NEW q \in Peers(p), MultiplierStep(p, q),
         ~ Exchanges(p) \/ Quiet(p, q)
  PROVE  Kept(p, q)
<1>1. /\ IInv /\ ProgramOK /\ ShapeOK /\ DataShape /\ q \in Parties /\ p \in Peers(q) /\ p # q
      /\ Linked(p, q) /\ Linked(q, p) /\ ResultOK(p, q)
  BY DEF CInv, Peers, IInv
<1>2. program' = program /\ Still(p) /\ Still(q) /\ StillPair(q, p)
  <2>1. <<q, p>> # <<p, q>>
    BY <1>1
  <2> QED BY <1>1, <2>1, MultiplierLeaves, MultiplierData DEF Still, StillPair
<1>3. chan' = chan
  <2>1. CASE Exchanges(p)
    BY <2>1 DEF Quiet
  <2>2. CASE ~ Exchanges(p)
    <3>1. ~ Send(p, q) /\ ~ Receive(p, q)
      BY <1>1, <2>2, Doing DEF Send, Receive
    <3> QED BY <1>1, <3>1, MultiplierData
  <2> QED BY <2>1, <2>2
<1>4. PICK n : n = Part(p, q)
  OBVIOUS
<1>5. Exchanges(p) => Part(p, q) = n /\ Part(p, q)' = n
  BY <1>4 DEF Quiet
<1>6. Sent(p, q)' = Sent(p, q) /\ Read(p, q)' = Read(p, q) /\ Exchanges(p)' = Exchanges(p)
  <2>1. TurnSent(p, q)' = TurnSent(p, q) /\ TurnRead(p, q)' = TurnRead(p, q)
    BY <1>2, <1>5, CountsSame
  <2> QED BY <1>2, <1>5, <2>1, CountsSame
<1>7. Sent(q, p)' = Sent(q, p) /\ Read(q, p)' = Read(q, p)
  BY <1>2, PairStill
<1>8. Linked(p, q)' /\ Linked(q, p)'
  BY <1>1, <1>2, <1>3, <1>6, <1>7, LinkedSame
<1>9. ~ After(p, q) /\ ~ After(p, q)'
  <2>1. ~ After(p, q)
    BY <1>1, AfterRests
  <2> QED BY <1>2, <2>1, MainStill
<1>10. ResultOK(p, q)'
  <2>1. CASE ~ Exchanges(p)
    BY <1>6, <1>9, <2>1 DEF ResultOK
  <2>2. CASE Exchanges(p) /\ Part(p, q) = 1 /\ result' = [result EXCEPT ![p][q] = {}]
    <3>1. result'[p][q] = {}
      BY <1>1, <2>2 DEF DataShape
    <3>2. Part(p, q)' = 1
      BY <1>4, <1>5, <2>2
    <3> QED BY <1>9, <3>1, <3>2 DEF ResultOK
  <2>3. CASE Exchanges(p) /\ inbox[p][q] = <<>> /\ result' = result
    <3>1. Drawn(p)' = Drawn(p) /\ Part(p, q)' = Part(p, q)
      BY <1>2, <1>4, <1>5, <2>3, SamePlace DEF Still
    <3> QED BY <1>1, <1>6, <1>9, <2>3, <3>1 DEF ResultOK
  <2> QED BY <2>1, <2>2, <2>3 DEF Quiet
<1> QED BY <1>8, <1>10 DEF Kept

(* What is there when a multiplier sends or expects a message: the n-th     *)
(* operation of its turn, o.                                                *)
LEMMA ActiveIs ==
  ASSUME CInv, NEW p \in Parties, NEW q \in Peers(p), Exchanges(p),
         NEW n, n = Part(p, q), n \in 1 .. Ops(p, q) - 1, AtWork(p, q, n),
         NEW o, o = MultiplierScript(p, q)[step[p][q]]
  PROVE  /\ TurnSends(p, n, o) \/ TurnReads(p, q, n, o)
         /\ n \in Nat /\ n # 0 /\ heard[p] = {} /\ call[p] \in 0 .. Len(program)
         /\ SentIn(p, q) = SentBefore(p) + SentAt(p, n) /\ ReadIn(p, q) = ReadBefore(p, q) + ReadAt(p, n)
         /\ result[p][q] \in {{}, {Drawn(p)}}
<1>1. IInv /\ BitsOK(p) /\ HeardOK(p) /\ ResultOK(p, q)
  BY DEF CInv
<1>2. Op(p) = "collect" /\ call[p] \in 0 .. Len(program) /\ Ops(p, q) \in Nat
  BY <1>1, TurnIs
<1>3. n \in Nat /\ n # 0
  BY <1>2
<1>4. heard[p] = {}
  BY <1>1, <1>2 DEF HeardOK
<1>5. TurnSends(p, n, o) \/ TurnReads(p, q, n, o)
  BY <1>1, TurnOp DEF AtWork
<1>6. TurnSent(p, q) = SentAt(p, n) /\ TurnRead(p, q) = ReadAt(p, n)
  BY DEF TurnSent, TurnRead
<1>7. SentIn(p, q) = SentBefore(p) + SentAt(p, n) /\ ReadIn(p, q) = ReadBefore(p, q) + ReadAt(p, n)
  <2>1. Talked(p) = 0 /\ HeardOf(p, q) = 0
    BY <1>4 DEF Talked, HeardOf
  <2>2. SentBefore(p) \in Nat /\ ReadBefore(p, q) \in Nat
    BY <1>1, BeforeIs
  <2> QED BY <1>6, <2>1, <2>2 DEF SentIn, ReadIn
<1>8. result[p][q] \in {{}, {Drawn(p)}}
  BY <1>1 DEF ResultOK, AtWork
<1> QED BY <1>2, <1>3, <1>4, <1>5, <1>7, <1>8

(* correlate sends.                                                         *)
LEMMA SendStep ==
  ASSUME CInv, NEW p \in Parties, NEW q \in Peers(p), Exchanges(p), MultiplierStep(p, q),
         Active(p, q), Send(p, q)
  PROVE  Kept(p, q)
<1>1. /\ IInv /\ ProgramOK /\ ShapeOK /\ DataShape /\ q \in Parties /\ p \in Peers(q) /\ p # q
      /\ Linked(p, q) /\ Linked(q, p) /\ ResultOK(p, q)
  BY DEF CInv, Peers, IInv
<1>2. program' = program /\ Still(p) /\ Still(q) /\ StillPair(q, p)
  <2>1. <<q, p>> # <<p, q>>
    BY <1>1
  <2> QED BY <1>1, <2>1, MultiplierLeaves, MultiplierData DEF Still, StillPair
<1>3. PICK n : n = Part(p, q)
  OBVIOUS
<1>4. PICK o : o = MultiplierScript(p, q)[step[p][q]]
  OBVIOUS
<1>5. n \in 1 .. Ops(p, q) - 1 /\ AtWork(p, q, n)
  BY <1>3 DEF Active
<1>6. /\ TurnSends(p, n, o) \/ TurnReads(p, q, n, o)
      /\ n \in Nat /\ n # 0 /\ heard[p] = {} /\ call[p] \in 0 .. Len(program)
      /\ SentIn(p, q) = SentBefore(p) + SentAt(p, n) /\ ReadIn(p, q) = ReadBefore(p, q) + ReadAt(p, n)
      /\ result[p][q] \in {{}, {Drawn(p)}}
  BY <1>3, <1>4, <1>5, ActiveIs
<1>7. TurnSends(p, n, o)
  BY <1>4, <1>6 DEF TurnReads, Send, Does
<1>8. Vector(p, q) = o[2] /\ BitsFor(p, q) = Drawn(p)
  BY <1>4, <1>7 DEF Vector, BitsFor, Bit, TurnSends
<1>9. /\ chan' = [chan EXCEPT ![p][q] = Append(@, Message("ot", <<o[2], Drawn(p)>>))]
      /\ result' = [result EXCEPT ![p][q] = @ \cup {Drawn(p)}]
  BY <1>8 DEF Send
<1>10. /\ chan'[p][q] = Append(chan[p][q], Message("ot", <<o[2], Drawn(p)>>))
       /\ chan'[q][p] = chan[q][p] /\ result'[p][q] = {Drawn(p)}
  BY <1>1, <1>6, <1>9 DEF DataShape
<1>11. PICK m : m = n + 1
  OBVIOUS
<1>12. /\ Exchanges(p) => Part(p, q) = n /\ Part(p, q)' = m
       /\ SentAt(p, m) = SentAt(p, n) + 1 /\ ReadAt(p, m) = ReadAt(p, n) /\ m # 1
  BY <1>3, <1>6, <1>7, <1>11 DEF Active, TurnSends
<1>13. TurnSent(p, q)' = TurnSent(p, q) + 1 /\ TurnRead(p, q)' = TurnRead(p, q)
  BY <1>2, <1>12, CountsSame
<1>14. Read(p, q)' = Read(p, q) /\ Exchanges(p)' = Exchanges(p)
  BY <1>2, <1>12, <1>13, CountsSame
<1>15. Sent(p, q)' = Sent(p, q) + 1
  <2>1. /\ SentBefore(p)' = SentBefore(p) /\ Talked(p)' = Talked(p) /\ Base(p)' = Base(p)
        /\ call'[p] = call[p]
    BY <1>2, SamePlace, StreamSame DEF Still, Talked
  <2>2. Base(p)[call[p]] \in Nat
    BY <1>1, <1>6, Situations, BaseIs
  <2>3. SentBefore(p) \in Nat /\ Talked(p) \in Nat /\ TurnSent(p, q) \in Nat
    BY <1>1, BeforeIs, CountsAre DEF Talked
  <2> QED BY <1>13, <2>1, <2>2, <2>3 DEF Sent, SentIn
<1>16. Sent(q, p)' = Sent(q, p) /\ Read(q, p)' = Read(q, p)
  BY <1>2, PairStill
<1>17. Linked(p, q)'
  <2>1. PICK i : i = SentIn(p, q) + 1
    OBVIOUS
  <2>2. i \in 1 .. Total(p, call[p]) /\ Said(p, call[p], i) = Message("ot", <<o[2], Drawn(p)>>)
    BY <1>6, <1>7, <2>1 DEF TurnSends
  <2> QED BY <1>1, <1>2, <1>6, <1>10, <1>15, <1>16, <2>1, <2>2, LinkedSend
<1>18. Linked(q, p)'
  BY <1>1, <1>2, <1>10, <1>14, <1>16, LinkedSame
<1>19. ResultOK(p, q)'
  <2>1. ~ After(p, q)'
    BY <1>1, <1>2, NotAfter, MainStill
  <2>2. Part(p, q)' # 1 /\ Drawn(p)' = Drawn(p)
    BY <1>2, <1>12, SamePlace DEF Still
  <2> QED BY <1>10, <2>1, <2>2 DEF ResultOK
<1> QED BY <1>17, <1>18, <1>19 DEF Kept

(* correlate receives.                                                      *)
LEMMA ReceiveStep ==
  ASSUME CInv, NEW p \in Parties, NEW q \in Peers(p), Exchanges(p), MultiplierStep(p, q),
         Active(p, q), Receive(p, q)
  PROVE  Kept(p, q)
<1>1. /\ IInv /\ ProgramOK /\ ShapeOK /\ DataShape /\ q \in Parties /\ p \in Peers(q) /\ p # q
      /\ Linked(p, q) /\ Linked(q, p) /\ ResultOK(p, q)
  BY DEF CInv, Peers, IInv
<1>2. program' = program /\ Still(p) /\ Still(q) /\ StillPair(q, p)
  <2>1. <<q, p>> # <<p, q>>
    BY <1>1
  <2> QED BY <1>1, <2>1, MultiplierLeaves, MultiplierData DEF Still, StillPair
<1>3. PICK n : n = Part(p, q)
  OBVIOUS
<1>4. PICK o : o = MultiplierScript(p, q)[step[p][q]]
  OBVIOUS
<1>5. n \in 1 .. Ops(p, q) - 1 /\ AtWork(p, q, n)
  BY <1>3 DEF Active
<1>6. /\ TurnSends(p, n, o) \/ TurnReads(p, q, n, o)
      /\ n \in Nat /\ n # 0 /\ heard[p] = {} /\ call[p] \in 0 .. Len(program)
      /\ SentIn(p, q) = SentBefore(p) + SentAt(p, n) /\ ReadIn(p, q) = ReadBefore(p, q) + ReadAt(p, n)
      /\ result[p][q] \in {{}, {Drawn(p)}}
  BY <1>3, <1>4, <1>5, ActiveIs
<1>7. TurnReads(p, q, n, o)
  BY <1>4, <1>6 DEF TurnSends, Receive, Does
<1>8. Head(chan[q][p]) = Message("ot", <<o[2], Drawn(p)>>) /\ chan[q][p] # <<>>
  <2>1. chan[q][p] # <<>>
    BY DEF Receive
  <2>2. /\ ReadIn(p, q) + 1 \in 1 .. Total(q, call[p])
        /\ Said(q, call[p], ReadIn(p, q) + 1) = Message("ot", <<o[2], Drawn(p)>>)
    BY <1>6, <1>7 DEF TurnReads
  <2> QED BY <1>1, <1>6, <2>1, <2>2, LinkedRead
<1>9. Head(chan[q][p]).about[2] = Drawn(p)
  BY <1>8 DEF Message
<1>10. /\ chan' = [chan EXCEPT ![q][p] = Tail(@)]
       /\ result' = [result EXCEPT ![p][q] = @ \cup {Drawn(p)}]
  BY <1>9 DEF Receive
<1>11. /\ chan'[q][p] = Tail(chan[q][p])
       /\ chan'[p][q] = chan[p][q] /\ result'[p][q] = {Drawn(p)}
  BY <1>1, <1>6, <1>10 DEF DataShape
<1>12. PICK m : m = n + 1
  OBVIOUS
<1>13. /\ Exchanges(p) => Part(p, q) = n /\ Part(p, q)' = m
       /\ SentAt(p, m) = SentAt(p, n) /\ ReadAt(p, m) = ReadAt(p, n) + 1 /\ m # 1
  BY <1>3, <1>6, <1>7, <1>12 DEF Active, TurnReads
<1>14. TurnSent(p, q)' = TurnSent(p, q) /\ TurnRead(p, q)' = TurnRead(p, q) + 1
  BY <1>2, <1>13, CountsSame
<1>15. Sent(p, q)' = Sent(p, q) /\ Exchanges(p)' = Exchanges(p)
  BY <1>2, <1>13, <1>14, CountsSame
<1>16. Read(p, q)' = Read(p, q) + 1
  <2>1. /\ ReadBefore(p, q)' = ReadBefore(p, q) /\ HeardOf(p, q)' = HeardOf(p, q) /\ Base(q)' = Base(q)
        /\ call'[p] = call[p]
    BY <1>2, SamePlace, StreamSame DEF Still, HeardOf
  <2>2. Base(q)[call[p]] \in Nat
    BY <1>1, <1>6, Situations, BaseIs
  <2>3. ReadBefore(p, q) \in Nat /\ HeardOf(p, q) \in Nat /\ TurnRead(p, q) \in Nat
    BY <1>1, BeforeIs, CountsAre DEF HeardOf
  <2> QED BY <1>14, <2>1, <2>2, <2>3 DEF Read, ReadIn
<1>17. Sent(q, p)' = Sent(q, p) /\ Read(q, p)' = Read(q, p)
  BY <1>2, PairStill
<1>18. Linked(q, p)'
  BY <1>1, <1>2, <1>8, <1>11, <1>16, <1>17, LinkedRead
<1>19. Linked(p, q)'
  BY <1>1, <1>2, <1>11, <1>15, <1>17, LinkedSame
<1>20. ResultOK(p, q)'
  <2>1. ~ After(p, q)'
    BY <1>1, <1>2, NotAfter, MainStill
  <2>2. Part(p, q)' # 1 /\ Drawn(p)' = Drawn(p)
    BY <1>2, <1>13, SamePlace DEF Still
  <2> QED BY <1>11, <2>1, <2>2 DEF ResultOK
<1> QED BY <1>18, <1>19, <1>20 DEF Kept

(* No step of a multiplier breaks the invariant.                            *)
LEMMA MultiplierKeepsData ==
  ASSUME CInv, NEW p \in Parties, NEW q \in Peers(p), MultiplierStep(p, q)
  PROVE  CInv'
<1>1. IInv /\ ShapeOK /\ DataShape /\ q \in Parties /\ p \in Peers(q) /\ p # q
  BY DEF CInv, Peers, IInv
<1>2. /\ IInv' /\ DataShape' /\ program' = program /\ heard' = heard /\ valueBits' = valueBits
      /\ used' = used /\ call' = call /\ at' = at /\ next' = next
  BY <1>1, MultiplierKeeps, MultiplierLeaves, MultiplierData
<1>3. Kept(p, q)
  <2>1. CASE Exchanges(p) /\ ~ Quiet(p, q)
    BY <1>1, <2>1, TurnMove, SendStep, ReceiveStep DEF Active
  <2>2. CASE ~ Exchanges(p) \/ Quiet(p, q)
    BY <2>2, QuietStep
  <2> QED BY <2>1, <2>2
<1>4. \A o \in Parties : Still(o) /\ BitsOK(o)' /\ UsedOK(o)' /\ HeardOK(o)'
  <2>1. ASSUME NEW o \in Parties PROVE Still(o)
    BY <1>2 DEF Still
  <2> QED BY <1>2, <2>1, MainStill DEF CInv
<1>5. ASSUME NEW o \in Parties, NEW r \in Peers(o), <<o, r>> # <<p, q>>
      PROVE  StillPair(o, r) /\ ResultOK(o, r)' /\ Sent(o, r)' = Sent(o, r) /\ Read(o, r)' = Read(o, r)
  <2>1. StillPair(o, r)
    BY <1>1, <1>2, <1>5, MultiplierLeaves, MultiplierData DEF StillPair
  <2> QED BY <1>2, <1>4, <2>1, PairStill DEF CInv
<1>6. ASSUME NEW o \in Parties, NEW r \in Peers(o), <<o, r>> # <<p, q>>
      PROVE  Linked(o, r)'
  <2>1. CASE o = q /\ r = p
    BY <1>3, <2>1 DEF Kept
  <2>2. CASE ~ (o = q /\ r = p)
    <3>1. r \in Parties /\ o \in Peers(r) /\ <<r, o>> # <<p, q>> /\ <<o, r>> # <<q, p>>
      BY <2>2 DEF Peers
    <3>2. chan'[o][r] = chan[o][r]
      <4>1. ~ Receive(p, q) \/ ~ Send(p, q)
        BY DEF Receive, Send, Does
      <4> QED BY <1>1, <1>6, <3>1, <4>1, MultiplierData
    <3>3. Sent(o, r)' = Sent(o, r) /\ Read(r, o)' = Read(r, o)
      BY <1>5, <1>6, <3>1
    <3> QED BY <1>2, <3>2, <3>3, LinkedSame DEF CInv
  <2> QED BY <2>1, <2>2
<1>7. ASSUME NEW o \in Parties, NEW r \in Peers(o)
      PROVE  Linked(o, r)' /\ ResultOK(o, r)'
  BY <1>3, <1>5, <1>6, <1>7 DEF Kept
<1>8. Parties' = Parties /\ \A o : Peers(o)' = Peers(o)
  BY DEF Peers, Parties
<1> QED BY <1>2, <1>4, <1>7, <1>8 DEF CInv

-----------------------------------------------------------------------------
(* The data that a step of main leaves alone.                               *)
LEMMA MainData ==
  ASSUME ShapeOK, DataShape, NEW p \in Parties, MainStep(p)
  PROVE  /\ DataShape' /\ result' = result
         /\ \A o \in Parties \ {p} : /\ heard'[o] = heard[o] /\ valueBits'[o] = valueBits[o]
                                     /\ used'[o] = used[o]
         /\ \A o \in Parties : \A r \in Peers(o) : o # p /\ r # p => chan'[o][r] = chan[o][r]
         /\ Op(p) # "talk" => heard' = heard /\ chan' = chan
         /\ Op(p) \notin Writes => valueBits' = valueBits
         /\ Op(p) \in Writes => valueBits'[p] = Written(p) /\ Moved(p)
         /\ Op(p) # "combine" => used' = used
         /\ Op(p) = "combine" => Combine(p) /\ Moved(p)
         /\ Op(p) = "talk" => Talk(p) \/ \E q \in Peers(p) : Hear(p, q)
<1> USE DEF DataShape
<1>1. CASE SignalJob(p)
  BY <1>1 DEF SignalJob, Writes, threads
<1>2. CASE SignalGo(p)
  BY <1>2 DEF SignalGo, Writes, threads
<1>3. CASE Collect(p)
  BY <1>3 DEF Collect, Writes, threads
<1>4. CASE Lock(p)
  BY <1>4 DEF Lock, Writes, threads
<1>5. CASE Unlock(p)
  BY <1>5 DEF Unlock, Writes, threads
<1>6. CASE Write(p)
  <2>1. Moved(p)
    BY <1>6, AdvanceIs DEF Write
  <2>2. PICK w : w = Written(p)
    OBVIOUS
  <2>3. valueBits' = [valueBits EXCEPT ![p] = w]
    BY <1>6, <2>2 DEF Write
  <2>4. valueBits'[p] = Written(p) /\ \A o \in Parties \ {p} : valueBits'[o] = valueBits[o]
    BY <2>2, <2>3
  <2>5. /\ Op(p) \in Writes /\ heard' = heard /\ chan' = chan /\ used' = used /\ result' = result
        /\ Op(p) # "combine" /\ Op(p) # "talk"
    BY <1>6 DEF Write, Writes, threads
  <2> QED BY <2>1, <2>3, <2>4, <2>5
<1>7. CASE Combine(p)
  <2>1. Moved(p)
    BY <1>7, AdvanceIs DEF Combine
  <2>2. PICK w : used' = [used EXCEPT ![p] = w]
    BY <1>7 DEF Combine
  <2>3. /\ Op(p) \notin Writes /\ heard' = heard /\ chan' = chan /\ result' = result
        /\ valueBits' = valueBits /\ Op(p) = "combine"
    BY <1>7 DEF Combine, Writes, threads
  <2> QED BY <1>7, <2>1, <2>2, <2>3
<1>8. CASE Talk(p)
  <2>1. PICK w : w = Message("main", Topic(p))
    OBVIOUS
  <2>2. chan' = [chan EXCEPT ![p] = [q \in Peers(p) |-> Append(@[q], w)]]
    BY <1>8, <2>1 DEF Talk
  <2>3. /\ Op(p) = "talk" /\ Op(p) \notin Writes /\ result' = result /\ valueBits' = valueBits
        /\ used' = used /\ heard' = [heard EXCEPT ![p] = {p}]
    BY <1>8 DEF Talk, Writes, threads
  <2> QED BY <1>8, <2>2, <2>3
<1>9. CASE \E q \in Peers(p) : Hear(p, q)
  <2>1. PICK q \in Peers(p) : Hear(p, q)
    BY <1>9
  <2>2. PICK w : heard' = [heard EXCEPT ![p] = w]
    BY <2>1 DEF Hear
  <2>3. chan' = [chan EXCEPT ![q][p] = Tail(@)]
    BY <2>1 DEF Hear
  <2>4. /\ Op(p) = "talk" /\ Op(p) \notin Writes /\ result' = result /\ valueBits' = valueBits
        /\ used' = used
    BY <2>1 DEF Hear, Writes, threads
  <2> QED BY <1>9, <2>2, <2>3, <2>4
<1>10. CASE Stop(p)
  BY <1>10 DEF Stop, Writes, threads, mains
<1>11. CASE Join(p)
  BY <1>11 DEF Join, Writes, threads
<1> QED BY <1>1, <1>2, <1>3, <1>4, <1>5, <1>6, <1>7, <1>8, <1>9, <1>10, <1>11 DEF MainStep

(* What hangs on the place of main and its data only.                       *)
LEMMA PlaceStill ==
  ASSUME NEW p, program' = program, call'[p] = call[p], at'[p] = at[p],
         valueBits'[p] = valueBits[p], used'[p] = used[p]
  PROVE  /\ BitsOK(p) => BitsOK(p)'
         /\ UsedOK(p) => UsedOK(p)'
         /\ \A q : After(p, q)' = After(p, q)
<1>1. /\ InTriples(p)' = InTriples(p) /\ InOwnInputs(p)' = InOwnInputs(p)
      /\ InInputsOf(p)' = InInputsOf(p) /\ J(p)' = J(p)
  BY SameCall
<1>2. Drawn(p)' = Drawn(p) /\ Place(p)' = Place(p)
  BY SamePlace
<1>3. BitsOK(p) => BitsOK(p)'
  BY <1>1, <1>2 DEF BitsOK
<1>4. UsedOK(p) => UsedOK(p)'
  BY <1>1, <1>2 DEF UsedOK, Combined
<1>5. \A q : After(p, q)' = After(p, q)
  BY <1>1, <1>2 DEF After
<1> QED BY <1>3, <1>4, <1>5

(* From one operation of generateTriples to the next.                       *)
Within(p, r, k) == /\ at[p] = 5 + 10 * r + k /\ at'[p] = at[p] + 1 /\ at[p] >= 5 /\ at'[p] >= 5
                   /\ Round(p) = r /\ Place(p) = k
                   /\ IF k = 9 THEN Place(p)' = 0 ELSE Place(p)' = k + 1 /\ Round(p)' = r

(* Main of generateTriples moves within its lead or within a round.         *)
LEMMA MovedTriples ==
  ASSUME IInv, NEW p \in Parties, InTriples(p), program' = program, Moved(p), call'[p] = call[p]
  PROVE  \/ at[p] \in 1 .. 4 /\ at'[p] = at[p] + 1 /\ (at'[p] >= 5 => Place(p)' = 0)
         \/ \E r \in 0 .. Loops - 1, k \in 0 .. 9 : Within(p, r, k)
<1> USE SizeAssumption
<1>1. Len(MainScript(p)) = 5 + 10 * Loops /\ call[p] \in Nat
  BY OpInTriples, Situations
<1>2. CASE at[p] \in 1 .. 4
  <2>1. at'[p] = at[p] + 1
    BY <1>1, <1>2 DEF Moved
  <2>2. at'[p] >= 5 => at'[p] = 5 + 10 * 0 + 0 /\ 0 \in Nat /\ 0 \in 0 .. 9
    BY <1>2, <2>1
  <2>3. at'[p] >= 5 => PlaceOf(at'[p]) = 0
    BY <2>2, PlaceIs
  <2> QED BY <1>2, <2>1, <2>3 DEF Place
<1>3. CASE at[p] = 5 + 10 * Loops
  BY <1>1, <1>3 DEF Moved
<1>4. ASSUME NEW r \in 0 .. Loops - 1, NEW k \in 0 .. 9, at[p] = 5 + 10 * r + k
      PROVE  Within(p, r, k)
  <2>1. r \in Nat /\ r + 1 \in Nat
    OBVIOUS
  <2>2. at[p] >= 5 /\ Round(p) = r /\ Place(p) = k /\ at[p] \in Nat
    BY <1>4, <2>1, PlaceIs DEF Round, Place
  <2>3. at[p] < 5 + 10 * Loops
    BY <1>4
  <2>4. at'[p] = at[p] + 1
    BY <1>1, <2>3 DEF Moved
  <2>5. at'[p] >= 5
    BY <2>2, <2>4
  <2>6. CASE k = 9
    <3>1. at'[p] = 5 + 10 * (r + 1) + 0 /\ 0 \in 0 .. 9
      BY <1>4, <2>4, <2>6
    <3>2. PlaceOf(at'[p]) = 0
      BY <2>1, <3>1, PlaceIs
    <3> QED BY <1>4, <2>2, <2>4, <2>5, <2>6, <3>2 DEF Within, Place
  <2>7. CASE k # 9
    <3>1. at'[p] = 5 + 10 * r + (k + 1) /\ k + 1 \in 0 .. 9
      BY <1>4, <2>4, <2>7
    <3>2. RoundOf(at'[p]) = r /\ PlaceOf(at'[p]) = k + 1
      BY <2>1, <3>1, PlaceIs
    <3> QED BY <1>4, <2>2, <2>4, <2>5, <2>7, <3>2 DEF Within, Place, Round
  <2> QED BY <2>6, <2>7
<1> QED BY <1>2, <1>3, <1>4, Situations

(* From one operation of generateInputs to the next, and over the end of a  *)
(* call.                                                                    *)
LEMMA MovedElsewhere ==
  ASSUME IInv, NEW p \in Parties, program' = program, Moved(p), call[p] \in 0 .. Len(program)
  PROVE  /\ call'[p] # 0
         /\ call'[p] = call[p] => at'[p] = at[p] + 1 /\ call[p] # 0
         /\ call'[p] # call[p] => at'[p] = 1
         /\ call'[p] = call[p] /\ InOwnInputs(p) => at[p] \in 1 .. 7
         /\ call'[p] = call[p] /\ InInputsOf(p) => at[p] \in 1 .. 5
<1>1. /\ ProgramOK /\ MainOK(p) /\ Len(program) \in Nat /\ call[p] \in Nat
      /\ call[p] \in 0 .. Len(program) + 1
  BY DEF IInv, ProgramOK, MainOK
<1>2. CASE at[p] < Len(MainScript(p))
  <2>1. at'[p] = at[p] + 1 /\ call'[p] = call[p]
    BY <1>2 DEF Moved
  <2>2. ASSUME call[p] = 0 PROVE FALSE
    <3>1. Len(MainScript(p)) = 1 /\ at[p] = 1
      BY <1>1, <2>2, OpElsewhere, Situations
    <3> QED BY <1>2, <3>1
  <2>3. ASSUME InOwnInputs(p) PROVE at[p] \in 1 .. 7
    <3>1. Len(MainScript(p)) = 8 /\ at[p] \in 1 .. 8
      BY <1>1, <2>3, OpInInputs, Situations
    <3> QED BY <1>2, <3>1
  <2>4. ASSUME InInputsOf(p) PROVE at[p] \in 1 .. 5
    <3>1. Len(MainScript(p)) = 6 /\ at[p] \in 1 .. 6
      BY <1>1, <2>4, OpInInputs, Situations
    <3> QED BY <1>2, <3>1
  <2> QED BY <2>1, <2>2, <2>3, <2>4
<1>3. CASE ~ (at[p] < Len(MainScript(p)))
  <2>1. at'[p] = 1 /\ call'[p] = call[p] + 1
    BY <1>3 DEF Moved
  <2> QED BY <1>1, <2>1
<1> QED BY <1>2, <1>3

(* A turn begins with a signal, which is in the inbox then.                 *)
LEMMA Fresh ==
  ASSUME IInv, NEW p \in Parties, NEW q \in Peers(p), MainStep(p), Moved(p),
         call[p] \in 0 .. Len(program), Exchanges(p)'
  PROVE  Op(p) \in {"job", "go"} /\ Part(p, q)' = 1 /\ inbox'[p][q] # <<>>
<1>1. /\ ProgramOK /\ ShapeOK /\ MainOK(p) /\ PairOK(p, q) /\ call[p] \in 0 .. Len(program) + 1
      /\ program' = program
  BY MainLeaves, Situations DEF IInv
<1>2. /\ call'[p] # 0
      /\ call'[p] = call[p] => at'[p] = at[p] + 1 /\ call[p] # 0
      /\ call'[p] # call[p] => at'[p] = 1
  BY <1>1, MovedElsewhere
<1>3. call'[p] = call[p] /\ at'[p] = at[p] + 1 /\ call[p] # 0
  BY <1>2 DEF Exchanges
<1>4. /\ InTriples(p)' = InTriples(p) /\ InOwnInputs(p)' = InOwnInputs(p)
      /\ InInputsOf(p)' = InInputsOf(p)
  BY <1>1, <1>3, SameCall
<1>5. Op(p) \in {"job", "go"} /\ inbox[p][q] \in {<<>>, <<J(p)>>}
  <2>1. CASE InTriples(p)
    <3>1. at'[p] >= 5 /\ Place(p)' \in {2, 7} /\ TriplesOK(p, q)
      BY <1>1, <1>2, <1>4, <2>1, OneKind DEF Exchanges, PairOK
    <3>2. PICK r \in 0 .. Loops - 1, k \in 0 .. 9 : Within(p, r, k)
      BY <1>1, <1>3, <2>1, <3>1, MovedTriples
    <3>3. k \in {1, 6} /\ at[p] = 5 + 10 * r + k
      BY <3>1, <3>2 DEF Within
    <3>4. RoundOK(p, q, r, k)
      BY <3>1, <3>3 DEF TriplesOK
    <3>5. inbox[p][q] = <<>>
      BY <3>3, <3>4 DEF RoundOK, Waits, Empty
    <3>6. Op(p) = "go"
      BY <1>1, <2>1, <3>3, RoundOp
    <3> QED BY <3>5, <3>6
  <2>2. CASE InOwnInputs(p)
    <3>1. at[p] = 4 /\ OwnInputsOK(p, q)
      <4>1. at'[p] = 5 /\ OwnInputsOK(p, q) /\ at[p] \in 1 .. 8
        BY <1>1, <1>2, <1>4, <2>2, OneKind, Situations DEF Exchanges, PairOK
      <4> QED BY <1>3, <4>1
    <3>2. inbox[p][q] \in {<<>>, <<J(p)>>}
      BY <3>1 DEF OwnInputsOK, Waits, Empty
    <3> QED BY <1>1, <2>2, <3>1, <3>2, OpInInputs
  <2>3. CASE InInputsOf(p)
    <3>1. at[p] = 2 /\ InputsOfOK(p, q)
      <4>1. at'[p] = 3 /\ InputsOfOK(p, q) /\ at[p] \in 1 .. 6
        BY <1>1, <1>2, <1>4, <2>3, OneKind, Situations DEF Exchanges, PairOK
      <4> QED BY <1>3, <4>1
    <3>2. inbox[p][q] = <<>>
      BY <3>1 DEF InputsOfOK, Waits, Empty
    <3> QED BY <1>1, <2>3, <3>1, <3>2, OpInInputs
  <2> QED BY <1>2, <1>4, <2>1, <2>2, <2>3 DEF Exchanges
<1>6. PICK x : inbox'[p][q] = Append(inbox[p][q], x)
  BY <1>1, <1>5, SignalIs
<1>7. inbox'[p][q] # <<>>
  BY <1>5, <1>6, QueueFacts
<1> QED BY <1>5, <1>7 DEF Part

(* When main goes on, the turn it has waited for is over.                   *)
LEMMA TurnDone ==
  ASSUME IInv, NEW p \in Parties, NEW q \in Peers(p), MainStep(p), Moved(p),
         call[p] \in 0 .. Len(program), Exchanges(p)
  PROVE  Op(p) = "collect" /\ Part(p, q) = Ops(p, q)
<1> USE SizeAssumption
<1>1. ShapeOK /\ Op(p) = "collect" /\ next[p] \in Peers(p)
  BY TurnIs DEF IInv
<1>2. /\ outbox[p][next[p]] # <<>>
      /\ IF NextPeer(p, next[p]) >= N THEN Moved(p) ELSE Stayed(p)
  BY <1>1, CollectIs
<1>3. ~ Stayed(p)
  <2>1. /\ call'[p] = call[p] => at'[p] = at[p] + 1
        /\ at[p] \in Nat
    BY MovedElsewhere, MainLeaves, OpKinds, <1>1
  <2> QED BY <2>1 DEF Stayed
<1>4. NextPeer(p, next[p]) >= N
  BY <1>2, <1>3
<1>5. ~ (q > next[p])
  <2>1. \A o \in Peers(p) : o > next[p] <=> NextPeer(p, next[p]) <= o
    BY <1>1, PeersAre
  <2>2. NextPeer(p, next[p]) \in Nat /\ q \in 0 .. N - 1
    BY <1>1, PeersAre DEF Peers, Parties
  <2> QED BY <1>4, <2>1, <2>2
<1>6. q = next[p] \/ next[p] > q
  BY <1>1, <1>5 DEF Peers, Parties
<1> QED BY <1>1, <1>2, <1>6, PartIs

(* The counts when main goes on.                                            *)
LEMMA MovedCounts ==
  ASSUME IInv, NEW p \in Parties, NEW q \in Peers(p), MainStep(p), Moved(p),
         call[p] \in 0 .. Len(program)
  PROVE  /\ Sent(p, q)' = Base(p)[call[p]] + (SentBefore(p) + SentBy(p, q)) + Talked(p)'
         /\ Read(p, q)' = Base(q)[call[p]] + (ReadBefore(p, q) + ReadBy(p, q)) + HeardOf(p, q)'
         /\ ~ Exchanges(p) => SentBy(p, q) = (IF Op(p) = "talk" THEN 1 ELSE 0)
                              /\ ReadBy(p, q) = (IF Op(p) = "talk" THEN 1 ELSE 0)
         /\ Exchanges(p) => SentBy(p, q) = TurnSent(p, q) /\ ReadBy(p, q) = TurnRead(p, q)
         /\ SentBy(p, q) \in Nat /\ ReadBy(p, q) \in Nat
<1>1. program' = program /\ ProgramOK /\ ShapeOK /\ q \in Parties
  BY MainLeaves DEF IInv, Peers
<1>2. Counted(p, q)
  BY <1>1, Progress
<1>3. TurnSent(p, q)' = 0 /\ TurnRead(p, q)' = 0
  <2>1. CASE Exchanges(p)'
    <3>1. Part(p, q)' = 1
      BY <2>1, Fresh
    <3>2. SentAt(p, 1)' = 0 /\ ReadAt(p, 1)' = 0
      BY DEF SentAt, ReadAt
    <3> QED BY <2>1, <3>1, <3>2 DEF TurnSent, TurnRead
  <2>2. CASE ~ Exchanges(p)'
    BY <2>2 DEF TurnSent, TurnRead
  <2> QED BY <2>1, <2>2
<1>4. ~ Exchanges(p) => /\ SentBy(p, q) = (IF Op(p) = "talk" THEN 1 ELSE 0)
                        /\ ReadBy(p, q) = (IF Op(p) = "talk" THEN 1 ELSE 0)
  BY DEF SentBy, ReadBy
<1>5. Exchanges(p) => SentBy(p, q) = TurnSent(p, q) /\ ReadBy(p, q) = TurnRead(p, q)
  BY TurnDone DEF SentBy, ReadBy, TurnSent, TurnRead
<1>6. SentBy(p, q) \in Nat /\ ReadBy(p, q) \in Nat
  BY <1>4, <1>5, CountsAre
<1>7. /\ SentBefore(p) \in Nat /\ ReadBefore(p, q) \in Nat
      /\ Talked(p)' \in Nat /\ HeardOf(p, q)' \in Nat
  BY BeforeIs DEF Talked, HeardOf
<1>8. /\ Base(p)' = Base(p) /\ Base(q)' = Base(q)
      /\ Base(p)[call[p]] \in Nat /\ Base(q)[call[p]] \in Nat
      /\ Base(p)[call[p] + 1] = Base(p)[call[p]] + Total(p, call[p])
      /\ Base(q)[call[p] + 1] = Base(q)[call[p]] + Total(q, call[p])
  <2>1. Base(p)' = Base(p) /\ Base(q)' = Base(q)
    BY <1>1, StreamSame
  <2>2. call[p] \in 0 .. Len(program) + 1
    BY Situations
  <2>3. /\ Base(p)[call[p]] \in Nat /\ Base(p)[call[p] + 1] = Base(p)[call[p]] + Total(p, call[p])
    BY <1>1, <2>2, BaseIs
  <2>4. /\ Base(q)[call[p]] \in Nat /\ Base(q)[call[p] + 1] = Base(q)[call[p]] + Total(q, call[p])
    BY <1>1, <2>2, BaseIs
  <2> QED BY <2>1, <2>3, <2>4
<1>9. /\ Sent(p, q)' = Base(p)[call'[p]] + (SentBefore(p)' + Talked(p)' + TurnSent(p, q)')
      /\ Read(p, q)' = Base(q)[call'[p]] + (ReadBefore(p, q)' + HeardOf(p, q)' + TurnRead(p, q)')
  BY <1>8 DEF Sent, Read, SentIn, ReadIn
<1>10. /\ Sent(p, q)' = Base(p)[call[p]] + (SentBefore(p) + SentBy(p, q)) + Talked(p)'
       /\ Read(p, q)' = Base(q)[call[p]] + (ReadBefore(p, q) + ReadBy(p, q)) + HeardOf(p, q)'
  <2>1. CASE call'[p] = call[p]
    <3>1. /\ SentBefore(p)' = SentBefore(p) + SentBy(p, q)
          /\ ReadBefore(p, q)' = ReadBefore(p, q) + ReadBy(p, q)
      BY <1>2, <2>1 DEF Counted
    <3> QED BY <1>3, <1>6, <1>7, <1>8, <1>9, <2>1, <3>1, SMTT(30)
  <2>2. CASE call'[p] # call[p]
    <3>1. /\ call'[p] = call[p] + 1 /\ SentBefore(p)' = 0 /\ ReadBefore(p, q)' = 0
          /\ Total(p, call[p]) = SentBefore(p) + SentBy(p, q)
          /\ Total(q, call[p]) = ReadBefore(p, q) + ReadBy(p, q)
      BY <1>2, <2>2 DEF Counted
    <3>2. /\ Base(p)[call'[p]] = Base(p)[call[p]] + (SentBefore(p) + SentBy(p, q))
          /\ Base(q)[call'[p]] = Base(q)[call[p]] + (ReadBefore(p, q) + ReadBy(p, q))
      BY <1>8, <3>1
    <3> QED BY <1>3, <1>6, <1>7, <1>8, <1>9, <3>1, <3>2
  <2> QED BY <2>1, <2>2
<1> QED BY <1>4, <1>5, <1>6, <1>10

(* The bits that main has drawn last are in the vectors after its next      *)
(* operation.                                                               *)
LEMMA BitsMoved ==
  ASSUME CInv, NEW p \in Parties, MainStep(p), Moved(p), call[p] \in 0 .. Len(program)
  PROVE  BitsOK(p)'
<1> USE SizeAssumption
<1>1. /\ IInv /\ ProgramOK /\ ShapeOK /\ DataShape /\ program' = program /\ BitsOK(p)
      /\ call[p] \in 0 .. Len(program) + 1
  BY MainLeaves, Situations DEF CInv, IInv
<1>2. /\ call'[p] # 0
      /\ call'[p] = call[p] => at'[p] = at[p] + 1 /\ call[p] # 0
      /\ call'[p] # call[p] => at'[p] = 1
      /\ call'[p] = call[p] /\ InOwnInputs(p) => at[p] \in 1 .. 7
  BY <1>1, MovedElsewhere
<1>3. /\ Op(p) \notin Writes => valueBits'[p] = valueBits[p]
      /\ Op(p) \in Writes => valueBits'[p] = Written(p)
  BY <1>1, MainData
<1>4. CASE call'[p] # call[p]
  BY <1>2, <1>4 DEF BitsOK
<1>5. CASE call'[p] = call[p]
  <2>1. /\ InTriples(p)' = InTriples(p) /\ InOwnInputs(p)' = InOwnInputs(p)
    BY <1>1, <1>5, SameCall
  <2>2. CASE InTriples(p)
    <3>1. /\ InTriples(p)' /\ ~ InOwnInputs(p)' /\ call[p] # 0
      BY <1>1, <2>1, <2>2, OneKind
    <3>2. CASE at[p] \in 1 .. 4 /\ at'[p] = at[p] + 1 /\ (at'[p] >= 5 => Place(p)' = 0)
      <4>1. ~ (at'[p] >= 5 /\ Place(p)' >= 1) /\ ~ (at'[p] >= 5 /\ Place(p)' >= 6)
        BY <3>2
      <4>2. at'[p] >= 3 => DOMAIN valueBits'[p] = 1 .. 3
        <5>1. CASE at[p] = 1
          BY <3>2, <5>1
        <5>2. CASE at[p] = 2
          <6>1. Op(p) = "resize"
            BY <1>1, <2>2, <5>2, OpInTriples
          <6> QED BY <1>3, <6>1 DEF Writes, Written, Resized
        <5>3. CASE at[p] \in {3, 4}
          <6>1. Op(p) \notin Writes
            BY <1>1, <2>2, <5>3, OpInTriples DEF Writes
          <6> QED BY <1>1, <1>3, <2>2, <5>3, <6>1 DEF BitsOK
        <5> QED BY <3>2, <5>1, <5>2, <5>3
      <4> QED BY <1>2, <3>1, <4>1, <4>2 DEF BitsOK
    <3>3. ASSUME NEW r \in 0 .. Loops - 1, NEW k \in 0 .. 9, Within(p, r, k)
          PROVE  BitsOK(p)'
      <4>1. /\ at[p] = 5 + 10 * r + k /\ at[p] >= 5 /\ at'[p] >= 5 /\ Round(p) = r /\ Place(p) = k
            /\ IF k = 9 THEN Place(p)' = 0 ELSE Place(p)' = k + 1 /\ Round(p)' = r
        BY <3>3 DEF Within
      <4>2. /\ Op(p) = "randomize" <=> k = 0
            /\ Op(p) = "amplify" <=> k = 5
            /\ Op(p) = TripleRound[k + 1]
        <5>1. at[p] = 5 + 10 * r + k
          BY <4>1
        <5> QED BY <1>1, <2>2, <5>1, RoundOp, ZenonT(60)
      <4>3. /\ DOMAIN valueBits[p] = 1 .. 3 
            /\ k >= 1 => valueBits[p][1] = Drawn(p) /\ valueBits[p][2] = Drawn(p)
            /\ k >= 6 => valueBits[p][3] = Drawn(p)
        BY <1>1, <2>2, <4>1 DEF BitsOK
      <4>4. Drawn(p) = <<call[p], (IF k <= 5 THEN 5 ELSE 10) + 10 * r>>
        BY <2>2, <3>1, <4>1 DEF Drawn
      <4>5. k # 9 => Drawn(p)' = <<call[p], (IF k + 1 <= 5 THEN 5 ELSE 10) + 10 * r>>
        BY <1>2, <1>5, <3>1, <4>1 DEF Drawn
      <4>6. /\ DOMAIN valueBits'[p] = 1 .. 3
            /\ k # 9 => valueBits'[p][1] = Drawn(p)' /\ valueBits'[p][2] = Drawn(p)'
            /\ (k \in 5 .. 8 => valueBits'[p][3] = Drawn(p)')
        <5>1. CASE k = 0
          <6>1. at[p] = 5 + 10 * r
            BY <4>1, <5>1
          <6>2. valueBits'[p] = Filled(p, 1 .. 2)
            BY <1>3, <4>2, <5>1 DEF Writes, Written
          <6>3. /\ DOMAIN valueBits'[p] = 1 .. 3 /\ valueBits'[p][1] = <<call[p], at[p]>>
                /\ valueBits'[p][2] = <<call[p], at[p]>>
            BY <4>3, <6>2 DEF Filled
          <6> QED BY <4>5, <5>1, <6>1, <6>3
        <5>2. CASE k = 5
          <6>1. at[p] = 10 + 10 * r
            BY <4>1, <5>2
          <6>2. valueBits'[p] = Filled(p, 1 .. 3)
            BY <1>3, <4>2, <5>2 DEF Writes, Written
          <6>3. /\ DOMAIN valueBits'[p] = 1 .. 3 /\ valueBits'[p][1] = <<call[p], at[p]>>
                /\ valueBits'[p][2] = <<call[p], at[p]>> /\ valueBits'[p][3] = <<call[p], at[p]>>
            BY <4>3, <6>2 DEF Filled
          <6> QED BY <4>5, <5>2, <6>1, <6>3
        <5>3. CASE k \notin {0, 5}
          <6>1. Op(p) \notin Writes
            BY <4>2, <5>3 DEF TripleRound, Writes
          <6>2. k # 9 => Drawn(p)' = Drawn(p)
            BY <4>4, <4>5, <5>3
          <6> QED BY <1>3, <4>3, <5>3, <6>1, <6>2
        <5> QED BY <5>1, <5>2, <5>3
      <4>7. /\ at'[p] >= 5 /\ Place(p)' >= 1 => k # 9
            /\ at'[p] >= 5 /\ Place(p)' >= 6 => k \in 5 .. 8
        BY <4>1
      <4> QED BY <1>2, <3>1, <4>6, <4>7 DEF BitsOK
    <3> QED BY <1>1, <1>5, <2>2, <3>2, <3>3, MovedTriples
  <2>3. CASE InOwnInputs(p)
    <3>1. ~ InTriples(p)' /\ InOwnInputs(p)' /\ call[p] # 0 /\ ~ InTriples(p)
      BY <1>1, <2>1, <2>3, OneKind
    <3>2. at[p] \in 1 .. 7 /\ at'[p] = at[p] + 1
      BY <1>2, <1>5, <2>3
    <3>3. Drawn(p) = <<call[p], 3>> /\ Drawn(p)' = <<call[p], 3>>
      BY <1>2, <1>5, <3>1 DEF Drawn
    <3>4. DOMAIN valueBits'[p] = 1 .. 1 /\ (at'[p] >= 4 => valueBits'[p][1] = Drawn(p)')
      <4>1. CASE at[p] = 1
        <5>1. Op(p) = "shrink"
          BY <1>1, <2>3, <4>1, OpInInputs
        <5> QED BY <1>3, <3>2, <4>1, <5>1 DEF Writes, Written, Resized
      <4>2. CASE at[p] = 3
        <5>1. Op(p) = "randomize" /\ DOMAIN valueBits[p] = 1 .. 1
          BY <1>1, <2>3, <4>2, OpInInputs DEF BitsOK
        <5>2. valueBits'[p] = Filled(p, 1 .. 2)
          BY <1>3, <5>1 DEF Writes, Written
        <5>3. DOMAIN valueBits'[p] = 1 .. 1 /\ valueBits'[p][1] = <<call[p], at[p]>>
          BY <5>1, <5>2 DEF Filled
        <5> QED BY <3>3, <4>2, <5>3
      <4>3. CASE at[p] \notin {1, 3}
        <5>1. at[p] \in {2, 4, 5, 6, 7}
          BY <3>2, <4>3
        <5>2. Op(p) \notin Writes
          BY <1>1, <2>3, <5>1, OpInInputs DEF Writes
        <5>3. DOMAIN valueBits[p] = 1 .. 1 /\ (at[p] >= 4 => valueBits[p][1] = Drawn(p))
          BY <1>1, <2>3, <5>1 DEF BitsOK
        <5> QED BY <1>3, <3>2, <3>3, <5>1, <5>2, <5>3
      <4> QED BY <4>1, <4>2, <4>3
    <3> QED BY <1>2, <3>1, <3>4 DEF BitsOK
  <2>4. CASE ~ InTriples(p) /\ ~ InOwnInputs(p)
    BY <1>2, <2>1, <2>4 DEF BitsOK
  <2> QED BY <2>2, <2>3, <2>4
<1> QED BY <1>4, <1>5

(* After a turn the results are those of the bits.                          *)
LEMMA ResultMoved ==
  ASSUME CInv, NEW p \in Parties, NEW q \in Peers(p), MainStep(p), Moved(p),
         call[p] \in 0 .. Len(program)
  PROVE  ResultOK(p, q)'
<1> USE SizeAssumption
<1>1. /\ IInv /\ ProgramOK /\ ShapeOK /\ DataShape /\ program' = program /\ ResultOK(p, q)
      /\ call[p] \in 0 .. Len(program) + 1 /\ result' = result
  BY MainLeaves, MainData, Situations DEF CInv, IInv
<1>2. /\ call'[p] # 0
      /\ call'[p] = call[p] => at'[p] = at[p] + 1 /\ call[p] # 0
      /\ call'[p] # call[p] => at'[p] = 1
      /\ call'[p] = call[p] /\ InOwnInputs(p) => at[p] \in 1 .. 7
      /\ call'[p] = call[p] /\ InInputsOf(p) => at[p] \in 1 .. 5
  BY <1>1, MovedElsewhere
<1>3. ASSUME Exchanges(p)' PROVE Part(p, q)' = 1 /\ inbox'[p][q] # <<>>
  <2>1. Part(p, q)' = 1
    BY <1>1, <1>3, Fresh
  <2>2. inbox'[p][q] # <<>>
    BY <1>1, <1>3, Fresh
  <2> QED BY <2>1, <2>2
<1>4. ASSUME After(p, q)' PROVE result[p][q] = {Drawn(p)'}
  <2>1. call'[p] = call[p] /\ at'[p] = at[p] + 1 /\ call[p] # 0
    BY <1>2, <1>4 DEF After
  <2>2. /\ InTriples(p)' = InTriples(p) /\ InOwnInputs(p)' = InOwnInputs(p)
        /\ InInputsOf(p)' = InInputsOf(p) /\ J(p)' = J(p)
    BY <1>1, <2>1, SameCall
  <2>3. ASSUME Exchanges(p), Ops(p, q) # 1 PROVE result[p][q] = {Drawn(p)}
    BY <1>1, <2>3, TurnDone DEF ResultOK
  <2>4. After(p, q) => result[p][q] = {Drawn(p)}
    BY <1>1 DEF ResultOK
  <2>5. CASE InTriples(p)
    <3>1. at'[p] >= 5 /\ Place(p)' \in {3, 8}
      BY <1>1, <1>4, <2>2, <2>5, OneKind DEF After
    <3>2. PICK r \in 0 .. Loops - 1, k \in 0 .. 9 : Within(p, r, k)
      BY <1>1, <2>1, <2>5, <3>1, MovedTriples
    <3>3. /\ k \in {2, 7} /\ at[p] >= 5 /\ Place(p) = k /\ Round(p) = r /\ Round(p)' = r
          /\ Place(p)' = k + 1
      BY <3>1, <3>2 DEF Within
    <3>4. Exchanges(p) /\ Ops(p, q) # 1
      BY <2>5, <3>3 DEF Exchanges, Ops
    <3>5. Drawn(p)' = Drawn(p)
      BY <2>1, <2>2, <2>5, <3>3, SMTT(30) DEF Drawn
    <3> QED BY <2>3, <3>4, <3>5
  <2>6. CASE InOwnInputs(p)
    <3>1. at[p] \in {5, 6} /\ ~ InTriples(p)
      <4>1. at'[p] \in {6, 7} /\ at[p] \in 1 .. 7 /\ ~ InTriples(p)
        BY <1>1, <1>2, <1>4, <2>1, <2>2, <2>6, OneKind DEF After
      <4> QED BY <2>1, <4>1
    <3>2. Drawn(p)' = Drawn(p)
      BY <2>1, <2>2, <3>1 DEF Drawn
    <3>3. at[p] = 5 => Exchanges(p) /\ Ops(p, q) # 1
      BY <2>6, <3>1 DEF Exchanges, Ops
    <3>4. at[p] = 6 => After(p, q)
      BY <2>6 DEF After
    <3> QED BY <2>3, <2>4, <3>1, <3>2, <3>3, <3>4
  <2>7. CASE InInputsOf(p)
    <3>1. at[p] \in {3, 4} /\ ~ InTriples(p) /\ ~ InOwnInputs(p) /\ J(p).player = q
      <4>1. at'[p] \in {4, 5} /\ at[p] \in 1 .. 5 /\ ~ InTriples(p) /\ ~ InOwnInputs(p) /\ J(p).player = q
        BY <1>1, <1>2, <1>4, <2>1, <2>2, <2>7, OneKind DEF After
      <4> QED BY <2>1, <4>1
    <3>2. Drawn(p)' = Drawn(p)
      BY <2>1, <2>2, <3>1 DEF Drawn
    <3>3. at[p] = 3 => Exchanges(p) /\ Ops(p, q) # 1
      BY <2>7, <3>1 DEF Exchanges, Ops, Length
    <3>4. at[p] = 4 => After(p, q)
      BY <2>7, <3>1 DEF After
    <3> QED BY <2>3, <2>4, <3>1, <3>2, <3>3, <3>4
  <2> QED BY <1>4, <2>2, <2>5, <2>6, <2>7 DEF After
<1> QED BY <1>1, <1>3, <1>4 DEF ResultOK

(* combine adds up the results of one set of bits.                          *)
LEMMA UsedMoved ==
  ASSUME CInv, NEW p \in Parties, MainStep(p), Moved(p), call[p] \in 0 .. Len(program)
  PROVE  UsedOK(p)'
<1> USE SizeAssumption
<1>1. /\ IInv /\ ProgramOK /\ ShapeOK /\ DataShape /\ program' = program
      /\ call[p] \in 0 .. Len(program) + 1 /\ \A q \in Peers(p) : ResultOK(p, q)
  BY MainLeaves, Situations DEF CInv, IInv
<1>2. /\ call'[p] = call[p] => at'[p] = at[p] + 1 /\ call[p] # 0
      /\ call'[p] # call[p] => at'[p] = 1
      /\ call'[p] = call[p] /\ InOwnInputs(p) => at[p] \in 1 .. 7
      /\ call'[p] = call[p] /\ InInputsOf(p) => at[p] \in 1 .. 5
  BY <1>1, MovedElsewhere
<1>3. SUFFICES ASSUME Combined(p)' PROVE used'[p] = {Drawn(p)'}
  BY DEF UsedOK
<1>4. call'[p] = call[p] /\ at'[p] = at[p] + 1 /\ call[p] # 0
  BY <1>2, <1>3 DEF Combined
<1>5. /\ InTriples(p)' = InTriples(p) /\ InOwnInputs(p)' = InOwnInputs(p)
      /\ InInputsOf(p)' = InInputsOf(p)
  BY <1>1, <1>4, SameCall
<1>6. ASSUME NEW S, S # {}, \A q \in S : result[p][q] = {Drawn(p)}
      PROVE  UNION {result[p][q] : q \in S} = {Drawn(p)}
  BY <1>6
<1>7. Op(p) = "combine" =>
        used'[p] = UNION {result[p][q] : q \in IF program[call[p]].op = "inputs" /\ program[call[p]].player # p
                                               THEN {program[call[p]].player} ELSE Peers(p)}
  <2>1. Op(p) = "combine" => Combine(p)
    BY <1>1, MainData
  <2> QED BY <1>1, <2>1 DEF Combine, DataShape
<1>8. Peers(p) # {}
  BY PeersAre
<1>9. CASE InTriples(p)
  <2>1. at'[p] >= 5 /\ Place(p)' \in {4, 9} /\ program[call[p]].op = "triples"
    BY <1>1, <1>3, <1>5, <1>9, OneKind, CallIs DEF Combined
  <2>2. PICK r \in 0 .. Loops - 1, k \in 0 .. 9 : Within(p, r, k)
    BY <1>1, <1>4, <1>9, <2>1, MovedTriples
  <2>3. /\ k \in {3, 8} /\ at[p] >= 5 /\ Place(p) = k /\ Round(p) = r /\ Round(p)' = r
        /\ Place(p)' = k + 1 /\ at[p] = 5 + 10 * r + k
    BY <2>1, <2>2, SMTT(30) DEF Within
  <2>4. Op(p) = "combine"
    BY <1>1, <1>9, <2>3, RoundOp
  <2>5. \A q \in Peers(p) : result[p][q] = {Drawn(p)}
    BY <1>1, <1>9, <2>3 DEF ResultOK, After
  <2>6. Drawn(p)' = Drawn(p)
    BY <1>4, <1>5, <1>9, <2>3 DEF Drawn
  <2>7. used'[p] = UNION {result[p][q] : q \in Peers(p)}
    BY <1>7, <2>1, <2>4
  <2> QED BY <1>6, <1>8, <2>5, <2>6, <2>7
<1>10. CASE InOwnInputs(p)
  <2>1. /\ at[p] = 7 /\ ~ InTriples(p) /\ program[call[p]].player = p
    <3>1. /\ at'[p] = 8 /\ at[p] \in 1 .. 7 /\ ~ InTriples(p) /\ program[call[p]].player = p
      BY <1>1, <1>2, <1>3, <1>4, <1>5, <1>10, OneKind, CallIs DEF Combined
    <3> QED BY <1>4, <3>1
  <2>2. Op(p) = "combine"
    BY <1>1, <1>10, <2>1, OpInInputs
  <2>3. \A q \in Peers(p) : result[p][q] = {Drawn(p)}
    BY <1>1, <1>10, <2>1 DEF ResultOK, After
  <2>4. Drawn(p)' = Drawn(p)
    BY <1>4, <1>5, <2>1 DEF Drawn
  <2>5. used'[p] = UNION {result[p][q] : q \in Peers(p)}
    BY <1>7, <2>1, <2>2
  <2> QED BY <1>6, <1>8, <2>3, <2>4, <2>5
<1>11. CASE InInputsOf(p)
  <2>1. /\ at[p] = 5 /\ ~ InTriples(p) /\ ~ InOwnInputs(p)
    <3>1. /\ at'[p] = 6 /\ at[p] \in 1 .. 5 /\ ~ InTriples(p) /\ ~ InOwnInputs(p)
      BY <1>1, <1>2, <1>3, <1>4, <1>5, <1>11, OneKind DEF Combined
    <3> QED BY <1>4, <3>1
  <2>2. PICK o : o = program[call[p]].player
    OBVIOUS
  <2>3. J(p).player = o /\ o \in Peers(p) /\ program[call[p]].op = "inputs" /\ o # p
    <3>1. J(p) = program[call[p]] /\ call[p] \in 1 .. Len(program)
      BY <1>1, <1>11, CallIs
    <3>2. program[call[p]] \in Call /\ J(p).op = "inputs" /\ J(p).player # p
      BY <1>1, <1>11, <3>1 DEF ProgramOK, InInputsOf, InInputs
    <3>3. J(p).player \in Parties
      BY <3>1, <3>2 DEF Call, Triples, Inputs
    <3> QED BY <2>2, <3>1, <3>2, <3>3 DEF Peers
  <2>4. Op(p) = "combine"
    BY <1>1, <1>11, <2>1, OpInInputs
  <2>5. result[p][o] = {Drawn(p)}
    BY <1>1, <1>11, <2>1, <2>3 DEF ResultOK, After
  <2>6. Drawn(p)' = Drawn(p)
    BY <1>4, <1>5, <2>1 DEF Drawn
  <2>7. used'[p] = UNION {result[p][q] : q \in {o}}
    BY <1>7, <2>2, <2>3, <2>4
  <2> QED BY <1>6, <2>5, <2>6, <2>7
<1> QED BY <1>3, <1>5, <1>9, <1>10, <1>11 DEF Combined

-----------------------------------------------------------------------------
(* The counts of a party at the end of the program.                         *)
LEMMA CountsAtEnd ==
  ASSUME IInv, NEW p \in Parties, NEW q \in Peers(p), AtTheEnd(p), program' = program,
         call'[p] = call[p], heard'[p] = heard[p]
  PROVE  Sent(p, q)' = Sent(p, q) /\ Read(p, q)' = Read(p, q)
<1>1. ProgramOK /\ ~ InTriples(p) /\ ~ InOwnInputs(p) /\ ~ InInputsOf(p) /\ call[p] # 0
  BY OneKind, Situations
<1>2. ~ InTriples(p)' /\ ~ InOwnInputs(p)' /\ ~ InInputsOf(p)'
  BY <1>1, SameCall
<1>3. ~ Exchanges(p) /\ SentBefore(p) = 0 /\ ReadBefore(p, q) = 0
  BY <1>1 DEF Exchanges, SentBefore, ReadBefore
<1>4. ~ Exchanges(p)' /\ SentBefore(p)' = 0 /\ ReadBefore(p, q)' = 0
  BY <1>1, <1>2 DEF Exchanges, SentBefore, ReadBefore
<1>5. Base(p)' = Base(p) /\ Base(q)' = Base(q)
  BY StreamSame
<1>6. Talked(p)' = Talked(p) /\ HeardOf(p, q)' = HeardOf(p, q)
  BY DEF Talked, HeardOf
<1>7. SentIn(p, q)' = SentIn(p, q) /\ ReadIn(p, q)' = ReadIn(p, q)
  BY <1>3, <1>4, <1>6 DEF SentIn, ReadIn, TurnSent, TurnRead
<1> QED BY <1>5, <1>7 DEF Sent, Read

(* One turn of the loop of wait_for_multipliers, not the last: no part      *)
(* changes.                                                                 *)
LEMMA PartCollected ==
  ASSUME IInv, NEW p \in Parties, NEW q \in Peers(p), MainStep(p), Stayed(p), Exchanges(p)
  PROVE  Part(p, q)' = Part(p, q) /\ inbox' = inbox
<1> USE SizeAssumption
<1>1. /\ ShapeOK /\ Op(p) = "collect" /\ next[p] \in Peers(p) /\ program' = program /\ step' = step
      /\ call[p] \in 0 .. Len(program)
  BY TurnIs, MainLeaves DEF IInv
<1>2. ~ Moved(p)
  <2>1. Moved(p) /\ call'[p] = call[p] => at'[p] = at[p] + 1
    BY <1>1, MovedElsewhere
  <2>2. at[p] \in Nat
    BY OpKinds
  <2> QED BY <2>1, <2>2 DEF Stayed
<1>3. /\ outbox[p][next[p]] # <<>> /\ inbox' = inbox
      /\ \A o \in Peers(p) \ {next[p]} : outbox'[p][o] = outbox[p][o]
      /\ next'[p] = NextPeer(p, next[p]) /\ NextPeer(p, next[p]) < N
  <2>1. NextPeer(p, next[p]) \in Nat
    BY <1>1, PeersAre
  <2> QED BY <1>1, <1>2, <2>1, CollectIs
<1>4. next'[p] > next[p] /\ next'[p] \in Nat /\ (q > next[p] <=> next'[p] <= q)
  BY <1>1, <1>3, PeersAre
<1>5. From(p)' = From(p) /\ Ops(p, q)' = Ops(p, q)
  BY <1>1, SamePlace DEF Stayed
<1>6. next[p] \in Nat /\ q \in Nat
  BY <1>1 DEF Peers, Parties
<1>7. CASE q = next[p]
  <2>1. inbox[p][q] = <<>> /\ Part(p, q) = Ops(p, q)
    BY <1>3, <1>7, PartIs
  <2>2. Part(p, q)' = Ops(p, q)
    BY <1>3, <1>4, <1>5, <1>7, <2>1 DEF Part
  <2> QED BY <1>3, <2>1, <2>2
<1>8. CASE q < next[p]
  <2>1. inbox[p][q] = <<>> /\ Part(p, q) = Ops(p, q)
    BY <1>6, <1>8, PartIs
  <2>2. next'[p] > q
    BY <1>4, <1>6, <1>8
  <2>3. Part(p, q)' = Ops(p, q)
    BY <1>3, <1>5, <2>1, <2>2 DEF Part
  <2> QED BY <1>3, <2>1, <2>3
<1>9. CASE q > next[p]
  <2>1. ~ (next'[p] > q) /\ ~ (next[p] > q) /\ q # next[p]
    BY <1>4, <1>6, <1>9
  <2>2. outbox'[p][q] = outbox[p][q] /\ inbox'[p][q] = inbox[p][q] /\ step'[p][q] = step[p][q]
    BY <1>1, <1>3, <2>1
  <2>3. Part(p, q)' = IF inbox'[p][q] # <<>> THEN 1
                      ELSE IF next'[p] > q \/ outbox'[p][q] # <<>> THEN Ops(p, q)'
                      ELSE step'[p][q] - From(p)'
    BY DEF Part
  <2> QED BY <1>3, <1>5, <2>1, <2>2, <2>3 DEF Part
<1> QED BY <1>6, <1>7, <1>8, <1>9

(* Main is done with an operation other than an exchange of its own, or     *)
(* with a part of it: nothing is sent or read.                              *)
LEMMA SilentStep ==
  ASSUME CInv, NEW p \in Parties, NEW q \in Peers(p), MainStep(p), Op(p) # "talk"
  PROVE  /\ Sent(p, q)' = Sent(p, q) /\ Read(p, q)' = Read(p, q)
         /\ ResultOK(p, q)'
<1> USE SizeAssumption
<1>1. /\ IInv /\ ProgramOK /\ ShapeOK /\ DataShape /\ program' = program /\ HeardOK(p) /\ ResultOK(p, q)
      /\ call[p] \in 0 .. Len(program) + 1 /\ result' = result /\ heard' = heard /\ Len(program) \in Nat
  BY MainLeaves, MainData, Situations DEF CInv, IInv
<1>2. Moved(p) \/ Stayed(p)
  BY <1>1, MovedOrStayed
<1>3. Talked(p) = 0 /\ Talked(p)' = 0 /\ HeardOf(p, q) = 0 /\ HeardOf(p, q)' = 0
  <2>1. heard[p] = {} /\ heard'[p] = {}
    BY <1>1 DEF HeardOK
  <2> QED BY <2>1 DEF Talked, HeardOf
<1>4. CASE AtTheEnd(p)
  <2>1. call'[p] = call[p]
    BY <1>1, <1>4, EndMain
  <2>2. ~ Exchanges(p)' /\ ~ After(p, q)'
    <3>1. ~ InTriples(p)' /\ ~ InOwnInputs(p)' /\ ~ InInputsOf(p)' /\ call'[p] # 0
      BY <1>1, <1>4, <2>1, OneKind, SameCall
    <3> QED BY <3>1 DEF Exchanges, After
  <2> QED BY <1>1, <1>4, <2>1, <2>2, CountsAtEnd DEF ResultOK
<1>5. CASE ~ AtTheEnd(p) /\ Moved(p)
  <2>1. call[p] \in 0 .. Len(program)
    BY <1>1, <1>5 DEF AtTheEnd
  <2>2. /\ Sent(p, q)' = Base(p)[call[p]] + (SentBefore(p) + SentBy(p, q)) + Talked(p)'
        /\ Read(p, q)' = Base(q)[call[p]] + (ReadBefore(p, q) + ReadBy(p, q)) + HeardOf(p, q)'
    BY <1>1, <1>5, <2>1, MovedCounts
  <2>3. /\ ~ Exchanges(p) => SentBy(p, q) = 0 /\ ReadBy(p, q) = 0
        /\ Exchanges(p) => SentBy(p, q) = TurnSent(p, q) /\ ReadBy(p, q) = TurnRead(p, q)
        /\ SentBy(p, q) \in Nat /\ ReadBy(p, q) \in Nat
    BY <1>1, <1>5, <2>1, MovedCounts
  <2>4. SentBy(p, q) = TurnSent(p, q) /\ ReadBy(p, q) = TurnRead(p, q)
    BY <2>3 DEF TurnSent, TurnRead
  <2>5. /\ SentBefore(p) \in Nat /\ ReadBefore(p, q) \in Nat
        /\ TurnSent(p, q) \in Nat /\ TurnRead(p, q) \in Nat
    BY <1>1, BeforeIs, CountsAre
  <2>6. Base(p)[call[p]] \in Nat /\ Base(q)[call[p]] \in Nat
    BY <1>1, BaseIs
  <2>7. Sent(p, q)' = Sent(p, q) /\ Read(p, q)' = Read(p, q)
    BY <1>3, <2>2, <2>4, <2>5, <2>6 DEF Sent, Read, SentIn, ReadIn
  <2>8. ResultOK(p, q)'
    BY <1>5, <2>1, ResultMoved
  <2> QED BY <2>7, <2>8
<1>6. CASE ~ AtTheEnd(p) /\ Stayed(p)
  <2>1. Exchanges(p) => Part(p, q)' = Part(p, q) /\ inbox' = inbox
    BY <1>1, <1>6, PartCollected
  <2>2. PICK n : n = Part(p, q)
    OBVIOUS
  <2>3. Exchanges(p) => Part(p, q) = n /\ Part(p, q)' = n
    BY <2>1, <2>2
  <2>4. /\ SentBefore(p)' = SentBefore(p) /\ ReadBefore(p, q)' = ReadBefore(p, q)
        /\ Exchanges(p)' = Exchanges(p) /\ Drawn(p)' = Drawn(p) /\ call'[p] = call[p]
        /\ SentAt(p, n)' = SentAt(p, n) /\ ReadAt(p, n)' = ReadAt(p, n)
    BY <1>1, <1>6, SamePlace DEF Stayed
  <2>5. TurnSent(p, q)' = TurnSent(p, q) /\ TurnRead(p, q)' = TurnRead(p, q)
    BY <2>3, <2>4 DEF TurnSent, TurnRead
  <2>6. Base(p)' = Base(p) /\ Base(q)' = Base(q)
    BY <1>1, StreamSame
  <2>7. SentIn(p, q)' = SentIn(p, q) /\ ReadIn(p, q)' = ReadIn(p, q)
    BY <1>3, <2>4, <2>5 DEF SentIn, ReadIn
  <2>8. Sent(p, q)' = Sent(p, q) /\ Read(p, q)' = Read(p, q)
    BY <2>4, <2>6, <2>7 DEF Sent, Read
  <2>9. After(p, q)' = After(p, q)
    <3>1. /\ InTriples(p)' = InTriples(p) /\ InOwnInputs(p)' = InOwnInputs(p)
          /\ InInputsOf(p)' = InInputsOf(p) /\ J(p)' = J(p)
      BY <1>1, <1>6, SameCall DEF Stayed
    <3>2. Place(p)' = Place(p)
      BY <1>1, <1>6, SamePlace DEF Stayed
    <3> QED BY <1>6, <3>1, <3>2 DEF After, Stayed
  <2>10. ResultOK(p, q)'
    BY <1>1, <2>1, <2>4, <2>9 DEF ResultOK
  <2> QED BY <2>8, <2>10
<1> QED BY <1>2, <1>4, <1>5, <1>6

(* What main has said and heard in an exchange of its own.                  *)
LEMMA TalkCounts ==
  ASSUME IInv, NEW p \in Parties, NEW q \in Peers(p), Op(p) = "talk", program' = program
  PROVE  /\ ~ Exchanges(p) /\ call[p] \in 0 .. Len(program)
         /\ SentBefore(p) \in Nat /\ ReadBefore(p, q) \in Nat
         /\ Base(p)[call[p]] \in Nat /\ Base(q)[call[p]] \in Nat
         /\ SentIn(p, q) = SentBefore(p) + Talked(p) /\ ReadIn(p, q) = ReadBefore(p, q) + HeardOf(p, q)
         /\ Sent(p, q) = Base(p)[call[p]] + SentBefore(p) + Talked(p)
         /\ Read(p, q) = Base(q)[call[p]] + ReadBefore(p, q) + HeardOf(p, q)
         /\ Stayed(p) => /\ Sent(p, q)' = Base(p)[call[p]] + SentBefore(p) + Talked(p)'
                         /\ Read(p, q)' = Base(q)[call[p]] + ReadBefore(p, q) + HeardOf(p, q)'
                         /\ ~ Exchanges(p)'
<1>1. ~ Exchanges(p) /\ call[p] \in 0 .. Len(program) /\ ProgramOK
  BY TalkIs, Situations
<1>2. SentBefore(p) \in Nat /\ ReadBefore(p, q) \in Nat
  BY BeforeIs
<1>3. Base(p)[call[p]] \in Nat /\ Base(q)[call[p]] \in Nat
  BY <1>1, Situations, BaseIs
<1>4. TurnSent(p, q) = 0 /\ TurnRead(p, q) = 0
  BY <1>1 DEF TurnSent, TurnRead
<1>5. /\ Talked(p) \in Nat /\ Talked(p)' \in Nat /\ HeardOf(p, q) \in Nat /\ HeardOf(p, q)' \in Nat
  BY DEF Talked, HeardOf
<1>6. SentIn(p, q) = SentBefore(p) + Talked(p) /\ ReadIn(p, q) = ReadBefore(p, q) + HeardOf(p, q)
  BY <1>2, <1>4, <1>5 DEF SentIn, ReadIn
<1>7. /\ Sent(p, q) = Base(p)[call[p]] + SentBefore(p) + Talked(p)
      /\ Read(p, q) = Base(q)[call[p]] + ReadBefore(p, q) + HeardOf(p, q)
  BY <1>2, <1>3, <1>5, <1>6 DEF Sent, Read
<1>8. ASSUME Stayed(p)
      PROVE  /\ Sent(p, q)' = Base(p)[call[p]] + SentBefore(p) + Talked(p)'
             /\ Read(p, q)' = Base(q)[call[p]] + ReadBefore(p, q) + HeardOf(p, q)'
             /\ ~ Exchanges(p)'
  <2>1. /\ Exchanges(p)' = Exchanges(p) /\ SentBefore(p)' = SentBefore(p)
        /\ ReadBefore(p, q)' = ReadBefore(p, q) /\ call'[p] = call[p]
    BY <1>8, SamePlace DEF Stayed
  <2>2. Base(p)' = Base(p) /\ Base(q)' = Base(q)
    BY StreamSame
  <2>3. TurnSent(p, q)' = 0 /\ TurnRead(p, q)' = 0
    BY <1>1, <2>1 DEF TurnSent, TurnRead
  <2>4. /\ SentIn(p, q)' = SentBefore(p) + Talked(p)' /\ ReadIn(p, q)' = ReadBefore(p, q) + HeardOf(p, q)'
    BY <1>2, <1>5, <2>1, <2>3 DEF SentIn, ReadIn
  <2> QED BY <1>1, <1>2, <1>3, <1>5, <2>1, <2>2, <2>4, SMTT(30) DEF Sent, Read
<1> QED BY <1>1, <1>2, <1>3, <1>6, <1>7, <1>8

(* What another party's main and multipliers have then.                     *)
LEMMA OthersStill ==
  ASSUME CInv, NEW p \in Parties, MainStep(p), NEW o \in Parties \ {p}, NEW r \in Peers(o)
  PROVE  /\ Sent(o, r)' = Sent(o, r) /\ Read(o, r)' = Read(o, r)
         /\ BitsOK(o)' /\ UsedOK(o)' /\ HeardOK(o)' /\ ResultOK(o, r)'
<1>1. IInv /\ ShapeOK /\ DataShape
  BY DEF CInv, IInv
<1>2. program' = program /\ Still(o) /\ StillPair(o, r)
  BY <1>1, MainLeaves, MainData DEF Still, StillPair
<1>3. BitsOK(o) /\ UsedOK(o) /\ HeardOK(o) /\ ResultOK(o, r)
  BY DEF CInv
<1> QED BY <1>2, <1>3, MainStill, PairStill

(* Main sends to all peers.                                                 *)
LEMMA TalkStep ==
  ASSUME CInv, NEW p \in Parties, MainStep(p), Talk(p), NEW q \in Peers(p)
  PROVE  Linked(p, q)' /\ Linked(q, p)' /\ Stayed(p) /\ HeardOK(p)'
<1>1. /\ IInv /\ ShapeOK /\ DataShape /\ q \in Parties \ {p} /\ p \in Peers(q) /\ p # q
      /\ Linked(p, q) /\ Linked(q, p)
  BY DEF CInv, Peers, IInv
<1>2. /\ Op(p) = "talk" /\ heard[p] = {} /\ program' = program /\ Stayed(p)
      /\ heard'[p] = {p}
  BY <1>1 DEF Talk, Stayed, DataShape
<1>3. PICK m : m = Message("main", Topic(p))
  OBVIOUS
<1>4. chan' = [chan EXCEPT ![p] = [o \in Peers(p) |-> Append(@[o], m)]]
  BY <1>3 DEF Talk
<1>5. chan'[p][q] = Append(chan[p][q], m) /\ chan'[q][p] = chan[q][p]
  BY <1>1, <1>4 DEF DataShape
<1>6. Talked(p) = 0 /\ Talked(p)' = 1 /\ HeardOf(p, q) = 0 /\ HeardOf(p, q)' = 0
  BY <1>1, <1>2 DEF Talked, HeardOf
<1>7. /\ SentBefore(p) \in Nat /\ ReadBefore(p, q) \in Nat
      /\ Base(p)[call[p]] \in Nat /\ Base(q)[call[p]] \in Nat
      /\ SentIn(p, q) = SentBefore(p) + Talked(p)
      /\ Sent(p, q) = Base(p)[call[p]] + SentBefore(p) + Talked(p)
      /\ Read(p, q) = Base(q)[call[p]] + ReadBefore(p, q) + HeardOf(p, q)
      /\ Sent(p, q)' = Base(p)[call[p]] + SentBefore(p) + Talked(p)'
      /\ Read(p, q)' = Base(q)[call[p]] + ReadBefore(p, q) + HeardOf(p, q)'
      /\ call[p] \in 0 .. Len(program)
  BY <1>1, <1>2, TalkCounts
<1>8. Sent(p, q)' = Sent(p, q) + 1 /\ Read(p, q)' = Read(p, q) /\ SentIn(p, q) = SentBefore(p)
  BY <1>6, <1>7
<1>9. Sent(q, p)' = Sent(q, p) /\ Read(q, p)' = Read(q, p)
  BY <1>1, OthersStill
<1>10. PICK i : i = SentIn(p, q) + 1
  OBVIOUS
<1>11. i \in 1 .. Total(p, call[p]) /\ Said(p, call[p], i) = m
  BY <1>1, <1>2, <1>3, <1>8, <1>10, TalkIs
<1>12. Linked(p, q)'
  BY <1>1, <1>2, <1>5, <1>7, <1>8, <1>9, <1>10, <1>11, LinkedSend
<1>13. Linked(q, p)'
  BY <1>1, <1>2, <1>5, <1>8, <1>9, LinkedSame
<1>14. HeardOK(p)'
  <2>1. Op(p)' = Op(p)
    BY <1>2, SamePlace DEF Stayed
  <2> QED BY <1>2, <2>1 DEF HeardOK
<1> QED BY <1>2, <1>12, <1>13, <1>14

(* Main receives from one peer, the last or not.                            *)
LEMMA HearStep ==
  ASSUME CInv, NEW p \in Parties, MainStep(p), NEW r \in Peers(p), Hear(p, r), NEW q \in Peers(p)
  PROVE  Linked(p, q)' /\ Linked(q, p)' /\ HeardOK(p)'
<1>1. /\ IInv /\ ShapeOK /\ DataShape /\ q \in Parties \ {p} /\ p \in Peers(q) /\ p # q
      /\ Linked(p, q) /\ Linked(q, p) /\ r # p /\ r \in Parties /\ HeardOK(p)
  BY DEF CInv, Peers, IInv
<1>2. /\ Op(p) = "talk" /\ p \in heard[p] /\ r \notin heard[p] /\ program' = program
      /\ chan[r][p] # <<>> /\ chan' = [chan EXCEPT ![r][p] = Tail(@)]
  BY DEF Hear
<1>3. /\ chan'[p][q] = chan[p][q]
      /\ q # r => chan'[q][p] = chan[q][p]
      /\ q = r => chan'[q][p] = Tail(chan[q][p]) /\ chan[q][p] # <<>>
  BY <1>1, <1>2 DEF DataShape
<1>4. /\ SentBefore(p) \in Nat /\ ReadBefore(p, q) \in Nat
      /\ Base(p)[call[p]] \in Nat /\ Base(q)[call[p]] \in Nat
      /\ Sent(p, q) = Base(p)[call[p]] + SentBefore(p) + Talked(p)
      /\ Read(p, q) = Base(q)[call[p]] + ReadBefore(p, q) + HeardOf(p, q)
      /\ Stayed(p) => /\ Sent(p, q)' = Base(p)[call[p]] + SentBefore(p) + Talked(p)'
                      /\ Read(p, q)' = Base(q)[call[p]] + ReadBefore(p, q) + HeardOf(p, q)'
      /\ ~ Exchanges(p) /\ call[p] \in 0 .. Len(program)
  BY <1>1, <1>2, TalkCounts
<1>5. Talked(p) = 1 /\ HeardOf(p, r) = 0
  BY <1>2 DEF Talked, HeardOf
<1>6. /\ Sent(p, q)' = Sent(p, q) /\ HeardOK(p)'
      /\ Read(p, q)' = IF q = r THEN Read(p, q) + 1 ELSE Read(p, q)
  <2>1. CASE heard[p] \cup {r} = Parties
    <3>1. heard'[p] = {} /\ Moved(p)
      BY <1>1, <2>1, AdvanceIs DEF Hear, DataShape
    <3>2. Talked(p)' = 0 /\ HeardOf(p, q)' = 0 /\ HeardOK(p)'
      BY <3>1 DEF Talked, HeardOf, HeardOK
    <3>3. SentBy(p, q) = 1 /\ ReadBy(p, q) = 1
      BY <1>2, <1>4 DEF SentBy, ReadBy
    <3>4. /\ Sent(p, q)' = Base(p)[call[p]] + (SentBefore(p) + SentBy(p, q)) + Talked(p)'
          /\ Read(p, q)' = Base(q)[call[p]] + (ReadBefore(p, q) + ReadBy(p, q)) + HeardOf(p, q)'
      BY <1>1, <1>4, <3>1, MovedCounts
    <3>5. HeardOf(p, q) = IF q = r THEN 0 ELSE 1
      BY <1>1, <1>2, <2>1 DEF HeardOf
    <3>6. Sent(p, q)' = Sent(p, q)
      <4>1. \A b, m \in Nat : b + (m + 1) + 0 = b + m + 1
        OBVIOUS
      <4> QED BY <1>4, <1>5, <3>2, <3>3, <3>4, <4>1
    <3>7. Read(p, q)' = Base(q)[call[p]] + ReadBefore(p, q) + 1
      <4>1. \A b, m \in Nat : b + (m + 1) + 0 = b + m + 1
        OBVIOUS
      <4> QED BY <1>4, <3>2, <3>3, <3>4, <4>1
    <3>8. Read(p, q)' = IF q = r THEN Read(p, q) + 1 ELSE Read(p, q)
      <4>1. CASE q = r
        <5>1. \A b, m \in Nat : b + m + 1 = b + m + 0 + 1
          OBVIOUS
        <5> QED BY <1>4, <3>5, <3>7, <4>1, <5>1
      <4>2. CASE q # r
        BY <1>4, <3>5, <3>7, <4>2
      <4> QED BY <4>1, <4>2
    <3> QED BY <3>2, <3>6, <3>8
  <2>2. CASE heard[p] \cup {r} # Parties
    <3>1. heard'[p] = heard[p] \cup {r} /\ Stayed(p)
      BY <1>1, <2>2 DEF Hear, DataShape, Stayed
    <3>2. Talked(p)' = 1 /\ HeardOf(p, q)' = IF q = r THEN 1 ELSE HeardOf(p, q)
      BY <3>1 DEF Talked, HeardOf
    <3>3. HeardOf(p, q) \in Nat /\ (q = r => HeardOf(p, q) = 0)
      BY <1>5 DEF HeardOf
    <3>4. HeardOK(p)'
      <4>1. Op(p)' = Op(p)
        BY <1>2, <3>1, SamePlace DEF Stayed
      <4> QED BY <1>1, <1>2, <3>1, <4>1 DEF HeardOK
    <3> QED BY <1>4, <1>5, <3>1, <3>2, <3>3, <3>4
  <2> QED BY <2>1, <2>2
<1>7. Sent(q, p)' = Sent(q, p) /\ Read(q, p)' = Read(q, p)
  BY <1>1, OthersStill
<1>8. Linked(p, q)'
  BY <1>1, <1>2, <1>3, <1>6, <1>7, LinkedSame
<1>9. Linked(q, p)'
  <2>1. CASE q = r
    BY <1>1, <1>2, <1>3, <1>6, <1>7, <2>1, LinkedRead
  <2>2. CASE q # r
    BY <1>1, <1>2, <1>3, <1>6, <1>7, <2>2, LinkedSame
  <2> QED BY <2>1, <2>2
<1> QED BY <1>6, <1>8, <1>9

(* No step of main breaks the invariant.                                    *)
LEMMA MainKeepsData ==
  ASSUME CInv, NEW p \in Parties, MainStep(p)
  PROVE  CInv'
<1> USE SizeAssumption
<1>1. /\ IInv /\ ProgramOK /\ ShapeOK /\ DataShape /\ BitsOK(p) /\ UsedOK(p) /\ HeardOK(p)
      /\ \A q \in Peers(p) : ResultOK(p, q)
      /\ Len(program) \in Nat /\ call[p] \in 0 .. Len(program) + 1
  BY Situations DEF CInv
<1>2. IInv' /\ DataShape' /\ program' = program /\ result' = result
  BY <1>1, MainKeeps, MainLeaves, MainData
<1>3. Moved(p) \/ Stayed(p)
  BY <1>1, MovedOrStayed
<1>4. Stayed(p) => ~ Moved(p)
  <2>1. at[p] \in Nat /\ call[p] \in Nat
    BY <1>1, OpKinds
  <2> QED BY <2>1 DEF Stayed, Moved
<1>5. ASSUME Stayed(p)
      PROVE  /\ BitsOK(p)' /\ UsedOK(p)'
             /\ Op(p) = "talk" => \A q \in Peers(p) : ResultOK(p, q)'
  <2>1. valueBits'[p] = valueBits[p] /\ used'[p] = used[p]
    BY <1>1, <1>4, <1>5, MainData
  <2>2. /\ BitsOK(p)' /\ UsedOK(p)' /\ \A q : After(p, q)' = After(p, q)
    BY <1>1, <1>2, <1>5, <2>1, PlaceStill DEF Stayed
  <2>3. ASSUME Op(p) = "talk", NEW q \in Peers(p) PROVE ResultOK(p, q)'
    <3>1. ~ Exchanges(p)'
      BY <1>1, <1>2, <1>5, <2>3, TalkCounts
    <3>2. Drawn(p)' = Drawn(p)
      BY <1>2, <1>5, SamePlace DEF Stayed
    <3> QED BY <1>1, <1>2, <2>2, <3>1, <3>2 DEF ResultOK
  <2> QED BY <2>2, <2>3
<1>6. ASSUME AtTheEnd(p) PROVE BitsOK(p)' /\ UsedOK(p)'
  <2>1. call'[p] = call[p]
    BY <1>1, <1>6, EndMain, PeersAre
  <2>2. ~ InTriples(p)' /\ ~ InOwnInputs(p)' /\ ~ InInputsOf(p)' /\ call'[p] # 0
    BY <1>1, <1>2, <1>6, <2>1, OneKind, SameCall
  <2> QED BY <2>2 DEF BitsOK, UsedOK, Combined
<1>7. BitsOK(p)' /\ UsedOK(p)'
  <2>1. ~ AtTheEnd(p) => call[p] \in 0 .. Len(program)
    BY <1>1 DEF AtTheEnd
  <2> QED BY <1>3, <1>5, <1>6, <2>1, BitsMoved, UsedMoved
<1>8. HeardOK(p)' /\ \A q \in Peers(p) : Linked(p, q)' /\ Linked(q, p)' /\ ResultOK(p, q)'
  <2>1. CASE Op(p) = "talk"
    <3>1. Talk(p) \/ \E r \in Peers(p) : Hear(p, r)
      BY <1>1, <2>1, MainData
    <3>2. HeardOK(p)' /\ \A q \in Peers(p) : Linked(p, q)' /\ Linked(q, p)'
      <4>1. Peers(p) # {}
        BY PeersAre
      <4> QED BY <3>1, <4>1, TalkStep, HearStep
    <3>3. ASSUME NEW q \in Peers(p) PROVE ResultOK(p, q)'
      <4>1. call[p] \in 0 .. Len(program)
        BY <1>1, <1>2, <2>1, TalkCounts
      <4> QED BY <1>3, <1>5, <2>1, <4>1, ResultMoved
    <3> QED BY <3>2, <3>3
  <2>2. CASE Op(p) # "talk"
    <3>1. chan' = chan /\ heard' = heard
      BY <1>1, <2>2, MainData
    <3>2. HeardOK(p)'
      BY <1>1, <2>2, <3>1 DEF HeardOK
    <3>3. ASSUME NEW q \in Peers(p) PROVE Linked(p, q)' /\ Linked(q, p)' /\ ResultOK(p, q)'
      <4>1. q \in Parties \ {p} /\ p \in Peers(q)
        BY DEF Peers
      <4>2. /\ Sent(p, q)' = Sent(p, q) /\ Read(p, q)' = Read(p, q) /\ ResultOK(p, q)'
            /\ Sent(q, p)' = Sent(q, p) /\ Read(q, p)' = Read(q, p)
        BY <2>2, <4>1, SilentStep, OthersStill
      <4>3. Linked(p, q) /\ Linked(q, p)
        BY <4>1 DEF CInv
      <4> QED BY <1>2, <3>1, <4>2, <4>3, LinkedSame
    <3> QED BY <3>2, <3>3
  <2> QED BY <2>1, <2>2
<1>9. ASSUME NEW o \in Parties \ {p}
      PROVE  /\ BitsOK(o)' /\ UsedOK(o)' /\ HeardOK(o)'
             /\ \A r \in Peers(o) : Linked(o, r)' /\ ResultOK(o, r)'
  <2>1. BitsOK(o)' /\ UsedOK(o)' /\ HeardOK(o)' /\ \A r \in Peers(o) : ResultOK(o, r)'
    <3>1. Peers(o) # {}
      BY PeersAre
    <3> QED BY <3>1, OthersStill
  <2>2. ASSUME NEW r \in Peers(o) PROVE Linked(o, r)'
    <3>1. CASE r = p
      <4>1. o \in Peers(p)
        BY DEF Peers
      <4> QED BY <1>8, <3>1, <4>1
    <3>2. CASE r # p
      <4>1. r \in Parties \ {p} /\ o \in Peers(r) /\ o # p
        BY <3>2 DEF Peers
      <4>2. chan'[o][r] = chan[o][r]
        BY <1>1, <3>2, <4>1, MainData
      <4>3. Sent(o, r)' = Sent(o, r) /\ Read(r, o)' = Read(r, o) /\ Linked(o, r)
        BY <4>1, OthersStill DEF CInv
      <4> QED BY <1>2, <4>2, <4>3, LinkedSame
    <3> QED BY <3>1, <3>2
  <2> QED BY <2>1, <2>2
<1>10. Parties' = Parties /\ \A o : Peers(o)' = Peers(o)
  BY DEF Peers, Parties
<1> QED BY <1>2, <1>7, <1>8, <1>9, <1>10 DEF CInv

-----------------------------------------------------------------------------
(* At the start nothing has been said, and nothing has been drawn.          *)
LEMMA DataInit == Init => CInv
<1> SUFFICES ASSUME Init PROVE CInv
  OBVIOUS
<1>1. IInv /\ ProgramOK
  BY InitInv DEF IInv
<1>2. DataShape
  BY DEF Init, DataShape
<1>3. ASSUME NEW p \in Parties
      PROVE  /\ call[p] = 0 /\ heard[p] = {} /\ valueBits[p] = <<>> /\ Exchanges(p) /\ SentBefore(p) = 0
             /\ ~ InTriples(p) /\ ~ InOwnInputs(p) /\ ~ InInputsOf(p) /\ Base(p)[0] = 0
  <2>1. call[p] = 0 /\ heard[p] = {} /\ valueBits[p] = <<>>
    BY DEF Init
  <2>2. ~ InTriples(p) /\ ~ InOwnInputs(p) /\ ~ InInputsOf(p)
    BY <1>1, <2>1, OneKind
  <2>3. Base(p)[0] = 0
    BY <1>1, BaseIs DEF IsSums
  <2> QED BY <2>1, <2>2, <2>3 DEF Exchanges, SentBefore
<1>4. ASSUME NEW p \in Parties PROVE BitsOK(p) /\ UsedOK(p) /\ HeardOK(p)
  BY <1>3 DEF BitsOK, UsedOK, Combined, HeardOK
<1>5. ASSUME NEW p \in Parties, NEW q \in Peers(p)
      PROVE  /\ Sent(p, q) = 0 /\ Read(p, q) = 0 /\ Part(p, q) = 1 /\ result[p][q] = {}
             /\ chan[p][q] = <<>>
  <2>1. q \in Parties
    BY DEF Peers
  <2>2. /\ inbox[p][q] = <<>> /\ outbox[p][q] = <<>> /\ next[p] = FirstPeer(p) /\ step[p][q] = 1
        /\ result[p][q] = {} /\ chan[p][q] = <<>>
    BY DEF Init
  <2>3. ~ (next[p] > q)
    <3>1. FirstPeer(p) <= q /\ FirstPeer(p) \in Peers(p)
      BY PeersAre
    <3> QED BY <2>2, <3>1, SizeAssumption DEF Peers, Parties
  <2>4. Part(p, q) = 1
    BY <1>3, <2>2, <2>3 DEF Part, From
  <2>5. TurnSent(p, q) = 0 /\ TurnRead(p, q) = 0
    BY <1>3, <2>4 DEF TurnSent, TurnRead, SentAt, ReadAt
  <2>6. Talked(p) = 0 /\ HeardOf(p, q) = 0 /\ ReadBefore(p, q) = 0
    BY <1>3 DEF Talked, HeardOf, ReadBefore
  <2>7. Sent(p, q) = 0 /\ Read(p, q) = 0
    BY <1>3, <2>1, <2>5, <2>6 DEF Sent, Read, SentIn, ReadIn
  <2> QED BY <2>2, <2>4, <2>7
<1>6. ASSUME NEW p \in Parties, NEW q \in Peers(p) PROVE Linked(p, q) /\ ResultOK(p, q)
  <2>1. q \in Parties /\ p \in Peers(q)
    BY DEF Peers
  <2>2. Linked(p, q)
    <3>1. Slice(Stream(p), 0, 0) = <<>>
      BY SliceIs
    <3> QED BY <1>5, <2>1, <3>1 DEF Linked
  <2>3. ResultOK(p, q)
    BY <1>3, <1>5 DEF ResultOK, After
  <2> QED BY <2>2, <2>3
<1> QED BY <1>1, <1>2, <1>4, <1>6 DEF CInv

(* Nor does a step in which nothing happens.                                *)
LEMMA RestKeepsData ==
  ASSUME CInv, IInv', UNCHANGED vars
  PROVE  CInv'
<1>1. /\ program' = program /\ chan' = chan /\ DataShape'
      /\ \A p \in Parties : Still(p) /\ \A q \in Peers(p) : StillPair(p, q)
  BY DEF CInv, DataShape, Still, StillPair, vars, mains, threads
<1>2. \A p \in Parties : BitsOK(p)' /\ UsedOK(p)' /\ HeardOK(p)'
  BY <1>1, MainStill DEF CInv
<1>3. ASSUME NEW p \in Parties, NEW q \in Peers(p)
      PROVE  Sent(p, q)' = Sent(p, q) /\ Read(p, q)' = Read(p, q) /\ ResultOK(p, q)'
  BY <1>1, PairStill DEF CInv
<1>4. ASSUME NEW p \in Parties, NEW q \in Peers(p) PROVE Linked(p, q)'
  <2>1. q \in Parties /\ p \in Peers(q)
    BY DEF Peers
  <2>2. Sent(p, q)' = Sent(p, q) /\ Read(q, p)' = Read(q, p) /\ Linked(p, q)
    BY <1>3, <2>1 DEF CInv
  <2> QED BY <1>1, <2>2, LinkedSame
<1>5. Parties' = Parties /\ \A o : Peers(o)' = Peers(o)
  BY DEF Peers, Parties
<1> QED BY <1>1, <1>2, <1>3, <1>4, <1>5 DEF CInv

(* Every connection of globalPlayer holds, between any two parties, what    *)
(* one has sent and the other has not read of one stream; the turns of main *)
(* and of OTMultiplier::multiply fix how far either is.                     *)
THEOREM StreamsInvariance == Spec => []CInv
<1>1. CInv /\ [Next]_vars => CInv'
  <2> SUFFICES ASSUME CInv, [Next]_vars PROVE CInv'
    OBVIOUS
  <2>1. CASE UNCHANGED vars
    <3>1. IInv'
      BY NextKeeps DEF CInv
    <3> QED BY <2>1, <3>1, RestKeepsData
  <2>2. CASE \E p \in Parties : MainStep(p)
    BY <2>2, MainKeepsData
  <2>3. CASE \E p \in Parties : \E q \in Peers(p) : MultiplierStep(p, q)
    BY <2>3, MultiplierKeepsData
  <2> QED BY <2>1, <2>2, <2>3 DEF Next, AllOver
<1> QED BY DataInit, <1>1, PTL DEF Spec

(* What is at the head of a connection is for the thread that reads next,   *)
(* and for the step it is at: the exchanges of correlate and those of the   *)
(* main thread, which no tag tells apart, do not get mixed up.              *)
THEOREM AlwaysRightReader == Spec => []RightReader
<1>1. CInv => RightReader
  <2> SUFFICES ASSUME CInv, NEW p \in Parties, NEW q \in Peers(p), chan[q][p] # <<>>
               PROVE  LET m == Head(chan[q][p])
                      IN  /\ Does(p, q, "receive") => m.user = "ot" /\ m.about[1] = Vector(p, q)
                          /\ Op(p) = "talk" /\ heard[p] # {} /\ q \notin heard[p]
                               => m.user = "main" /\ m.about = Topic(p)
    BY DEF RightReader
  <2>1. IInv /\ q \in Parties /\ p \in Peers(q) /\ Linked(q, p)
    BY DEF CInv, Peers
  <2>2. ReadIn(p, q) + 1 \in 1 .. Total(q, call[p]) /\ call[p] \in 0 .. Len(program) =>
          Head(chan[q][p]) = Said(q, call[p], ReadIn(p, q) + 1)
    BY <2>1, LinkedRead
  <2>3. ASSUME Does(p, q, "receive")
        PROVE  Head(chan[q][p]).user = "ot" /\ Head(chan[q][p]).about[1] = Vector(p, q)
    <3>1. PICK n : n = Part(p, q)
      OBVIOUS
    <3>2. PICK o : o = MultiplierScript(p, q)[step[p][q]]
      OBVIOUS
    <3>3. Exchanges(p) /\ n \in 1 .. Ops(p, q) - 1 /\ AtWork(p, q, n)
      BY <2>1, <2>3, <3>1, Doing
    <3>4. /\ TurnSends(p, n, o) \/ TurnReads(p, q, n, o)
          /\ call[p] \in 0 .. Len(program) /\ ReadIn(p, q) = ReadBefore(p, q) + ReadAt(p, n)
      BY <3>1, <3>2, <3>3, ActiveIs
    <3>5. TurnReads(p, q, n, o)
      BY <2>3, <3>2, <3>4 DEF TurnSends, Does
    <3>6. Head(chan[q][p]) = Message("ot", <<o[2], Drawn(p)>>)
      BY <2>2, <3>4, <3>5 DEF TurnReads
    <3> QED BY <3>2, <3>6 DEF Message, Vector
  <2>4. ASSUME Op(p) = "talk", heard[p] # {}, q \notin heard[p]
        PROVE  Head(chan[q][p]).user = "main" /\ Head(chan[q][p]).about = Topic(p)
    <3>1. /\ ~ Exchanges(p) /\ call[p] \in 0 .. Len(program) /\ ReadBefore(p, q) \in Nat
          /\ ReadBefore(p, q) + 1 \in 1 .. Total(q, call[p])
          /\ Said(q, call[p], ReadBefore(p, q) + 1) = Message("main", Topic(p))
      BY <2>1, <2>4, TalkIs, Situations, BeforeIs
    <3>2. ReadIn(p, q) = ReadBefore(p, q)
      BY <2>4, <3>1 DEF ReadIn, HeardOf, TurnRead
    <3>3. Head(chan[q][p]) = Message("main", Topic(p))
      BY <2>2, <3>1, <3>2
    <3> QED BY <3>3 DEF Message
  <2> QED BY <2>3, <2>4
<1> QED BY <1>1, StreamsInvariance, PTL

(* Where main has just added up the results.                                *)
LEMMA HasCombined ==
  ASSUME IInv, NEW p \in Parties, at[p] > 1, MainScript(p)[at[p] - 1] = "combine"
  PROVE  /\ Combined(p) /\ call[p] # 0
         /\ InTriples(p) => Place(p) >= 1
<1> USE SizeAssumption
<1>1. /\ ProgramOK /\ Len(program) \in Nat /\ call[p] \in 0 .. Len(program) + 1
      /\ call[p] = 0 \/ InTriples(p) \/ InOwnInputs(p) \/ InInputsOf(p) \/ AtTheEnd(p)
      /\ call[p] # 0
  BY Situations
<1>2. CASE InTriples(p)
  <2>1. MainScript(p) = TriplesScript
    BY <1>1, <1>2 DEF MainScript, InTriples, J
  <2>2. /\ TriplesScript[1] = "job" /\ TriplesScript[2] = "resize"
        /\ TriplesScript[3] = "collect" /\ TriplesScript[4] = "lock"
    BY MainTriples
  <2>3. ASSUME NEW r \in 0 .. Loops, at[p] = 5 + 10 * r PROVE FALSE
    <3>1. CASE r = 0
      BY <2>1, <2>2, <2>3, <3>1
    <3>2. CASE r # 0
      <4>1. PICK s : s = r - 1
        OBVIOUS
      <4>2. s \in 0 .. Loops - 1 /\ 9 \in 0 .. 9 /\ at[p] - 1 = 5 + 10 * s + 9 /\ 9 + 1 = 10
        BY <2>3, <3>2, <4>1
      <4>3. TriplesScript[at[p] - 1] = TripleRound[10]
        BY <4>2, MainTriples
      <4> QED BY <2>1, <4>3 DEF TripleRound
    <3> QED BY <3>1, <3>2
  <2>4. ~ (at[p] \in 1 .. 4)
    BY <2>1, <2>2
  <2>5. PICK r \in 0 .. Loops - 1, k \in 0 .. 9 : at[p] = 5 + 10 * r + k
    BY <1>2, <2>3, <2>4, Situations
  <2>6. k # 0
    BY <2>3, <2>5
  <2>7. k \in {4, 9}
    <3>1. PICK m : m = k - 1
      OBVIOUS
    <3>2. m \in 0 .. 9 /\ at[p] - 1 = 5 + 10 * r + m /\ m + 1 = k
      BY <2>5, <2>6, <3>1
    <3>3. TriplesScript[at[p] - 1] = TripleRound[k]
      BY <3>2, MainTriples
    <3> QED BY <2>1, <2>6, <3>3 DEF TripleRound
  <2>8. at[p] >= 5 /\ Place(p) = k
    <3>1. r \in Nat
      OBVIOUS
    <3> QED BY <2>5, <3>1, PlaceIs DEF Place
  <2> QED BY <1>1, <1>2, <2>7, <2>8 DEF Combined
<1>3. CASE InOwnInputs(p)
  <2>1. MainScript(p) = InputsScript(TRUE)
    BY <1>1, <1>3, MainScriptIs
  <2>2. at[p] \in 1 .. 8 /\ ~ InTriples(p)
    BY <1>1, <1>3, Situations, OneKind
  <2>3. at[p] = 8
    <3>1. /\ MainScript(p)[1] = "shrink"
          /\ MainScript(p)[2] = "job"
          /\ MainScript(p)[3] = "randomize"
          /\ MainScript(p)[4] = "go"
          /\ MainScript(p)[5] = "collect"
          /\ MainScript(p)[6] = "talk"
      BY <2>1, MainInputs
    <3> QED BY <2>2, <3>1
  <2> QED BY <1>1, <1>3, <2>2, <2>3 DEF Combined
<1>4. CASE InInputsOf(p)
  <2>1. MainScript(p) = InputsScript(FALSE)
    BY <1>1, <1>4, MainScriptIs
  <2>2. at[p] \in 1 .. 6 /\ ~ InTriples(p)
    BY <1>1, <1>4, Situations, OneKind
  <2>3. at[p] = 6
    <3>1. /\ MainScript(p)[1] = "shrink"
          /\ MainScript(p)[2] = "job"
          /\ MainScript(p)[3] = "collect"
          /\ MainScript(p)[4] = "talk"
      BY <2>1, MainInputs
    <3> QED BY <2>2, <3>1
  <2> QED BY <1>1, <1>4, <2>2, <2>3 DEF Combined
<1>5. CASE AtTheEnd(p)
  <2>1. MainScript(p) = <<"destroy", "ended">> /\ at[p] = 2
    BY <1>1, <1>5, Situations DEF MainScript, AtTheEnd
  <2> QED BY <2>1
<1> QED BY <1>1, <1>2, <1>3, <1>4, <1>5

(* What main adds up from c_output, macs or input_macs is of one drawing of *)
(* bits on both sides of every multiplication, that of this call: that of   *)
(* its own valueBits, when it drew any.                                     *)
THEOREM AlwaysOneMultiplication == Spec => []OneMultiplication
<1>1. CInv => OneMultiplication
  <2> SUFFICES ASSUME CInv, NEW p \in Parties, at[p] > 1, MainScript(p)[at[p] - 1] = "combine"
               PROVE  /\ Cardinality(used[p]) = 1
                      /\ program[call[p]] \in {Triples, Inputs(p)} => used[p] = {valueBits[p][1]}
                      /\ \A w \in used[p] : w[1] = call[p]
    BY DEF OneMultiplication
  <2>1. IInv /\ ProgramOK /\ UsedOK(p) /\ BitsOK(p)
    BY DEF CInv, IInv
  <2>2. Combined(p) /\ call[p] # 0 /\ (InTriples(p) => Place(p) >= 1)
    BY <2>1, HasCombined
  <2>3. used[p] = {Drawn(p)}
    BY <2>1, <2>2 DEF UsedOK
  <2>4. Cardinality(used[p]) = 1
    BY <2>3, FS_Singleton
  <2>5. \A w \in used[p] : w[1] = call[p]
    BY <2>2, <2>3 DEF Drawn
  <2>6. ASSUME program[call[p]] \in {Triples, Inputs(p)} PROVE valueBits[p][1] = Drawn(p)
    <3>1. CASE InTriples(p)
      <4>1. at[p] >= 5 /\ Place(p) >= 1
        BY <2>1, <2>2, <3>1, OneKind DEF Combined
      <4> QED BY <2>1, <3>1, <4>1 DEF BitsOK
    <3>2. CASE InOwnInputs(p)
      <4>1. at[p] >= 4
        BY <2>1, <2>2, <3>2, OneKind DEF Combined
      <4> QED BY <2>1, <3>2, <4>1 DEF BitsOK
    <3>3. CASE InInputsOf(p)
      <4>1. program[call[p]] # Triples /\ program[call[p]] # Inputs(p)
        BY <2>1, <3>3, CallIs DEF Triples, Inputs
      <4> QED BY <2>6, <4>1
    <3> QED BY <2>2, <3>1, <3>2, <3>3 DEF Combined
  <2> QED BY <2>3, <2>4, <2>5, <2>6
<1> QED BY <1>1, StreamsInvariance, PTL

=============================================================================
