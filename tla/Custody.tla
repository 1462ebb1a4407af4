------------------------------ MODULE Custody ------------------------------
(***************************************************************************)
(* The proof-of-custody pipeline of POC/poc.hpp, in its two-prime version. *)
(* The ephemeral key is a pair of elements of the field of P1 elements; it *)
(* is moved, bit by bit and masked by bits of all the parties, into three  *)
(* elements of the field of P2 elements, from which the custody bit of a   *)
(* message is computed.  The parties run it in lock step on shares; a      *)
(* variable here is the value its shares stand for.                        *)
(*                                                                         *)
(* The parties' bits and the opened bits reach the second phase unchanged, *)
(* as they do when one process runs both phases (Source/poc_main.cpp); the *)
(* transfer between two processes is the subject of StageHandOff.          *)
(***************************************************************************)
EXTENDS OnlineOp

CONSTANTS P1, PSize,  \* the first prime and its number of bits
          P2, QSize,  \* the second prime, of more than QSize bits
          Chunk,      \* CHUNK_NUM, the elements of a message
          Evals,      \* Legendre symbols per custody bit (10 in the code)
          Parties,    \* number of parties
          LocalBits,  \* what a party's generator may yield for its bits
          Messages,   \* the messages asked about
          Answers     \* messages per ephemeral key (10 in the code)

Field(p) == 0 .. p - 1
Bits == 2 * PSize
Players == 1 .. Parties

ASSUME SizesAgree == 2 * PSize = 3 * QSize
ASSUME PrimesFit  == P1 < Pow2(PSize) /\ Pow2(QSize) < P2
ASSUME InputsFit  == /\ \A b \in LocalBits : b \in [1 .. Bits -> {0, 1}]
                     /\ \A m \in Messages : m \in [1 .. Chunk -> Field(P2)]
ASSUME NumbersAssumption ==
  /\ {PSize, QSize, Parties, Chunk} \subseteq Nat \ {0} /\ {Evals, Answers} \subseteq Nat
  /\ {P1, P2} \subseteq Nat \ {0, 1}

(* P2 is a prime: every element of its field but 0 has an inverse.          *)
ASSUME PrimeAssumption ==
  \A a \in Field(P2) \ {0} : \E b \in Field(P2) : Mul(P2, a, b) = 1

VARIABLES
  stage,     \* the call the parties are in
  ekey,      \* the ephemeral key: ac.x.real, ac.x.imag
  local,     \* local[i]: local_bits of party i
  shared,    \* shared_bits
  deco,      \* deco_bits: the bits of the key decomposed so far
  reveal,    \* reveal_bits, open
  ek,        \* keys of the second field
  pre,       \* pre_key
  msg,       \* the message being answered
  uhf,       \* uhf_out
  count,     \* Legendre symbols computed for it
  res,       \* their OR so far
  zero,      \* history: a mask s of one of them was 0
  answered   \* messages answered

vars == <<stage, ekey, local, shared, deco, reveal, ek, pre, msg, uhf, count,
          res, zero, answered>>

Init == /\ stage = "phase one"
        /\ ekey \in [1 .. 2 -> Field(P1)]
        /\ local = <<>> /\ shared = <<>> /\ deco = <<>> /\ reveal = <<>>
        /\ ek = <<>> /\ pre = <<>> /\ msg = <<>>
        /\ uhf = 0 /\ count = 0 /\ res = 0 /\ zero = FALSE /\ answered = 0

-----------------------------------------------------------------------------
(* The j-th shared bit is the XOR of the j-th bit of every party.            *)
Shared(p, bits) == [j \in 1 .. Bits |-> KXOR(p, [i \in Players |-> bits[i][j]])]

(* shared_rand_bits_phase_one                                               *)
PhaseOne == /\ stage = "phase one"
            /\ local' \in [Players -> LocalBits]
            /\ shared' = Shared(P1, local')
            /\ stage' = "decompose"
            /\ UNCHANGED <<ekey, deco, reveal, ek, pre, msg, uhf, count, res,
                           zero, answered>>

(* decompose_and_reveal's A2B of the next component of the key, with the    *)
(* loop of pre_rand: random bits are drawn again until they are below P1.   *)
DrawMask ==
  /\ stage = "decompose"
  /\ Len(deco) < Bits
  /\ \E r \in [1 .. PSize -> {0, 1}] :
       deco' = IF Lt(P1, r, Decompose(P1, PSize)) = 1
               THEN deco \o A2B(P1, PSize, ekey[(Len(deco) \div PSize) + 1], r)
               ELSE deco
  /\ UNCHANGED <<stage, ekey, local, shared, reveal, ek, pre, msg, uhf, count,
                 res, zero, answered>>

(* The rest of decompose_and_reveal: the masked bits are opened.            *)
Reveal == /\ stage = "decompose"
          /\ Len(deco) = Bits
          /\ reveal' = XorAll(P1, deco, shared)
          /\ deco' = <<>> /\ shared' = <<>>
          /\ stage' = "phase two"
          /\ UNCHANGED <<ekey, local, ek, pre, msg, uhf, count, res, zero, answered>>

(* shared_rand_bits_phase_two: the same bits, shared in the second field.   *)
PhaseTwo == /\ stage = "phase two"
            /\ shared' = Shared(P2, local)
            /\ stage' = "combine"
            /\ UNCHANGED <<ekey, local, deco, reveal, ek, pre, msg, uhf, count,
                           res, zero, answered>>

(* Mutant: the slices start one bit early, on all but the first key.        *)
SliceOverlaps(bits, i) == SubSeq(bits, i * QSize + 1 - (IF i = 0 THEN 0 ELSE 1),
                                 (i + 1) * QSize)

(* The bits of the i-th of the three keys.                                  *)
Slice(bits, i) == SubSeq(bits, i * QSize + 1, (i + 1) * QSize)

(* xor_and_combine                                                          *)
XorAndCombine ==
  /\ stage = "combine"
  /\ LET bits == XorAll(P2, shared, reveal)
     IN  ek' = [i \in 1 .. 3 |-> B2A(P2, Slice(bits, i - 1))]
  /\ shared' = <<>>
  /\ stage' = "offline"
  /\ UNCHANGED <<ekey, local, deco, reveal, pre, msg, uhf, count, res, zero, answered>>

-----------------------------------------------------------------------------
(* Mutant: the cubes are multiplied in the order of the keys.               *)
CubeInKeyOrder(i) == (i % 3) + 1

(* The key whose cube leads from pre_key[i - 3] to pre_key[i].              *)
CubeOf(i) == <<2, 3, 1>>[(i % 3) + 1]

(* poc_compute_custody_bit_offline_2primes: s1, s2^2, s0^3, s1^4, s2^5, ... *)
PreKeys(keys) ==
  LET Square(x) == Mul(P2, x, x)
      Cube(x) == Mul(P2, Square(x), x)
      f[i \in 0 .. Chunk - 1] ==
        CASE i = 0 -> keys[2]
          [] i = 1 -> Square(keys[3])
          [] i = 2 -> Cube(keys[1])
          [] OTHER -> Mul(P2, f[i - 3], Cube(keys[CubeOf(i)]))
  IN  [j \in 1 .. Chunk |-> f[j - 1]]

Offline ==
  /\ stage = "offline"
  /\ pre' = PreKeys(ek)
  /\ stage' = "online"
  /\ UNCHANGED <<ekey, local, shared, deco, reveal, ek, msg, uhf, count, res, zero,
                 answered>>

(* What each element of a message adds to the hash.                         *)
Terms(m) == [j \in 1 .. Chunk |-> IF j = 1 THEN m[1] ELSE Mul(P2, pre[j - 1], m[j])]

(* poc_compute_custody_bit_online_2primes, up to the hash.                  *)
Hash == /\ stage = "online"
        /\ answered < Answers
        /\ msg' \in Messages
        /\ uhf' = Add(P2, Total(P2, Terms(msg')), pre[Chunk])
        /\ count' = 0 /\ res' = 0 /\ zero' = FALSE
        /\ stage' = "legendre"
        /\ UNCHANGED <<ekey, local, shared, deco, reveal, ek, pre, answered>>

(* Mutant: only the last symbol is kept.                                    *)
KeepsLast(acc, bit) == bit

(* res |= ...                                                               *)
Gather(acc, bit) == IF acc = 1 \/ bit = 1 THEN 1 ELSE 0

(* One turn of its loop, the mask s being any element of the field.         *)
Evaluate ==
  /\ stage = "legendre"
  /\ count < Evals
  /\ \E s \in Field(P2) :
       /\ res' = Gather(res, LegendrePrf(P2, s, ek[1], Add(P2, uhf, count)))
       /\ zero' = (zero \/ s = 0)
  /\ count' = count + 1
  /\ UNCHANGED <<stage, ekey, local, shared, deco, reveal, ek, pre, msg, uhf, answered>>

(* The bit is returned and the next message is asked about.                 *)
Answer == /\ stage = "legendre"
          /\ count = Evals
          /\ stage' = "online"
          /\ answered' = answered + 1
          /\ UNCHANGED <<ekey, local, shared, deco, reveal, ek, pre, msg, uhf, count,
                         res, zero>>

Next == \/ PhaseOne \/ DrawMask \/ Reveal \/ PhaseTwo \/ XorAndCombine
        \/ Offline \/ Hash \/ Evaluate \/ Answer

Spec == Init /\ [][Next]_vars

-----------------------------------------------------------------------------
(* The integer a sequence of bits stands for, lowest bit first.             *)
Value(bits) == SumOf([i \in DOMAIN bits |-> bits[i] * Pow2(i - 1)])

(* A2B finds the bits of the key itself, as an integer below P1, whichever  *)
(* mask pre_rand settled on and whether or not adding the opened difference *)
(* to the mask passes P1.                                                   *)
DecompositionRight ==
  \A k \in 1 .. Len(deco) \div PSize :
    Value(SubSeq(deco, (k - 1) * PSize + 1, k * PSize)) = ekey[k]

(* What is opened is the key's bits masked by the bits of every party: the  *)
(* key cannot be read off reveal_bits without the bits of all the parties.  *)
MaskedByAll ==
  reveal # <<>> =>
    \A j \in 1 .. Bits :
      LET masks == SumOf([i \in Players |-> local[i][j]])
          bit   == (ekey[1] + ekey[2] * Pow2(PSize)) \div Pow2(j - 1)
      IN  reveal[j] = (bit + masks) % 2

(* The three keys of the second field hold the bits of the ephemeral key of *)
(* the first, in order and all of them, although no party has seen a bit.   *)
KeysCarryOver ==
  ek # <<>> => ek[1] + ek[2] * Pow2(QSize) + ek[3] * Pow2(2 * QSize)
                 = ekey[1] + ekey[2] * Pow2(PSize)

(* x to the n in the field of p elements.                                   *)
Power(p, x, n) == LET pow[i \in 0 .. n] == IF i = 0 THEN 1 ELSE Mul(p, pow[i - 1], x)
                  IN  pow[n]

(* The offline phase leaves powers 1, 2, 3, ... of the keys taken in turn,  *)
(* from s1 on: "s1, s2^2, s0^3, s1^4, s2^5, s0^6".                          *)
PreKeyRight ==
  pre # <<>> => \A e \in 1 .. Chunk : pre[e] = Power(P2, ek[(e % 3) + 1], e)

(* Custody bit of m: some key s0 + hash + i is not a non-residue, the hash  *)
(* being m[0] + m[1] s1 + m[2] s2^2 + m[3] s0^3 + ... + s^Chunk.            *)
Reference(m) ==
  LET S(e) == Power(P2, ek[(e % 3) + 1], e)
      hash == SumOf([j \in 1 .. Chunk |-> IF j = 1 THEN m[1] ELSE m[j] * S(j - 1)])
                + S(Chunk)
  IN  \E i \in 0 .. Evals - 1 : Legendre(P2, ek[1] + hash + i) # -1

(* The bit returned is the one the keys and the message determine, on any   *)
(* draw of masks without a 0: a mask of 0 hides the symbol, and the code    *)
(* takes the answer for a residue.                                          *)
CustodyBitRight ==
  stage = "legendre" /\ count = Evals /\ ~zero => (res = 1 <=> Reference(msg))
=============================================================================
