-------------------------- MODULE CipherModesProofs --------------------------
(***************************************************************************)
(* aes_cbc_decrypt and aes_ctr_decrypt compute the modes of SP 800-38A and *)
(* write inside the plaintext, for words of any width, any block cipher,   *)
(* any memory and any pointers.  The invariant says which blocks are done  *)
(* and that the words outside them are those of the call.                  *)
(*                                                                         *)
(* The program of week 2 prints each plaintext, and its padding loop ends  *)
(* as PaddingOutcome says, for a buffer of any size that holds its texts   *)
(* and any padding.                                                        *)
(***************************************************************************)
EXTENDS MCModes, FiniteSetTheorems, WellFoundedInduction, TLAPS

----------------------------------------------------------------------------
(* The counter.                                                            *)

LEMMA Carry ==
    ASSUME NEW h \in Int
    PROVE  (h + 1) * W = h * W + W
BY WordsAssumption

LEMMA ProductInNat ==
    ASSUME NEW x \in Nat, NEW y \in Nat
    PROVE  x * y \in Nat
OBVIOUS

Modulus == W * W * W * W

\* The number of a block is below the modulus, and the increment adds one or wraps.
LEMMA IncrementAddsOne ==
    ASSUME NEW c \in Block
    PROVE  /\ Increment(c) \in Block
           /\ Value(c) \in Nat
           /\ \/ Value(Increment(c)) = Value(c) + 1
              \/ Value(Increment(c)) = Value(c) + 1 - Modulus
<1> DEFINE n == Increment(c)
           g0 == c[0]
           g1 == g0 * W + c[1]
           g2 == g1 * W + c[2]
           g3 == g2 * W + c[3]
<1>1. W \in Nat /\ W >= 2 /\ W - 1 \in Word /\ 0 \in Word
  BY WordsAssumption DEF Word
<1>2. c[0] \in Word /\ c[1] \in Word /\ c[2] \in Word /\ c[3] \in Word
  BY DEF Block
<1>3. \A x \in Word : x \in Nat /\ (x # W - 1 => x + 1 \in Word)
  BY <1>1 DEF Word
<1>4. n \in Block
  BY <1>1, <1>2, <1>3 DEF Increment, Block
<1>5. g0 \in Nat /\ g1 \in Nat /\ g2 \in Nat /\ g3 \in Nat
  <2>0. /\ c[0] \in Nat /\ c[1] \in Nat /\ c[2] \in Nat /\ c[3] \in Nat
    BY <1>2, <1>3
  <2>1. \A x, y \in Nat : x * W + y \in Nat
    BY <1>1, ProductInNat
  <2>2. g1 \in Nat
    BY <2>0, <2>1
  <2> HIDE DEF g1
  <2>3. g2 \in Nat
    BY <2>0, <2>1, <2>2
  <2> HIDE DEF g2
  <2>4. g3 \in Nat
    BY <2>0, <2>1, <2>3
  <2> QED BY <2>0, <2>2, <2>3, <2>4
<1>6. Value(c) = g3 /\ Value(n) = ((n[0] * W + n[1]) * W + n[2]) * W + n[3]
  BY DEF Value
<1>7. /\ n[3] = IF c[3] = W - 1 THEN 0 ELSE c[3] + 1
      /\ n[2] = IF c[3] = W - 1 THEN (IF c[2] = W - 1 THEN 0 ELSE c[2] + 1) ELSE c[2]
      /\ n[1] = IF c[3] = W - 1 /\ c[2] = W - 1
                THEN (IF c[1] = W - 1 THEN 0 ELSE c[1] + 1) ELSE c[1]
      /\ n[0] = IF c[3] = W - 1 /\ c[2] = W - 1 /\ c[1] = W - 1
                THEN (IF c[0] = W - 1 THEN 0 ELSE c[0] + 1) ELSE c[0]
  <2>1. (3 + 1)..3 = {} /\ (2 + 1)..3 = {3} /\ (1 + 1)..3 = {2, 3} /\ (0 + 1)..3 = {1, 2, 3}
    OBVIOUS
  <2> QED BY <2>1 DEF Increment
<1> HIDE DEF n
<1> DEFINE AddsOne == Value(n) = g3 + 1 \/ Value(n) = g3 + 1 - Modulus
<1>8. ASSUME c[3] # W - 1 PROVE AddsOne
  <2>1. n[3] = c[3] + 1 /\ n[2] = c[2] /\ n[1] = c[1] /\ n[0] = c[0]
    BY <1>7, <1>8
  <2>2. Value(n) = g2 * W + (c[3] + 1)
    BY <1>6, <2>1
  <2> HIDE DEF g2
  <2>3. g2 * W \in Nat
    BY <1>1, <1>5, ProductInNat
  <2> QED BY <1>2, <1>3, <2>2, <2>3
<1>9. ASSUME c[3] = W - 1, c[2] # W - 1 PROVE AddsOne
  <2>1. n[2] = c[2] + 1 /\ n[3] = 0 /\ n[0] = c[0] /\ n[1] = c[1]
    BY <1>7, <1>9
  <2>2. Value(n) = (g1 * W + (c[2] + 1)) * W + 0
    BY <1>6, <2>1
  <2> HIDE DEF g1
  <2>3. g1 * W \in Nat
    BY <1>1, <1>5, ProductInNat
  <2>4. g1 * W + (c[2] + 1) = g2 + 1
    BY <1>2, <1>3, <2>3
  <2>5. (g2 + 1) * W = g2 * W + W
    BY <1>5, Carry
  <2>6. Value(n) = g2 * W + W + 0
    BY <2>2, <2>4, <2>5
  <2>7. g3 = g2 * W + (W - 1)
    BY <1>9
  <2> HIDE DEF g2, g3
  <2>8. g2 * W \in Nat
    BY <1>1, <1>5, ProductInNat
  <2> QED BY <1>1, <2>6, <2>7, <2>8
<1>10. ASSUME c[3] = W - 1, c[2] = W - 1, c[1] # W - 1 PROVE AddsOne
  <2>1. n[1] = c[1] + 1 /\ n[2] = 0 /\ n[3] = 0 /\ n[0] = c[0]
    BY <1>7, <1>10
  <2>2. g0 * W \in Nat
    BY <1>1, <1>5, ProductInNat
  <2>3. n[0] * W + n[1] = g1 + 1
    BY <1>2, <1>3, <2>1, <2>2
  <2>4. Value(n) = ((g1 + 1) * W + 0) * W + 0
    BY <1>6, <2>1, <2>3
  <2>5. g2 = g1 * W + (W - 1) /\ g3 = g2 * W + (W - 1)
    BY <1>10
  <2>6. (g1 + 1) * W = g1 * W + W /\ (g2 + 1) * W = g2 * W + W
    BY <1>5, Carry
  <2> HIDE DEF g1, g2, g3
  <2>7. g1 * W \in Nat /\ g2 * W \in Nat
    BY <1>1, <1>5, ProductInNat
  <2>8. (g1 + 1) * W + 0 = g2 + 1
    BY <1>1, <2>5, <2>6, <2>7
  <2>9. Value(n) = (g2 + 1) * W + 0
    BY <2>4, <2>8
  <2> QED BY <1>1, <2>5, <2>6, <2>7, <2>9
<1>11. ASSUME c[3] = W - 1, c[2] = W - 1, c[1] = W - 1 PROVE AddsOne
  <2>1. n[1] = 0 /\ n[2] = 0 /\ n[3] = 0 /\ n[0] = IF g0 = W - 1 THEN 0 ELSE g0 + 1
    BY <1>7, <1>11
  <2>2. g1 = g0 * W + (W - 1) /\ g2 = g1 * W + (W - 1) /\ g3 = g2 * W + (W - 1)
    BY <1>11
  <2>3. Value(n) = ((n[0] * W + 0) * W + 0) * W + 0
    BY <1>6, <2>1
  <2>4. /\ (g0 + 1) * W = g0 * W + W
        /\ (g1 + 1) * W = g1 * W + W
        /\ (g2 + 1) * W = g2 * W + W
    BY <1>5, Carry
  <2> HIDE DEF g0, g1, g2, g3
  <2>5. g0 * W \in Nat /\ g1 * W \in Nat /\ g2 * W \in Nat
    BY <1>1, <1>5, ProductInNat
  <2>6. (g0 + 1) * W + 0 = g1 + 1 /\ (g1 + 1) * W + 0 = g2 + 1 /\ (g2 + 1) * W + 0 = g3 + 1
    BY <1>1, <2>2, <2>4, <2>5
  <2>7. CASE g0 # W - 1
    <3>1. n[0] = g0 + 1
      BY <2>1, <2>7
    <3> QED BY <2>3, <2>6, <3>1
  <2>8. CASE g0 = W - 1
    <3>1. Value(n) = ((0 * W + 0) * W + 0) * W + 0
      BY <2>1, <2>3, <2>8
    <3>2. 0 * W + 0 = 0
      BY <1>1
    <3>3. Value(n) = 0
      BY <3>1, <3>2
    <3>4. g0 + 1 = W
      BY <1>1, <2>8
    <3>5. g1 + 1 = W * W
      BY <2>4, <2>6, <1>1, <3>4, ProductInNat
    <3>6. g2 + 1 = W * W * W
      <4>1. W * W * W \in Nat
        BY <1>1, ProductInNat
      <4> QED BY <2>6, <3>5, <4>1
    <3>7. g3 + 1 = Modulus
      <4>1. W * W * W * W \in Nat
        BY <1>1, ProductInNat
      <4> QED BY <2>6, <3>6, <4>1 DEF Modulus
    <3> QED BY <1>5, <3>3, <3>7
  <2> QED BY <2>7, <2>8
<1>12. Value(c) \in Nat
  BY <1>5, <1>6
<1>13. AddsOne
  BY <1>8, <1>9, <1>10, <1>11
<1> QED BY <1>4, <1>6, <1>12, <1>13 DEF n

LEMMA OneWrapMore ==
    ASSUME NEW wraps \in Nat
    PROVE  /\ wraps * Modulus \in Nat /\ Modulus \in Nat
           /\ (wraps + 1) * Modulus = wraps * Modulus + Modulus
<1>1. Modulus \in Nat
  BY WordsAssumption, ProductInNat DEF Modulus
<1> QED BY <1>1, ProductInNat

----------------------------------------------------------------------------
(* The blocks of a size, and the words of a memory.                        *)

\* A size holds num_blk whole blocks, and CeilBlocks with the part of one.
LEMMA BlocksOfTheSize ==
    ASSUME sz \in Nat
    PROVE  /\ num_blk \in Nat /\ CeilBlocks \in Nat
           /\ num_blk <= CeilBlocks
           /\ 16 * num_blk <= sz /\ sz < 16 * num_blk + 16
           /\ sz <= 16 * CeilBlocks /\ 16 * CeilBlocks < sz + 16
           /\ sz % BLK_SZ = 0 => 16 * CeilBlocks = sz
BY DEF num_blk, CeilBlocks, BLK_SZ

LEMMA WordsAgree ==
    ASSUME NEW m1, NEW m2, NEW a,
           \A j \in 0..3 : m1[a + j] = m2[a + j]
    PROVE  Words(m1, a) = Words(m2, a)
BY DEF Words

LEMMA WordsAreABlock ==
    ASSUME NEW m \in [Address -> Word], NEW a \in Nat,
           1 <= a, a + 3 <= MemSize
    PROVE  Words(m, a) \in Block
<1>1. \A j \in 0..3 : a + j \in Address
  BY ClientAssumption DEF Address
<1> QED BY <1>1 DEF Words, Block

----------------------------------------------------------------------------
(* The invariant.                                                          *)

Started == modes_pc \in {"cbc", "ctr"} \/ (modes_pc = "done" /\ ret = 0)

ControlInv ==
    /\ modes_pc \in {"call", "cbc", "ctr", "done"} /\ ret \in {0, 1, EINVAL}
    /\ modes_pc = "call" => mem = before /\ i_blk = 0 /\ ret = 0
    /\ modes_pc \in {"cbc", "ctr"} => mode = modes_pc /\ ret = 0
    /\ modes_pc = "done" => mode \in {"cbc", "ctr"}
    /\ ret # 0 => i_blk = 0 /\ mem = before
    /\ mem \in [Address -> Word] /\ before \in [Address -> Word]
    /\ i_blk \in Nat /\ sz \in Nat

\* The three buffers lie inside the memory.
BuffersFit ==
    /\ iv \in Nat /\ ct \in Nat /\ pt \in Nat /\ iv >= 1 /\ ct >= 1 /\ pt >= 1
    /\ iv + 3 <= MemSize
    /\ ct + 4 * CeilBlocks <= MemSize + 1 /\ pt + 4 * CeilBlocks <= MemSize + 1

\* The words outside the blocks done are those of the call.
Frame == \A a \in Address : a < pt \/ a >= pt + 4 * i_blk => mem[a] = before[a]

\* The block before block i in the chain, in the memory of the call.
Chained(i) == Words(before, IF i = 0 THEN iv ELSE ct + Nb * (i - 1))

CbcDone(i) ==
    Words(mem, pt + Nb * i) =
       [j \in 0..3 |-> Xor(Decrypt(k, Words(before, ct + Nb * i))[j], Chained(i)[j])]

CbcInv ==
    mode = "cbc" =>
       /\ i_blk <= CeilBlocks /\ blk_prev \in Block
       /\ modes_pc = "done" => i_blk = CeilBlocks
       /\ InOrder(CeilBlocks) =>
             blk_prev = Chained(i_blk) /\ \A i \in 0..(i_blk - 1) : CbcDone(i)

\* The counter of block i: the IV plus i, modulo the number of blocks.
CounterOf(counter, i) ==
    \E wraps \in 0..i : Value(Words(before, iv)) + i = Value(counter) + wraps * Modulus

CtrDone(i) ==
    \E counter \in Block :
       /\ CounterOf(counter, i)
       /\ \A j \in 0..3 : mem[pt + Nb * i + j]
             = Xor(before[ct + Nb * i + j], Encrypt(k, counter)[j])

CtrInv ==
    mode = "ctr" =>
       /\ i_blk <= num_blk /\ iv_cpy \in Block /\ CounterOf(iv_cpy, i_blk)
       /\ modes_pc = "done" => i_blk = num_blk
       /\ InOrder(num_blk) => \A i \in 0..(i_blk - 1) : CtrDone(i)

IInv ==
    /\ ControlInv
    /\ Started => /\ BuffersFit /\ Frame
                  /\ i_blk > 0 => k \in Keys
                  /\ CbcInv /\ CtrInv

----------------------------------------------------------------------------
(* What the invariant gives.                                               *)

LEMMA InvImpliesTypeOK == ASSUME IInv PROVE ModesTypeOK
<1>1. ControlInv
  BY DEF IInv
<1>2. num_blk \in Nat /\ CeilBlocks \in Nat /\ num_blk <= CeilBlocks
  BY <1>1, BlocksOfTheSize DEF ControlInv
<1>3. i_blk <= CeilBlocks
  <2>1. CASE Started
    <3>1. mode \in {"cbc", "ctr"}
      BY <1>1, <2>1 DEF Started, ControlInv
    <3>2. CbcInv /\ CtrInv
      BY <2>1 DEF IInv
    <3>3. mode = "cbc" => i_blk <= CeilBlocks
      BY <3>2 DEF CbcInv
    <3>4. mode = "ctr" => i_blk <= num_blk
      BY <3>2 DEF CtrInv
    <3> HIDE DEF CeilBlocks, num_blk
    <3> QED BY <1>1, <1>2, <3>1, <3>3, <3>4 DEF ControlInv
  <2>2. CASE ~Started
    BY <1>1, <1>2, <2>2 DEF Started, ControlInv
  <2> QED BY <2>1, <2>2
<1>4. modes_pc = "ctr" => iv_cpy \in Block /\ i_blk <= num_blk
  BY DEF IInv, Started, CtrInv, ControlInv
<1> QED BY <1>1, <1>2, <1>3, <1>4 DEF ModesTypeOK, ControlInv

LEMMA InvImpliesCbc == ASSUME IInv PROVE CbcDecrypts
<1> SUFFICES ASSUME mode = "cbc", modes_pc = "done", ret = 0, InOrder(CeilBlocks),
                    NEW i \in 0..(CeilBlocks - 1)
             PROVE  Words(mem, pt + Nb * i)
                    = [j \in 0..3 |-> Xor(Decrypt(k, Words(before, ct + Nb * i))[j],
                         Words(before, IF i = 0 THEN iv ELSE ct + Nb * (i - 1))[j])]
  BY DEF CbcDecrypts
<1>1. CbcInv
  BY DEF IInv, Started
<1>2. CbcDone(i)
  BY <1>1 DEF CbcInv
<1> QED BY <1>2 DEF CbcDone, Chained

LEMMA InvImpliesCtr == ASSUME IInv PROVE CtrDecrypts
<1> SUFFICES ASSUME mode = "ctr", modes_pc = "done", ret = 0, InOrder(num_blk)
             PROVE  \A i \in 0..(num_blk - 1) : CtrDone(i)
  BY DEF CtrDecrypts, CtrDone, CounterOf, Modulus
<1>1. CtrInv
  BY DEF IInv, Started
<1> QED BY <1>1 DEF CtrInv

LEMMA InvImpliesWrites == ASSUME IInv PROVE WritesStayInside
<1>1. ControlInv
  BY DEF IInv
<1>2. ret # 0 => mem = before
  BY <1>1 DEF ControlInv
<1>3. ASSUME modes_pc # "call", NEW a \in Address, mem[a] # before[a]
      PROVE  /\ pt <= a /\ a < pt + Nb * CeilBlocks
             /\ 4 * (a + 1 - pt) <= sz \/ (mode = "cbc" /\ sz % BLK_SZ # 0)
  <2>1. Started
    BY <1>1, <1>2, <1>3 DEF Started, ControlInv
  <2>2. BuffersFit /\ Frame /\ CbcInv /\ CtrInv
    BY <2>1 DEF IInv
  <2>3. pt \in Nat /\ a \in Nat /\ i_blk \in Nat /\ sz \in Nat
    BY <1>1, <2>2 DEF BuffersFit, ControlInv, Address
  <2>4. pt <= a /\ a < pt + 4 * i_blk
    BY <1>3, <2>2, <2>3 DEF Frame
  <2>5. /\ num_blk \in Nat /\ CeilBlocks \in Nat /\ num_blk <= CeilBlocks
        /\ 16 * num_blk <= sz
        /\ sz % BLK_SZ = 0 => 16 * CeilBlocks = sz
    BY <2>3, BlocksOfTheSize
  <2>6. mode \in {"cbc", "ctr"}
    BY <1>1, <2>1 DEF Started, ControlInv
  <2>7. mode = "cbc" => i_blk <= CeilBlocks
    BY <2>2 DEF CbcInv
  <2>8. mode = "ctr" => i_blk <= num_blk
    BY <2>2 DEF CtrInv
  <2> DEFINE cb == CeilBlocks
             nb == num_blk
             whole == sz % BLK_SZ = 0
  <2>9. /\ nb \in Nat /\ cb \in Nat /\ nb <= cb /\ 16 * nb <= sz /\ (whole => 16 * cb = sz)
        /\ (mode = "cbc" => i_blk <= cb) /\ (mode = "ctr" => i_blk <= nb)
    BY <2>5, <2>7, <2>8
  <2> HIDE DEF cb, nb, whole
  <2>10. /\ a < pt + 4 * cb
         /\ 4 * (a + 1 - pt) <= sz \/ (mode = "cbc" /\ ~whole)
    BY <2>3, <2>4, <2>6, <2>9
  <2> QED BY <2>4, <2>10 DEF cb, whole, Nb
<1> QED BY <1>2, <1>3 DEF WritesStayInside

----------------------------------------------------------------------------
(* The invariant holds at first, and every step keeps it.                  *)

LEMMA InvInit == ModesInit => IInv
BY ClientAssumption DEF ModesInit, IInv, ControlInv, Started, EINVAL

LEMMA InvBegin ==
    ASSUME IInv, NEW function \in {"cbc", "ctr"}, Begin(function)
    PROVE  IInv'
<1>1. ControlInv
  BY DEF IInv
<1>2. iv' \in Nat /\ ct' \in Nat /\ pt' \in Nat /\ sz' \in Nat
  BY ClientAssumption DEF Begin
<1>3. ControlInv'
  BY <1>1, <1>2 DEF Begin, ControlInv, EINVAL
<1>4. ASSUME Started'
      PROVE  BuffersFit' /\ Frame' /\ (i_blk > 0 => k \in Keys)' /\ CbcInv' /\ CtrInv'
  <2>1. /\ iv' # NULL /\ ct' # NULL /\ sz' >= BLK_SZ /\ pt' # NULL
        /\ modes_pc' = function /\ mode' = function
        /\ blk_prev' = Words(mem, iv') /\ iv_cpy' = Words(mem, iv')
    BY <1>2, <1>4 DEF Begin, Started, EINVAL, BLK_SZ
  <2>2. mem' = mem /\ before' = mem /\ i_blk' = 0
    BY DEF Begin
  <2>3. MemSize \in Nat
    BY ClientAssumption
  <2>4. BuffersFit'
    <3>1. iv' >= 1 /\ ct' >= 1 /\ pt' >= 1
      BY <1>2, <2>1 DEF NULL
    <3>2. ((BLK_SZ + BLK_SZ - 1) \div BLK_SZ) = 1
      BY DEF BLK_SZ
    <3>3. iv' + 3 <= MemSize
      <4>1. iv' + Nb * ((BLK_SZ + BLK_SZ - 1) \div BLK_SZ) <= MemSize + 1
        BY <2>1 DEF Begin, Owned
      <4>2. Nb * 1 = 4
        BY DEF Nb
      <4>3. iv' + 4 <= MemSize + 1
        BY <3>2, <4>1, <4>2
      <4>4. \A x, y \in Nat : x + 4 <= y + 1 => x + 3 <= y
        OBVIOUS
      <4> QED BY <1>2, <2>3, <4>3, <4>4
    <3>4. /\ ct' + 4 * CeilBlocks' <= MemSize + 1
          /\ pt' + 4 * CeilBlocks' <= MemSize + 1
      BY <2>1 DEF Begin, Owned, Nb, CeilBlocks
    <3> QED BY <1>2, <3>1, <3>3, <3>4 DEF BuffersFit
  <2>5. Frame'
    BY <2>2 DEF Frame
  <2>6. (i_blk > 0 => k \in Keys)'
    BY <2>2
  <2>7. Words(mem, iv') \in Block
    BY <1>1, <2>4, WordsAreABlock DEF BuffersFit, ControlInv
  <2>8. num_blk' \in Nat /\ CeilBlocks' \in Nat
    <3>1. \A s \in Nat : s \div 16 \in Nat /\ (s + 16 - 1) \div 16 \in Nat
      OBVIOUS
    <3>2. sz' \div 16 \in Nat /\ (sz' + 16 - 1) \div 16 \in Nat
      BY <1>2, <3>1
    <3> QED BY <3>2 DEF num_blk, CeilBlocks, BLK_SZ
  <2>9. CbcInv'
    <3>1. Chained(i_blk)' = Words(mem, iv')
      BY <2>2 DEF Chained
    <3>2. \A i \in 0..(i_blk' - 1) : FALSE
      BY <2>2
    <3>3. modes_pc' # "done" /\ i_blk' <= CeilBlocks'
      BY <2>1, <2>2, <2>8
    <3> QED BY <2>1, <2>7, <3>1, <3>2, <3>3 DEF CbcInv
  <2>10. CtrInv'
    <3>1. CounterOf(iv_cpy, i_blk)'
      <4>1. Value(Words(mem, iv')) \in Nat
        BY <2>7, IncrementAddsOne
      <4>2. 0 * Modulus = 0
        BY OneWrapMore
      <4>3. Value(Words(mem, iv')) + 0 = Value(Words(mem, iv')) + 0 * Modulus
        BY <4>1, <4>2
      <4> QED BY <2>1, <2>2, <4>3 DEF CounterOf, Modulus, Value
    <3>2. \A i \in 0..(i_blk' - 1) : FALSE
      BY <2>2
    <3>3. modes_pc' # "done" /\ i_blk' <= num_blk'
      BY <2>1, <2>2, <2>8
    <3> QED BY <2>1, <2>7, <3>1, <3>2, <3>3 DEF CtrInv
  <2> QED BY <2>4, <2>5, <2>6, <2>9, <2>10
<1> QED BY <1>3, <1>4 DEF IInv

\* Before the first block is done, the memory is that of the call.
LEMMA NothingWritten ==
    ASSUME IInv, modes_pc \in {"cbc", "ctr"}, k \notin Keys
    PROVE  i_blk = 0 /\ mem = before
<1>1. Started
  BY DEF Started
<1>2. /\ i_blk \in Nat /\ mem \in [Address -> Word] /\ before \in [Address -> Word]
  BY DEF IInv, ControlInv
<1>3. i_blk = 0
  BY <1>1, <1>2 DEF IInv
<1>4. pt \in Nat /\ Address \subseteq Nat
  BY <1>1 DEF IInv, BuffersFit, Address
<1>5. \A a \in Address : a < pt \/ a >= pt + 4 * i_blk
  BY <1>3, <1>4
<1>6. \A a \in Address : mem[a] = before[a]
  BY <1>1, <1>5 DEF IInv, Frame
<1>7. mem = [a \in Address |-> mem[a]] /\ before = [a \in Address |-> before[a]]
  BY <1>2
<1> QED BY <1>3, <1>6, <1>7

\* A refused key ends the call.
LEMMA InvRefused ==
    ASSUME IInv, modes_pc \in {"cbc", "ctr"}, k \notin Keys,
           modes_pc' = "done", ret' \in {1, EINVAL},
           UNCHANGED <<mem, i_blk, sz, mode, before>>
    PROVE  IInv'
<1>1. i_blk = 0 /\ mem = before
  BY NothingWritten
<1>2. ControlInv'
  BY <1>1 DEF IInv, ControlInv
<1>3. ~Started'
  BY DEF Started, EINVAL
<1> QED BY <1>2, <1>3 DEF IInv

\* The blocks are apart: block i ends before block n > i starts.
LEMMA BlocksApart ==
    ASSUME NEW p \in Nat, NEW i \in Nat, NEW n \in Nat, i < n, NEW j \in 0..3
    PROVE  /\ p + Nb * i + j < p + Nb * n
           /\ p <= p + Nb * i + j
BY DEF Nb

\* In order, a block of ciphertext not yet done is as the caller left it.
LEMMA CiphertextIsKept ==
    ASSUME IInv, Started, NEW blocks \in Nat, InOrder(blocks), i_blk < blocks,
           blocks <= CeilBlocks
    PROVE  Words(mem, ct + Nb * i_blk) = Words(before, ct + Nb * i_blk)
<1>1. /\ pt \in Nat /\ ct \in Nat /\ ct >= 1 /\ i_blk \in Nat /\ CeilBlocks \in Nat
      /\ ct + 4 * CeilBlocks <= MemSize + 1
  BY BlocksOfTheSize DEF IInv, BuffersFit, ControlInv
<1>2. MemSize \in Nat
  BY ClientAssumption
<1>3. pt <= ct \/ pt >= ct + 4 * blocks
  BY DEF InOrder, Nb
<1> DEFINE cb == CeilBlocks
<1>4. cb \in Nat /\ ct + 4 * cb <= MemSize + 1 /\ blocks <= cb
  BY <1>1
<1> HIDE DEF cb
<1>5. ASSUME NEW j \in 0..3
      PROVE  mem[ct + Nb * i_blk + j] = before[ct + Nb * i_blk + j]
  <2>1. ct + 4 * i_blk + j >= 1 /\ ct + 4 * i_blk + j <= MemSize
    BY <1>1, <1>2, <1>4
  <2>2. ct + 4 * i_blk + j \in Address
    BY <1>1, <1>2, <2>1 DEF Address
  <2>3. ct + 4 * i_blk + j < pt \/ ct + 4 * i_blk + j >= pt + 4 * i_blk
    BY <1>1, <1>3
  <2>4. Frame
    BY DEF IInv
  <2> QED BY <2>2, <2>3, <2>4 DEF Frame, Nb
<1> QED BY <1>5, WordsAgree

\* What writing one more block of plaintext keeps.
Writes(block) ==
    /\ mem' \in [Address -> Word]
    /\ \A a \in Address : a < pt + 4 * i_blk \/ a >= pt + 4 * (i_blk + 1) => mem'[a] = mem[a]
    /\ \A j \in 0..3 : mem'[pt + Nb * i_blk + j] = block[j]

LEMMA FrameKept ==
    ASSUME IInv, Started, NEW block, Writes(block), i_blk' = i_blk + 1,
           UNCHANGED <<pt, before>>
    PROVE  Frame'
<1>1. pt \in Nat /\ i_blk \in Nat /\ Frame
  BY DEF IInv, ControlInv, BuffersFit
<1>2. ASSUME NEW a \in Address, a < pt \/ a >= pt + 4 * (i_blk + 1)
      PROVE  mem'[a] = before[a]
  <2>1. a \in Nat
    BY DEF Address
  <2>2. a < pt + 4 * i_blk \/ a >= pt + 4 * (i_blk + 1)
    BY <1>1, <1>2, <2>1
  <2>3. a < pt \/ a >= pt + 4 * i_blk
    BY <1>1, <1>2, <2>1
  <2> QED BY <1>1, <2>2, <2>3 DEF Writes, Frame
<1> QED BY <1>2 DEF Frame

LEMMA DoneIsKept ==
    ASSUME IInv, Started, NEW block, Writes(block), NEW i \in Nat, i < i_blk,
           i_blk < CeilBlocks, NEW j \in 0..3
    PROVE  mem'[pt + Nb * i + j] = mem[pt + Nb * i + j]
<1>1. /\ pt \in Nat /\ pt >= 1 /\ i_blk \in Nat /\ CeilBlocks \in Nat
      /\ pt + 4 * CeilBlocks <= MemSize + 1
  BY BlocksOfTheSize DEF IInv, ControlInv, BuffersFit
<1>2. MemSize \in Nat
  BY ClientAssumption
<1>3. pt + 4 * i + j < pt + 4 * i_blk
  BY <1>1
<1> DEFINE cb == CeilBlocks
<1>4. cb \in Nat /\ pt + 4 * cb <= MemSize + 1 /\ i_blk < cb
  BY <1>1
<1> HIDE DEF cb
<1>5. pt + 4 * i + j >= 1 /\ pt + 4 * i + j <= MemSize /\ pt + 4 * i + j \in Nat
  BY <1>1, <1>2, <1>3, <1>4
<1>6. pt + 4 * i + j \in Address
  BY <1>2, <1>5 DEF Address
<1> QED BY <1>3, <1>6 DEF Writes, Nb

LEMMA InvCbcBlock == ASSUME IInv, CbcBlock PROVE IInv'
<1>1. modes_pc = "cbc" /\ Nb * 4 * i_blk < sz
  BY DEF CbcBlock
<1>2. CASE k \notin Keys
  <2>1. modes_pc' = "done" /\ ret' = 1 /\ UNCHANGED <<mem, i_blk, sz, mode, before>>
    BY <1>2 DEF CbcBlock
  <2> QED BY <1>1, <1>2, <2>1, InvRefused
<1>3. CASE k \in Keys
  <2>1. Started /\ ControlInv /\ BuffersFit /\ Frame /\ CbcInv /\ mode = "cbc" /\ ret = 0
    BY <1>1 DEF IInv, Started, ControlInv
  <2>2. UNCHANGED <<modes_pc, ret, iv, ct, sz, pt, k, iv_cpy, mode, before>>
    BY <1>3 DEF CbcBlock
  <2>3. i_blk' = i_blk + 1 /\ blk_prev' = Words(mem, ct + Nb * i_blk)
    BY <1>3 DEF CbcBlock, kept
  <2> DEFINE cipher == Words(mem, ct + Nb * i_blk)
             plain == Decrypt(k, cipher)
             block == [j \in 0..3 |-> Xor(plain[j], blk_prev[j])]
             there == pt + Nb * i_blk
  <2>4. mem' = [a \in Address |-> IF a \in there .. (there + 3)
                                  THEN Xor(plain[a - there], blk_prev[a - there])
                                  ELSE mem[a]]
    BY <1>3 DEF CbcBlock
  <2>5. /\ i_blk \in Nat /\ sz \in Nat /\ CeilBlocks \in Nat /\ i_blk < CeilBlocks
    <3>1. sz <= 16 * CeilBlocks /\ CeilBlocks \in Nat /\ i_blk \in Nat /\ sz \in Nat
      BY <2>1, BlocksOfTheSize DEF ControlInv
    <3>2. 16 * i_blk < sz
      BY <1>1, <3>1 DEF Nb
    <3> HIDE DEF CeilBlocks
    <3> QED BY <3>1, <3>2
  <2>6. /\ pt \in Nat /\ ct \in Nat /\ pt >= 1 /\ ct >= 1 /\ MemSize \in Nat
        /\ pt + 4 * i_blk + 3 <= MemSize /\ ct + 4 * i_blk + 3 <= MemSize
    <3>1. /\ pt \in Nat /\ ct \in Nat /\ pt >= 1 /\ ct >= 1 /\ MemSize \in Nat
          /\ ct + 4 * CeilBlocks <= MemSize + 1 /\ pt + 4 * CeilBlocks <= MemSize + 1
      BY <2>1, ClientAssumption DEF BuffersFit
    <3> DEFINE cb == CeilBlocks
    <3>2. /\ ct + 4 * cb <= MemSize + 1 /\ pt + 4 * cb <= MemSize + 1
          /\ cb \in Nat /\ i_blk < cb
      BY <2>5, <3>1
    <3> HIDE DEF cb
    <3> QED BY <2>5, <3>1, <3>2
  <2>7. cipher \in Block
    BY <2>1, <2>5, <2>6, WordsAreABlock DEF ControlInv, Nb
  <2>8. plain \in Block /\ blk_prev \in Block
    BY <1>3, <2>1, <2>7, CipherAssumption DEF CbcInv
  <2>9. Writes(block)
    <3> HIDE DEF plain
    <3>1. /\ there \in Nat /\ there >= 1 /\ there + 3 <= MemSize
          /\ there = pt + 4 * i_blk /\ there + 4 = pt + 4 * (i_blk + 1)
      BY <2>5, <2>6 DEF Nb
    <3> HIDE DEF there
    <3>2. ASSUME NEW j \in 0..3
          PROVE  there + j \in Address /\ (there + j) - there = j
                 /\ there + j \in there .. (there + 3)
      BY <2>6, <3>1 DEF Address
    <3>3. ASSUME NEW a \in Address, a \in there .. (there + 3)
          PROVE  a - there \in 0..3
      <4>1. a \in Int /\ there <= a /\ a <= there + 3
        BY <3>1, <3>3
      <4>2. \A x, y \in Int : x <= y /\ y <= x + 3 => y - x \in 0..3
        OBVIOUS
      <4> QED BY <3>1, <4>1, <4>2
    <3>4. \A a \in Address : mem'[a] \in Word
      <4> TAKE a \in Address
      <4>1. CASE a \in there .. (there + 3)
        <5>1. a - there \in 0..3
          BY <3>3, <4>1
        <5>2. plain[a - there] \in Word /\ blk_prev[a - there] \in Word
          BY <2>8, <5>1 DEF Block
        <5>3. mem'[a] = Xor(plain[a - there], blk_prev[a - there])
          BY <2>4, <4>1
        <5> QED BY <5>2, <5>3, WordsAssumption
      <4>2. CASE a \notin there .. (there + 3)
        <5>1. mem'[a] = mem[a]
          BY <2>4, <4>2
        <5> QED BY <2>1, <5>1 DEF ControlInv
      <4> QED BY <4>1, <4>2
    <3>5. mem' \in [Address -> Word]
      BY <2>4, <3>4
    <3>6. ASSUME NEW a \in Address, a < pt + 4 * i_blk \/ a >= pt + 4 * (i_blk + 1)
          PROVE  mem'[a] = mem[a]
      <4>1. a \notin there .. (there + 3)
        BY <3>1, <3>6 DEF Address
      <4> QED BY <2>4, <4>1
    <3>7. ASSUME NEW j \in 0..3
          PROVE  mem'[pt + Nb * i_blk + j] = block[j]
      <4>1. pt + Nb * i_blk = there
        BY <3>1 DEF Nb
      <4>2. mem'[there + j] = Xor(plain[j], blk_prev[j])
        BY <2>4, <3>2
      <4> QED BY <4>1, <4>2
    <3> QED BY <3>5, <3>6, <3>7 DEF Writes
  <2>10. ControlInv'
    <3>1. mem' \in [Address -> Word] /\ i_blk' \in Nat
      BY <2>3, <2>5, <2>9 DEF Writes
    <3> QED BY <1>1, <2>1, <2>2, <3>1 DEF ControlInv
  <2>11. Frame'
    BY <2>1, <2>2, <2>3, <2>9, FrameKept
  <2>12. BuffersFit'
    BY <2>1, <2>2 DEF BuffersFit, CeilBlocks
  <2>13. CbcInv'
    <3>1. CeilBlocks' = CeilBlocks /\ InOrder(CeilBlocks)' = InOrder(CeilBlocks)
      BY <2>2 DEF CeilBlocks, InOrder
    <3>2. i_blk' <= CeilBlocks'
      <4> HIDE DEF CeilBlocks
      <4> QED BY <2>3, <2>5, <3>1
    <3>3. blk_prev' \in Block
      BY <2>3, <2>7
    <3>4. ASSUME InOrder(CeilBlocks)
          PROVE  /\ blk_prev' = Chained(i_blk)'
                 /\ \A i \in 0..(i_blk' - 1) : CbcDone(i)'
      <4>1. cipher = Words(before, ct + Nb * i_blk)
        <5> HIDE DEF CeilBlocks
        <5> QED BY <2>1, <2>5, <3>4, CiphertextIsKept
      <4>2. Chained(i_blk)' = Words(before, ct + Nb * i_blk)
        <5>1. i_blk' # 0 /\ i_blk' - 1 = i_blk
          BY <2>3, <2>5
        <5> QED BY <2>2, <5>1 DEF Chained
      <4>3. blk_prev = Chained(i_blk)
        BY <2>1, <3>4 DEF CbcInv
      <4>4. ASSUME NEW i \in 0..(i_blk' - 1) PROVE CbcDone(i)'
        <5>1. /\ (pt + Nb * i)' = pt + Nb * i /\ (ct + Nb * i)' = ct + Nb * i
              /\ Chained(i)' = Chained(i)
          BY <2>2 DEF Chained, Nb
        <5>2. CASE i = i_blk
          <6>1. \A j \in 0..3 : mem'[pt + Nb * i_blk + j] = block[j]
            BY <2>9 DEF Writes
          <6>2. Words(mem', pt + Nb * i_blk) = [j \in 0..3 |-> block[j]]
            BY <6>1 DEF Words
          <6>3. block = [j \in 0..3 |-> Xor(Decrypt(k, Words(before, ct + Nb * i_blk))[j],
                                            Chained(i_blk)[j])]
            BY <4>1, <4>3
          <6>4. [j \in 0..3 |-> block[j]] = block
            OBVIOUS
          <6> HIDE DEF block
          <6> QED BY <2>2, <5>1, <5>2, <6>2, <6>3, <6>4 DEF CbcDone
        <5>3. CASE i # i_blk
          <6>1. i \in Nat /\ i < i_blk
            BY <2>3, <2>5, <4>4, <5>3
          <6>2. \A j \in 0..3 : mem'[pt + Nb * i + j] = mem[pt + Nb * i + j]
            <7> HIDE DEF block, CeilBlocks
            <7> QED BY <2>1, <2>5, <2>9, <6>1, DoneIsKept
          <6>3. Words(mem', pt + Nb * i) = Words(mem, pt + Nb * i)
            BY <6>2, WordsAgree
          <6>4. CbcDone(i)
            BY <2>1, <2>5, <3>4, <6>1 DEF CbcInv
          <6> QED BY <2>2, <5>1, <6>3, <6>4 DEF CbcDone
        <5> QED BY <5>2, <5>3
      <4> QED BY <2>3, <4>1, <4>2, <4>4
    <3> QED BY <1>1, <2>2, <3>1, <3>2, <3>3, <3>4 DEF CbcInv
  <2>14. CtrInv'
    BY <2>1, <2>2 DEF CtrInv
  <2>15. (i_blk > 0 => k \in Keys)'
    BY <1>3, <2>2
  <2> QED BY <2>10, <2>11, <2>12, <2>13, <2>14, <2>15 DEF IInv
<1> QED BY <1>2, <1>3

LEMMA InvCbcEnd == ASSUME IInv, CbcEnd PROVE IInv'
<1>1. /\ modes_pc = "cbc" /\ modes_pc' = "done" /\ Nb * 4 * i_blk >= sz
      /\ UNCHANGED <<iv, ct, sz, pt, k, mem, i_blk, blk_prev, iv_cpy, ret, mode, before>>
  BY DEF CbcEnd
<1>2. Started /\ ControlInv /\ BuffersFit /\ Frame /\ CbcInv /\ mode = "cbc" /\ ret = 0
  BY <1>1 DEF IInv, Started, ControlInv
<1>3. i_blk = CeilBlocks
  <2>1. i_blk \in Nat /\ sz \in Nat /\ CeilBlocks \in Nat /\ 16 * CeilBlocks < sz + 16
    BY <1>2, BlocksOfTheSize DEF ControlInv
  <2>2. i_blk <= CeilBlocks
    BY <1>2 DEF CbcInv
  <2>3. 16 * i_blk >= sz
    BY <1>1, <2>1 DEF Nb
  <2> HIDE DEF CeilBlocks
  <2> QED BY <2>1, <2>2, <2>3
<1>4. ControlInv'
  BY <1>1, <1>2 DEF ControlInv
<1>5. BuffersFit' /\ Frame'
  BY <1>1, <1>2 DEF BuffersFit, Frame, CeilBlocks
<1>6. CeilBlocks' = CeilBlocks /\ InOrder(CeilBlocks)' = InOrder(CeilBlocks)
  BY <1>1 DEF CeilBlocks, InOrder
<1>7. \A i : CbcDone(i)' = CbcDone(i) /\ Chained(i)' = Chained(i)
  BY <1>1 DEF CbcDone, Chained
<1>8. Chained(i_blk)' = Chained(i_blk)
  BY <1>1 DEF Chained
<1>9. CbcInv'
  <2> HIDE DEF CeilBlocks
  <2> QED BY <1>1, <1>2, <1>3, <1>6, <1>7, <1>8 DEF CbcInv
<1>10. CtrInv'
  BY <1>1, <1>2 DEF CtrInv
<1>11. (i_blk > 0 => k \in Keys)'
  BY <1>1, <1>2 DEF IInv
<1> QED BY <1>4, <1>5, <1>9, <1>10, <1>11 DEF IInv

\* One word of the plaintext: it is written, and the others stay.
LEMMA OneWord ==
    ASSUME NEW m \in [Address -> Word], NEW j \in 0..3, NEW enc \in Block,
           NEW there \in Nat, there = pt + Nb * i_blk, there + j \in Address,
           NEW from \in Nat, from = ct + Nb * i_blk, from + j \in Address
    PROVE  /\ PutWord(m, j, enc) \in [Address -> Word]
           /\ PutWord(m, j, enc)[there + j] = Xor(m[from + j], enc[j])
           /\ \A a \in Address : a # there + j => PutWord(m, j, enc)[a] = m[a]
<1>1. PutWord(m, j, enc) = [m EXCEPT ![there + j] = Xor(m[from + j], enc[j])]
  BY DEF PutWord
<1>2. m[from + j] \in Word /\ enc[j] \in Word
  BY DEF Block
<1>3. Xor(m[from + j], enc[j]) \in Word
  BY <1>2, WordsAssumption
<1> DEFINE x == Xor(m[from + j], enc[j])
<1> HIDE DEF x
<1> QED BY <1>1, <1>3 DEF x

\* The four words of a block, one after the other: where the plaintext does not
\* start inside the ciphertext, a word is read before it is written over.
LEMMA FourWords ==
    ASSUME NEW m \in [Address -> Word], NEW enc \in Block,
           NEW there \in Nat, there = pt + Nb * i_blk, there >= 1, there + 3 <= MemSize,
           NEW from \in Nat, from = ct + Nb * i_blk, from >= 1, from + 3 <= MemSize,
           NEW result,
           result = PutWord(PutWord(PutWord(PutWord(m, 0, enc), 1, enc), 2, enc), 3, enc)
    PROVE  /\ result \in [Address -> Word]
           /\ \A a \in Address : a < there \/ a >= there + 4 => result[a] = m[a]
           /\ there <= from \/ there >= from + 4 =>
                 \A j \in 0..3 : result[there + j] = Xor(m[from + j], enc[j])
<1> DEFINE m0 == PutWord(m, 0, enc)
           m1 == PutWord(m0, 1, enc)
           m2 == PutWord(m1, 2, enc)
           m3 == PutWord(m2, 3, enc)
<1>1. MemSize \in Nat
  BY ClientAssumption
<1>2. \A j \in 0..3 : there + j \in Address /\ from + j \in Address
  BY ONLY <1>1, there \in Nat, there >= 1, there + 3 <= MemSize,
          from \in Nat, from >= 1, from + 3 <= MemSize DEF Address
<1>3. 0 \in 0..3 /\ 1 \in 0..3 /\ 2 \in 0..3 /\ 3 \in 0..3
  OBVIOUS
<1>4. /\ m0 \in [Address -> Word] /\ m0[there + 0] = Xor(m[from + 0], enc[0])
      /\ \A a \in Address : a # there + 0 => m0[a] = m[a]
  BY <1>2, <1>3, OneWord
<1> HIDE DEF m0
<1>5. /\ m1 \in [Address -> Word] /\ m1[there + 1] = Xor(m0[from + 1], enc[1])
      /\ \A a \in Address : a # there + 1 => m1[a] = m0[a]
  BY <1>2, <1>3, <1>4, OneWord
<1> HIDE DEF m1
<1>6. /\ m2 \in [Address -> Word] /\ m2[there + 2] = Xor(m1[from + 2], enc[2])
      /\ \A a \in Address : a # there + 2 => m2[a] = m1[a]
  BY <1>2, <1>3, <1>5, OneWord
<1> HIDE DEF m2
<1>7. /\ m3 \in [Address -> Word] /\ m3[there + 3] = Xor(m2[from + 3], enc[3])
      /\ \A a \in Address : a # there + 3 => m3[a] = m2[a]
  BY <1>2, <1>3, <1>6, OneWord
<1>8. result = m3
  BY DEF m0, m1, m2
<1> HIDE DEF m3
<1>9. ASSUME NEW a \in Address, a < there \/ a >= there + 4
      PROVE  m3[a] = m[a]
  <2>1. a # there + 0 /\ a # there + 1 /\ a # there + 2 /\ a # there + 3
    BY <1>9 DEF Address
  <2> QED BY <1>4, <1>5, <1>6, <1>7, <2>1
<1>10. ASSUME there <= from \/ there >= from + 4
       PROVE  \A j \in 0..3 : m3[there + j] = Xor(m[from + j], enc[j])
  <2>1. /\ from + 1 # there + 0
        /\ from + 2 # there + 0 /\ from + 2 # there + 1
        /\ from + 3 # there + 0 /\ from + 3 # there + 1 /\ from + 3 # there + 2
    BY <1>10
  <2>2. /\ from + 0 \in Address /\ from + 1 \in Address /\ from + 2 \in Address
        /\ from + 3 \in Address /\ there + 0 \in Address /\ there + 1 \in Address
        /\ there + 2 \in Address
    BY <1>2
  <2>3. m0[from + 1] = m[from + 1]
    BY <1>4, <2>1, <2>2
  <2>4. m1[from + 2] = m[from + 2]
    BY <1>4, <1>5, <2>1, <2>2
  <2>5. m2[from + 3] = m[from + 3]
    BY <1>4, <1>5, <1>6, <2>1, <2>2
  <2>6. there + 0 # there + 1 /\ there + 0 # there + 2 /\ there + 0 # there + 3
        /\ there + 1 # there + 2 /\ there + 1 # there + 3 /\ there + 2 # there + 3
    OBVIOUS
  <2>7. m3[there + 0] = m0[there + 0] /\ m3[there + 1] = m1[there + 1]
        /\ m3[there + 2] = m2[there + 2]
    BY <1>5, <1>6, <1>7, <2>2, <2>6
  <2>8. /\ m3[there + 0] = Xor(m[from + 0], enc[0])
        /\ m3[there + 1] = Xor(m[from + 1], enc[1])
        /\ m3[there + 2] = Xor(m[from + 2], enc[2])
        /\ m3[there + 3] = Xor(m[from + 3], enc[3])
    BY <1>4, <1>5, <1>6, <1>7, <2>3, <2>4, <2>5, <2>7
  <2> TAKE j \in 0..3
  <2>9. j = 0 \/ j = 1 \/ j = 2 \/ j = 3
    OBVIOUS
  <2> QED BY <2>8, <2>9
<1> QED BY <1>7, <1>8, <1>9, <1>10

LEMMA InvCtrBlock == ASSUME IInv, CtrBlock PROVE IInv'
<1>1. modes_pc = "ctr" /\ i_blk < num_blk
  BY DEF CtrBlock
<1>2. CASE k \notin Keys
  <2>1. modes_pc' = "done" /\ ret' = EINVAL /\ UNCHANGED <<mem, i_blk, sz, mode, before>>
    BY <1>2 DEF CtrBlock
  <2> QED BY <1>1, <1>2, <2>1, InvRefused
<1>3. CASE k \in Keys
  <2>1. Started /\ ControlInv /\ BuffersFit /\ Frame /\ CtrInv /\ mode = "ctr" /\ ret = 0
    BY <1>1 DEF IInv, Started, ControlInv
  <2>2. UNCHANGED <<modes_pc, ret, iv, ct, sz, pt, k, blk_prev, mode, before>>
    BY <1>3 DEF CtrBlock
  <2>3. i_blk' = i_blk + 1 /\ iv_cpy' = Increment(iv_cpy)
    BY <1>3 DEF CtrBlock
  <2> DEFINE enc == Encrypt(k, iv_cpy)
             there == pt + Nb * i_blk
             from == ct + Nb * i_blk
             block == [j \in 0..3 |-> Xor(mem[from + j], enc[j])]
  <2>4. mem' = PutWord(PutWord(PutWord(PutWord(mem, 0, enc), 1, enc), 2, enc), 3, enc)
    BY <1>3 DEF CtrBlock
  <2>5. /\ i_blk \in Nat /\ sz \in Nat /\ CeilBlocks \in Nat /\ num_blk \in Nat
        /\ num_blk <= CeilBlocks /\ i_blk < CeilBlocks
    <3>1. CeilBlocks \in Nat /\ num_blk \in Nat /\ num_blk <= CeilBlocks
          /\ i_blk \in Nat /\ sz \in Nat
      BY <2>1, BlocksOfTheSize DEF ControlInv
    <3> HIDE DEF CeilBlocks, num_blk
    <3> QED BY <1>1, <3>1
  <2>6. /\ pt \in Nat /\ ct \in Nat /\ pt >= 1 /\ ct >= 1 /\ MemSize \in Nat
        /\ pt + 4 * i_blk + 3 <= MemSize /\ ct + 4 * i_blk + 3 <= MemSize
    <3>1. /\ pt \in Nat /\ ct \in Nat /\ pt >= 1 /\ ct >= 1 /\ MemSize \in Nat
          /\ ct + 4 * CeilBlocks <= MemSize + 1 /\ pt + 4 * CeilBlocks <= MemSize + 1
      BY <2>1, ClientAssumption DEF BuffersFit
    <3> DEFINE cb == CeilBlocks
    <3>2. /\ ct + 4 * cb <= MemSize + 1 /\ pt + 4 * cb <= MemSize + 1
          /\ cb \in Nat /\ i_blk < cb
      BY <2>5, <3>1
    <3> HIDE DEF cb
    <3> QED BY <2>5, <3>1, <3>2
  <2>7. iv_cpy \in Block /\ enc \in Block
    BY <1>3, <2>1, CipherAssumption DEF CtrInv
  <2>8. /\ there \in Nat /\ there >= 1 /\ there + 3 <= MemSize
        /\ there = pt + 4 * i_blk /\ there + 4 = pt + 4 * (i_blk + 1)
        /\ from \in Nat /\ from >= 1 /\ from + 3 <= MemSize
    BY <2>5, <2>6 DEF Nb
  <2>9. /\ mem' \in [Address -> Word]
        /\ \A a \in Address : a < there \/ a >= there + 4 => mem'[a] = mem[a]
        /\ there <= from \/ there >= from + 4 => \A j \in 0..3 : mem'[there + j] = block[j]
    <3>1. mem \in [Address -> Word]
      BY <2>1 DEF ControlInv
    <3>2. there = pt + Nb * i_blk /\ from = ct + Nb * i_blk
      OBVIOUS
    <3>3. \A j \in 0..3 : block[j] = Xor(mem[from + j], enc[j])
      OBVIOUS
    <3> HIDE DEF there, from, enc, block
    <3> DEFINE result == mem'
    <3>4. result = PutWord(PutWord(PutWord(PutWord(mem, 0, enc), 1, enc), 2, enc), 3, enc)
      BY <2>4 DEF enc
    <3> HIDE DEF result
    <3>5. /\ result \in [Address -> Word]
          /\ \A a \in Address : a < there \/ a >= there + 4 => result[a] = mem[a]
          /\ there <= from \/ there >= from + 4 =>
                \A j \in 0..3 : result[there + j] = Xor(mem[from + j], enc[j])
      BY <2>7, <2>8, <3>1, <3>2, <3>4, FourWords
    <3> QED BY <3>3, <3>5 DEF result
  <2> DEFINE written == [j \in 0..3 |-> mem'[there + j]]
  <2>10. Writes(written)
    BY <2>8, <2>9 DEF Writes
  <2>11. ControlInv'
    <3>1. mem' \in [Address -> Word] /\ i_blk' \in Nat
      BY <2>3, <2>5, <2>9
    <3> QED BY <1>1, <2>1, <2>2, <3>1 DEF ControlInv
  <2>12. Frame'
    <3> HIDE DEF written
    <3> QED BY <2>1, <2>2, <2>3, <2>10, FrameKept
  <2>13. BuffersFit'
    BY <2>1, <2>2 DEF BuffersFit, CeilBlocks
  <2>14. CtrInv'
    <3>1. num_blk' = num_blk /\ InOrder(num_blk)' = InOrder(num_blk)
      BY <2>2 DEF num_blk, InOrder
    <3>2. i_blk' <= num_blk'
      <4> HIDE DEF num_blk, CeilBlocks
      <4> QED BY <1>1, <2>3, <2>5, <3>1
    <3>3. iv_cpy' \in Block
      BY <2>3, <2>7, IncrementAddsOne
    <3>4. CounterOf(iv_cpy, i_blk)'
      <4> DEFINE start == Value(Words(before, iv))
      <4>1. PICK wraps \in 0..i_blk : start + i_blk = Value(iv_cpy) + wraps * Modulus
        BY <2>1 DEF CtrInv, CounterOf
      <4>2. start \in Nat
        <5>1. Words(before, iv) \in Block
          BY <2>1, WordsAreABlock DEF ControlInv, BuffersFit
        <5> QED BY <5>1, IncrementAddsOne
      <4>3. /\ Value(iv_cpy) \in Nat
            /\ \/ Value(iv_cpy') = Value(iv_cpy) + 1
               \/ Value(iv_cpy') = Value(iv_cpy) + 1 - Modulus
        BY <2>3, <2>7, IncrementAddsOne
      <4>4. /\ wraps * Modulus \in Nat /\ Modulus \in Nat
            /\ (wraps + 1) * Modulus = wraps * Modulus + Modulus
        BY <2>5, OneWrapMore
      <4>5. start' = start
        BY <2>2 DEF Value
      <4> DEFINE now == Value(iv_cpy)
                 next == Value(iv_cpy')
                 w0 == wraps * Modulus
                 w1 == (wraps + 1) * Modulus
      <4>6. /\ now \in Nat /\ w0 \in Nat /\ Modulus \in Nat /\ w1 = w0 + Modulus
            /\ start + i_blk = now + w0
            /\ next = now + 1 \/ next = now + 1 - Modulus
        BY <4>1, <4>3, <4>4
      <4> HIDE DEF start, now, next, w0, w1
      <4>7. start + (i_blk + 1) = next + w0 \/ start + (i_blk + 1) = next + w1
        BY <2>5, <4>2, <4>6
      <4>8. wraps \in 0..(i_blk + 1) /\ wraps + 1 \in 0..(i_blk + 1)
        BY <2>5
      <4>9. \E v \in 0..(i_blk + 1) : start + (i_blk + 1) = next + v * Modulus
        BY <4>7, <4>8 DEF w0, w1
      <4>10. Value(iv_cpy)' = next
        BY DEF next, Value
      <4>11. Modulus' = Modulus
        BY DEF Modulus
      <4> QED BY <2>3, <4>5, <4>9, <4>10, <4>11 DEF CounterOf, start
    <3>5. ASSUME InOrder(num_blk), NEW i \in 0..(i_blk' - 1)
          PROVE  CtrDone(i)'
      <4>1. \A counter : CounterOf(counter, i)' = CounterOf(counter, i)
        BY <2>2 DEF CounterOf, Value, Modulus
      <4>2. \A j : (pt + Nb * i + j)' = pt + Nb * i + j /\ (ct + Nb * i + j)' = ct + Nb * i + j
        BY <2>2 DEF Nb
      <4>3. CASE i = i_blk
        <5>1. there <= from \/ there >= from + 4
          <6> DEFINE nb == num_blk
          <6>1. pt <= ct \/ pt >= ct + 4 * nb
            BY <3>5 DEF InOrder, Nb
          <6>2. nb \in Nat /\ i_blk < nb
            BY <1>1, <2>5
          <6>3. there = pt + 4 * i_blk /\ from = ct + 4 * i_blk
            BY DEF Nb
          <6> HIDE DEF nb, there, from
          <6> QED BY <2>5, <2>6, <6>1, <6>2, <6>3
        <5>2. Words(mem, from) = Words(before, from)
          <6> HIDE DEF num_blk, CeilBlocks
          <6> QED BY <1>1, <2>1, <2>5, <3>5, CiphertextIsKept
        <5>3. \A j \in 0..3 : mem[from + j] = before[from + j]
          <6>1. \A j \in 0..3 : Words(mem, from)[j] = mem[from + j]
                                /\ Words(before, from)[j] = before[from + j]
            BY DEF Words
          <6> HIDE DEF from
          <6> QED BY <5>2, <6>1
        <5>4. \A j \in 0..3 : mem'[there + j] = Xor(before[from + j], enc[j])
          <6>1. \A j \in 0..3 : mem'[there + j] = Xor(mem[from + j], enc[j])
            BY <2>9, <5>1
          <6> HIDE DEF there, from, enc
          <6> QED BY <5>3, <6>1
        <5>5. CounterOf(iv_cpy, i)
          BY <2>1, <4>3 DEF CtrInv
        <5>6. /\ CounterOf(iv_cpy, i)
              /\ \A j \in 0..3 : mem'[pt + Nb * i + j]
                    = Xor(before[ct + Nb * i + j], Encrypt(k, iv_cpy)[j])
          BY <4>3, <5>4, <5>5
        <5>7. \E counter \in Block :
                 /\ CounterOf(counter, i)
                 /\ \A j \in 0..3 : mem'[pt + Nb * i + j]
                       = Xor(before[ct + Nb * i + j], Encrypt(k, counter)[j])
          BY <2>7, <5>6
        <5> QED BY <2>2, <4>1, <5>7 DEF CtrDone
      <4>4. CASE i # i_blk
        <5>1. i \in Nat /\ i < i_blk
          BY <2>3, <2>5, <3>5, <4>4
        <5>2. CtrDone(i)
          BY <2>1, <2>5, <3>5, <5>1 DEF CtrInv
        <5>3. \A j \in 0..3 : mem'[pt + Nb * i + j] = mem[pt + Nb * i + j]
          <6> HIDE DEF written, CeilBlocks
          <6> QED BY <2>1, <2>5, <2>10, <5>1, DoneIsKept
        <5>4. PICK counter \in Block :
                 /\ CounterOf(counter, i)
                 /\ \A j \in 0..3 : mem[pt + Nb * i + j]
                       = Xor(before[ct + Nb * i + j], Encrypt(k, counter)[j])
          BY <5>2 DEF CtrDone
        <5>5. \A j \in 0..3 : mem'[pt + Nb * i + j]
                  = Xor(before[ct + Nb * i + j], Encrypt(k, counter)[j])
          BY <5>3, <5>4
        <5> QED BY <2>2, <4>1, <5>4, <5>5 DEF CtrDone
      <4> QED BY <4>3, <4>4
    <3> QED BY <1>1, <2>2, <3>1, <3>2, <3>3, <3>4, <3>5 DEF CtrInv
  <2>15. CbcInv'
    BY <2>1, <2>2 DEF CbcInv
  <2>16. (i_blk > 0 => k \in Keys)'
    BY <1>3, <2>2
  <2> QED BY <2>11, <2>12, <2>13, <2>14, <2>15, <2>16 DEF IInv
<1> QED BY <1>2, <1>3

LEMMA InvCtrEnd == ASSUME IInv, CtrEnd PROVE IInv'
<1>1. /\ modes_pc = "ctr" /\ modes_pc' = "done" /\ i_blk >= num_blk
      /\ UNCHANGED <<iv, ct, sz, pt, k, mem, i_blk, blk_prev, iv_cpy, ret, mode, before>>
  BY DEF CtrEnd
<1>2. Started /\ ControlInv /\ BuffersFit /\ Frame /\ CtrInv /\ mode = "ctr" /\ ret = 0
  BY <1>1 DEF IInv, Started, ControlInv
<1>3. i_blk = num_blk
  <2>1. i_blk \in Nat /\ num_blk \in Nat
    BY <1>2, BlocksOfTheSize DEF ControlInv
  <2>2. i_blk <= num_blk
    BY <1>2 DEF CtrInv
  <2> HIDE DEF num_blk
  <2> QED BY <1>1, <2>1, <2>2
<1>4. ControlInv'
  BY <1>1, <1>2 DEF ControlInv
<1>5. BuffersFit' /\ Frame'
  BY <1>1, <1>2 DEF BuffersFit, Frame, CeilBlocks
<1>6. num_blk' = num_blk /\ InOrder(num_blk)' = InOrder(num_blk)
  BY <1>1 DEF num_blk, InOrder
<1>7. \A i : CtrDone(i)' = CtrDone(i)
  BY <1>1 DEF CtrDone, CounterOf, Value, Modulus
<1>8. CounterOf(iv_cpy, i_blk)' = CounterOf(iv_cpy, i_blk)
  BY <1>1 DEF CounterOf, Value, Modulus
<1>9. CtrInv'
  <2> HIDE DEF num_blk
  <2> QED BY <1>1, <1>2, <1>3, <1>6, <1>7, <1>8 DEF CtrInv
<1>10. CbcInv'
  BY <1>1, <1>2 DEF CbcInv
<1>11. (i_blk > 0 => k \in Keys)'
  BY <1>1, <1>2 DEF IInv
<1> QED BY <1>4, <1>5, <1>9, <1>10, <1>11 DEF IInv

LEMMA InvNext == IInv /\ [ModesNext]_modes_vars => IInv'
<1> SUFFICES ASSUME IInv, [ModesNext]_modes_vars PROVE IInv'
  OBVIOUS
<1>1. CASE aes_cbc_decrypt
  BY <1>1, InvBegin DEF aes_cbc_decrypt
<1>2. CASE aes_ctr_decrypt
  BY <1>2, InvBegin DEF aes_ctr_decrypt
<1>3. CASE CbcBlock \/ CbcEnd
  BY <1>3, InvCbcBlock, InvCbcEnd
<1>4. CASE CtrBlock \/ CtrEnd
  BY <1>4, InvCtrBlock, InvCtrEnd
<1>5. CASE UNCHANGED modes_vars
  <2>1. ControlInv' = ControlInv /\ Started' = Started
    BY <1>5 DEF modes_vars, ControlInv, Started
  <2>2. BuffersFit' = BuffersFit /\ Frame' = Frame
    BY <1>5 DEF modes_vars, BuffersFit, Frame, CeilBlocks
  <2>3. CbcInv' = CbcInv
    BY <1>5 DEF modes_vars, CbcInv, CbcDone, Chained, InOrder, CeilBlocks
  <2>4. CtrInv' = CtrInv
    BY <1>5 DEF modes_vars, CtrInv, CtrDone, CounterOf, InOrder, num_blk, Value, Modulus
  <2>5. (i_blk > 0 => k \in Keys)' = (i_blk > 0 => k \in Keys)
    BY <1>5 DEF modes_vars
  <2> QED BY <2>1, <2>2, <2>3, <2>4, <2>5 DEF IInv
<1> QED BY <1>1, <1>2, <1>3, <1>4, <1>5 DEF ModesNext

LEMMA Invariant == ModesSpec => []IInv
BY InvInit, InvNext, PTL DEF ModesSpec

----------------------------------------------------------------------------
(* The theorems.                                                           *)

\* The memory holds words, and neither loop passes its last block.
THEOREM ModesTypeCorrect == ModesSpec => []ModesTypeOK
BY Invariant, InvImpliesTypeOK, PTL

\* A CBC call that returns 0 has decrypted every block of the ciphertext it was
\* passed, in place or not (aes_cbc.c:28-54).
THEOREM CbcIsTheMode == ModesSpec => []CbcDecrypts
BY Invariant, InvImpliesCbc, PTL

\* A CTR call that returns 0 has added to block i the encryption of the IV plus i,
\* the carries of its four words included (aes_ctr.c:27-53).
THEOREM CtrIsTheMode == ModesSpec => []CtrDecrypts
BY Invariant, InvImpliesCtr, PTL

\* No call writes outside the plaintext, and one that fails has written nothing
\* (aes_cbc.c:35-39, aes_ctr.c:35-39).
THEOREM ModesWriteInside == ModesSpec => []WritesStayInside
BY Invariant, InvImpliesWrites, PTL

----------------------------------------------------------------------------
(* Decryption gives back what was encrypted.                               *)

\* Of the block cipher, and of ^.
CipherInverts == \A key \in Keys, block \in Block : Decrypt(key, Encrypt(key, block)) = block
XorCancels == \A x, y \in Word : Xor(Xor(x, y), y) = x

\* At the call the ciphertext was the CBC encryption of the blocks of a text.
CbcEncrypted(plain) ==
    \A i \in 0..(CeilBlocks - 1) :
       Words(before, ct + Nb * i) =
          Encrypt(k, [j \in 0..3 |->
              Xor(plain[i][j], Words(before, IF i = 0 THEN iv ELSE ct + Nb * (i - 1))[j])])

\* Block i of a CTR encryption adds the encryption of this counter, the IV plus i
\* modulo the number of blocks.
IsCounter(counter, i) ==
    \E wraps \in 0..i :
       Value(Words(before, iv)) + i = Value(counter) + wraps * (W * W * W * W)

CtrEncrypted(plain) ==
    \A i \in 0..(num_blk - 1) : \E counter \in Block :
       /\ IsCounter(counter, i)
       /\ \A j \in 0..3 :
             before[ct + Nb * i + j] = Xor(plain[i][j], Encrypt(k, counter)[j])

CbcRecovers ==
    mode = "cbc" /\ modes_pc = "done" /\ ret = 0 /\ InOrder(CeilBlocks) =>
       \A plain \in [0..(CeilBlocks - 1) -> Block] :
          CbcEncrypted(plain) =>
             \A i \in 0..(CeilBlocks - 1) : Words(mem, pt + Nb * i) = plain[i]

CtrRecovers ==
    mode = "ctr" /\ modes_pc = "done" /\ ret = 0 /\ InOrder(num_blk) =>
       \A plain \in [0..(num_blk - 1) -> Block] :
          CtrEncrypted(plain) =>
             \A i \in 0..(num_blk - 1) : Words(mem, pt + Nb * i) = plain[i]

\* The quotient and the rest of a number are its only ones.
LEMMA OneQuotient ==
    ASSUME NEW m \in Nat, NEW x \in Nat, NEW y \in Nat, NEW u \in Nat, NEW v \in Nat,
           u < m, v < m, x * m + u = y * m + v
    PROVE  x = y /\ u = v
<1>1. \A p, q \in Nat : \A f, g \in Nat : p < q /\ f < m => p * m + f < q * m + g
  <2> SUFFICES ASSUME NEW p \in Nat, NEW q \in Nat, NEW f \in Nat, NEW g \in Nat, p < q, f < m
               PROVE  p * m + f < q * m + g
    OBVIOUS
  <2>1. q = p + 1 + (q - p - 1) /\ q - p - 1 \in Nat
    OBVIOUS
  <2>2. PICK e \in Nat : q = p + 1 + e
    BY <2>1
  <2>3. q * m = p * m + m + e * m
    BY <2>2
  <2>4. e * m \in Nat /\ p * m \in Nat /\ q * m \in Nat
    BY ProductInNat
  <2> DEFINE em == e * m
             pm == p * m
             qm == q * m
  <2>5. qm = pm + m + em /\ em \in Nat /\ pm \in Nat /\ qm \in Nat
    BY <2>3, <2>4
  <2> HIDE DEF em, pm, qm
  <2>6. pm + f < qm + g
    BY <2>5
  <2> QED BY <2>6 DEF pm, qm
<1>2. x * m \in Nat /\ y * m \in Nat
  BY ProductInNat
<1>3. ~(x < y)
  <2> SUFFICES ASSUME x < y PROVE FALSE
    OBVIOUS
  <2>1. x * m + u < y * m + v
    BY <1>1
  <2> DEFINE xm == x * m
             ym == y * m
  <2>2. xm + u < ym + v /\ xm + u = ym + v /\ xm \in Nat /\ ym \in Nat
    BY <1>2, <2>1
  <2> HIDE DEF xm, ym
  <2> QED BY <2>2
<1>4. ~(y < x)
  <2> SUFFICES ASSUME y < x PROVE FALSE
    OBVIOUS
  <2>1. y * m + v < x * m + u
    BY <1>1
  <2> DEFINE xm == x * m
             ym == y * m
  <2>2. ym + v < xm + u /\ xm + u = ym + v /\ xm \in Nat /\ ym \in Nat
    BY <1>2, <2>1
  <2> HIDE DEF xm, ym
  <2> QED BY <2>2
<1>5. x = y
  BY <1>3, <1>4
<1>6. x * m = y * m
  BY <1>5
<1> DEFINE xm == x * m
           ym == y * m
<1>7. xm = ym /\ xm \in Nat /\ xm + u = ym + v
  BY <1>2, <1>6
<1> HIDE DEF xm, ym
<1>8. u = v
  BY <1>7
<1> QED BY <1>5, <1>8

\* One more word.
LEMMA OneMoreWord ==
    ASSUME NEW h \in Nat, NEW g \in Nat, NEW low \in Nat, g < h, low < W
    PROVE  g * W + low < h * W /\ g * W + low \in Nat
<1>1. W \in Nat
  BY WordsAssumption
<1>2. PICK e \in Nat : h = g + 1 + e
  <2>1. h = g + 1 + (h - g - 1) /\ h - g - 1 \in Nat
    OBVIOUS
  <2> QED BY <2>1
<1>3. h * W = g * W + W + e * W
  BY <1>1, <1>2
<1>4. e * W \in Nat /\ g * W \in Nat /\ h * W \in Nat
  BY <1>1, ProductInNat
<1> DEFINE eW == e * W
           gW == g * W
           hW == h * W
<1>5. hW = gW + W + eW /\ eW \in Nat /\ gW \in Nat /\ hW \in Nat
  BY <1>3, <1>4
<1> HIDE DEF eW, gW, hW
<1>6. gW + low < hW /\ gW + low \in Nat
  BY <1>1, <1>5
<1> QED BY <1>6 DEF gW, hW

LEMMA BlocksByValue ==
    ASSUME NEW c1 \in Block, NEW c2 \in Block
    PROVE  /\ Value(c1) \in Nat /\ Value(c1) < Modulus
           /\ Value(c1) = Value(c2) => c1 = c2
<1>1. /\ W \in Nat /\ W > 0
      /\ \A c \in {c1, c2} : \A j \in 0..3 : c[j] \in Nat /\ c[j] < W
  <2>1. W \in Nat /\ W > 0 /\ \A x \in Word : x \in Nat /\ x < W
    BY WordsAssumption DEF Word
  <2> QED BY <2>1 DEF Block
<1> DEFINE G1(c) == c[0] * W + c[1]
           G2(c) == G1(c) * W + c[2]
<1>2. \A c \in {c1, c2} :
         /\ G1(c) \in Nat /\ G1(c) < W * W /\ G2(c) \in Nat /\ G2(c) < W * W * W
         /\ Value(c) \in Nat /\ Value(c) < W * W * W * W
         /\ Value(c) = G2(c) * W + c[3]
  <2> SUFFICES ASSUME NEW c \in {c1, c2}
               PROVE  /\ G1(c) \in Nat /\ G1(c) < W * W /\ G2(c) \in Nat /\ G2(c) < W * W * W
                      /\ Value(c) \in Nat /\ Value(c) < W * W * W * W
                      /\ Value(c) = G2(c) * W + c[3]
    OBVIOUS
  <2>1. /\ c[0] \in Nat /\ c[1] \in Nat /\ c[2] \in Nat /\ c[3] \in Nat
        /\ c[0] < W /\ c[1] < W /\ c[2] < W /\ c[3] < W
    BY <1>1
  <2>2. W * W \in Nat /\ W * W * W \in Nat
    BY <1>1, ProductInNat
  <2>3. G1(c) \in Nat /\ G1(c) < W * W
    BY <1>1, <2>1, OneMoreWord
  <2> HIDE DEF G1
  <2>4. G2(c) \in Nat /\ G2(c) < W * W * W
    BY <2>1, <2>2, <2>3, OneMoreWord
  <2>5. Value(c) = G2(c) * W + c[3]
    BY DEF Value, G1
  <2> HIDE DEF G2
  <2>6. G2(c) * W + c[3] \in Nat /\ G2(c) * W + c[3] < W * W * W * W
    BY <2>1, <2>2, <2>4, OneMoreWord
  <2> QED BY <2>3, <2>4, <2>5, <2>6
<1>3. ASSUME Value(c1) = Value(c2) PROVE c1 = c2
  <2>0. /\ c1[0] \in Nat /\ c1[1] \in Nat /\ c1[2] \in Nat /\ c1[3] \in Nat
        /\ c2[0] \in Nat /\ c2[1] \in Nat /\ c2[2] \in Nat /\ c2[3] \in Nat
        /\ c1[1] < W /\ c1[2] < W /\ c1[3] < W /\ c2[1] < W /\ c2[2] < W /\ c2[3] < W
    BY <1>1
  <2>1. G2(c1) = G2(c2) /\ c1[3] = c2[3]
    <3> DEFINE x == G2(c1)
               y == G2(c2)
               u == c1[3]
               v == c2[3]
    <3>1. /\ x * W + u = y * W + v /\ x \in Nat /\ y \in Nat /\ W \in Nat
          /\ u \in Nat /\ v \in Nat /\ u < W /\ v < W
      BY <1>1, <1>2, <1>3, <2>0
    <3> HIDE DEF x, y, u, v
    <3>2. x = y /\ u = v
      BY <3>1, OneQuotient
    <3> QED BY <3>2 DEF x, y, u, v
  <2>2. G1(c1) = G1(c2) /\ c1[2] = c2[2]
    <3> DEFINE x == G1(c1)
               y == G1(c2)
               u == c1[2]
               v == c2[2]
    <3>1. /\ x * W + u = y * W + v /\ x \in Nat /\ y \in Nat /\ W \in Nat
          /\ u \in Nat /\ v \in Nat /\ u < W /\ v < W
      BY <1>1, <1>2, <2>0, <2>1
    <3> HIDE DEF x, y, u, v
    <3>2. x = y /\ u = v
      BY <3>1, OneQuotient
    <3> QED BY <3>2 DEF x, y, u, v
  <2>3. c1[0] = c2[0] /\ c1[1] = c2[1]
    <3> DEFINE x == c1[0]
               y == c2[0]
               u == c1[1]
               v == c2[1]
    <3>1. /\ x * W + u = y * W + v /\ x \in Nat /\ y \in Nat /\ W \in Nat
          /\ u \in Nat /\ v \in Nat /\ u < W /\ v < W
      BY <1>1, <2>0, <2>2
    <3> HIDE DEF x, y, u, v
    <3>2. x = y /\ u = v
      BY <3>1, OneQuotient
    <3> QED BY <3>2 DEF x, y, u, v
  <2>4. \A j \in 0..3 : c1[j] = c2[j]
    BY <2>1, <2>2, <2>3
  <2> QED BY <2>4 DEF Block
<1> QED BY <1>2, <1>3 DEF Modulus

LEMMA OneCounter ==
    ASSUME NEW c1 \in Block, NEW c2 \in Block, NEW i, IsCounter(c1, i), IsCounter(c2, i),
           i \in Nat
    PROVE  c1 = c2
<1>1. PICK n1 \in 0..i : Value(Words(before, iv)) + i = Value(c1) + n1 * Modulus
  BY DEF IsCounter, Modulus
<1>2. PICK n2 \in 0..i : Value(Words(before, iv)) + i = Value(c2) + n2 * Modulus
  BY DEF IsCounter, Modulus
<1>3. /\ Value(c1) \in Nat /\ Value(c2) \in Nat /\ Value(c1) < Modulus /\ Value(c2) < Modulus
  BY BlocksByValue
<1>4. Modulus \in Nat
  BY WordsAssumption, ProductInNat DEF Modulus
<1>5. n1 \in Nat /\ n2 \in Nat /\ n1 * Modulus \in Nat /\ n2 * Modulus \in Nat
  BY <1>4, ProductInNat
<1> DEFINE m1 == n1 * Modulus
           m2 == n2 * Modulus
<1>6. m1 + Value(c1) = m2 + Value(c2)
  <2>1. m1 \in Nat /\ m2 \in Nat /\ Value(c1) + m1 = Value(c2) + m2
    BY <1>1, <1>2, <1>5
  <2> HIDE DEF m1, m2
  <2> QED BY <1>3, <2>1
<1>7. n1 * Modulus + Value(c1) = n2 * Modulus + Value(c2)
  BY <1>6
<1>8. Value(c1) = Value(c2)
  BY <1>3, <1>4, <1>5, <1>7, OneQuotient
<1> QED BY <1>8, BlocksByValue

LEMMA PlainBlock ==
    ASSUME XorCancels, NEW p, NEW q, p \in Block, q \in Block
    PROVE  /\ [j \in 0..3 |-> Xor(p[j], q[j])] \in Block
           /\ [j \in 0..3 |-> Xor(Xor(p[j], q[j]), q[j])] = p
<1>1. \A j \in 0..3 : p[j] \in Word /\ q[j] \in Word
  BY DEF Block
<1>2. \A j \in 0..3 : Xor(p[j], q[j]) \in Word /\ Xor(Xor(p[j], q[j]), q[j]) = p[j]
  BY <1>1, WordsAssumption DEF XorCancels
<1> QED BY <1>2 DEF Block

LEMMA InvImpliesCbcRecovers ==
    ASSUME CipherInverts, XorCancels, IInv
    PROVE  CbcRecovers
<1> SUFFICES ASSUME mode = "cbc", modes_pc = "done", ret = 0, InOrder(CeilBlocks),
                    NEW plain \in [0..(CeilBlocks - 1) -> Block], CbcEncrypted(plain),
                    NEW i \in 0..(CeilBlocks - 1)
             PROVE  Words(mem, pt + Nb * i) = plain[i]
  BY DEF CbcRecovers
<1>1. /\ BuffersFit /\ CbcInv /\ ControlInv /\ (i_blk > 0 => k \in Keys)
  BY DEF IInv, Started
<1>2. CeilBlocks \in Nat /\ i_blk = CeilBlocks /\ i \in Nat /\ i < CeilBlocks
  BY <1>1, BlocksOfTheSize DEF CbcInv, ControlInv
<1>3. k \in Keys
  BY <1>1, <1>2
<1> DEFINE prev == Words(before, IF i = 0 THEN iv ELSE ct + Nb * (i - 1))
<1>4. prev \in Block
  <2>1. before \in [Address -> Word] /\ iv \in Nat /\ ct \in Nat /\ iv >= 1 /\ ct >= 1
        /\ iv + 3 <= MemSize /\ ct + 4 * CeilBlocks <= MemSize + 1 /\ MemSize \in Nat
    BY <1>1, ClientAssumption DEF ControlInv, BuffersFit
  <2> HIDE DEF CeilBlocks
  <2>2. CASE i = 0
    BY <2>1, <2>2, WordsAreABlock
  <2>3. CASE i # 0
    <3>1. ct + 4 * (i - 1) \in Nat /\ 1 <= ct + 4 * (i - 1) /\ ct + 4 * (i - 1) + 3 <= MemSize
      BY <1>2, <2>1, <2>3
    <3> QED BY <2>1, <2>3, <3>1, WordsAreABlock DEF Nb
  <2> QED BY <2>2, <2>3
<1>5. plain[i] \in Block
  OBVIOUS
<1> DEFINE sum == [j \in 0..3 |-> Xor(plain[i][j], prev[j])]
<1>6. sum \in Block /\ [j \in 0..3 |-> Xor(sum[j], prev[j])] = plain[i]
  <2>1. [j \in 0..3 |-> Xor(sum[j], prev[j])]
        = [j \in 0..3 |-> Xor(Xor(plain[i][j], prev[j]), prev[j])]
    OBVIOUS
  <2> QED BY <1>4, <1>5, <2>1, PlainBlock
<1>7. Words(before, ct + Nb * i) = Encrypt(k, sum)
  BY DEF CbcEncrypted
<1>8. Decrypt(k, Words(before, ct + Nb * i)) = sum
  BY <1>3, <1>6, <1>7 DEF CipherInverts
<1>9. Words(mem, pt + Nb * i)
      = [j \in 0..3 |-> Xor(Decrypt(k, Words(before, ct + Nb * i))[j], prev[j])]
  BY InvImpliesCbc DEF CbcDecrypts
<1> HIDE DEF sum, prev
<1> QED BY <1>6, <1>8, <1>9

LEMMA InvImpliesCtrRecovers ==
    ASSUME CipherInverts, XorCancels, IInv
    PROVE  CtrRecovers
<1> SUFFICES ASSUME mode = "ctr", modes_pc = "done", ret = 0, InOrder(num_blk),
                    NEW plain \in [0..(num_blk - 1) -> Block], CtrEncrypted(plain),
                    NEW i \in 0..(num_blk - 1)
             PROVE  Words(mem, pt + Nb * i) = plain[i]
  BY DEF CtrRecovers
<1>1. /\ CtrInv /\ ControlInv /\ (i_blk > 0 => k \in Keys)
  BY DEF IInv, Started
<1>2. num_blk \in Nat /\ i_blk = num_blk /\ i \in Nat /\ i < num_blk
  BY <1>1, BlocksOfTheSize DEF CtrInv, ControlInv
<1>3. k \in Keys
  BY <1>1, <1>2
<1>4. PICK c1 \in Block :
         /\ IsCounter(c1, i)
         /\ \A j \in 0..3 : before[ct + Nb * i + j] = Xor(plain[i][j], Encrypt(k, c1)[j])
  BY DEF CtrEncrypted
<1>5. PICK c2 \in Block :
         /\ IsCounter(c2, i)
         /\ \A j \in 0..3 : mem[pt + Nb * i + j]
                              = Xor(before[ct + Nb * i + j], Encrypt(k, c2)[j])
  BY InvImpliesCtr DEF CtrDecrypts, IsCounter
<1>6. c2 = c1
  BY <1>2, <1>4, <1>5, OneCounter
<1> DEFINE stream == Encrypt(k, c1)
<1>7. plain[i] \in Block /\ stream \in Block
  BY <1>3, CipherAssumption
<1>8. \A j \in 0..3 : mem[pt + Nb * i + j] = Xor(Xor(plain[i][j], stream[j]), stream[j])
  BY <1>4, <1>5, <1>6
<1> HIDE DEF stream
<1>9. \A j \in 0..3 : Xor(Xor(plain[i][j], stream[j]), stream[j]) = plain[i][j]
  <2>1. \A j \in 0..3 : plain[i][j] \in Word /\ stream[j] \in Word
    BY <1>7 DEF Block
  <2> QED BY <2>1 DEF XorCancels
<1>10. Words(mem, pt + Nb * i) = [j \in 0..3 |-> plain[i][j]]
  BY <1>8, <1>9 DEF Words
<1> QED BY <1>7, <1>10 DEF Block

\* For a block cipher whose decryption inverts its encryption (AesDecryptionInverts)
\* and a ^ that undoes itself, either function gives back the text of which the
\* memory held the encryption, of any length, in place or not, whatever the IV and
\* however its counter wraps (aes_cbc.c:28-54, aes_ctr.c:27-53).
THEOREM DecryptionRecovers ==
    ASSUME CipherInverts, XorCancels
    PROVE  ModesSpec => [](CbcRecovers /\ CtrRecovers)
<1>1. IInv => CbcRecovers /\ CtrRecovers
  BY InvImpliesCbcRecovers, InvImpliesCtrRecovers
<1> QED BY <1>1, Invariant, PTL

----------------------------------------------------------------------------
(* Week 2: the invariant.  Until remove_pkcs7_padding clears a byte, the     *)
(* buffer is a function of the problem; what has been cleared since follows *)
(* from the word, the byte and the count of the loop.                       *)

\* The i-th byte that a problem leaves in the buffer.
PlainByte(i) == IF i >= DecryptedBytes THEN 0
                ELSE IF ct_words(i) = 0 THEN STREAM ELSE ct_words(i)

Decrypted == [a \in Addresses |-> PlainByte(ByteAddress(a))]

\* main never sees the results of remove_pkcs7_padding, and the other client
\* stops at them, in the first problem.
Clients ==
    /\ client \in {"main", "last"} /\ pad \in 0..255 /\ problem \in 1..4
    /\ w2_pc \in {"parse", "decrypt", "unpad", "clearing", "print", "wipe", "end",
                  "returned", "refused", "overrun"}
    /\ client = "last" => problem = 1 /\ w2_pc \notin {"print", "wipe", "end"}
    /\ client = "main" => w2_pc \notin {"returned", "refused", "overrun"}
    /\ w2_pc \in {"unpad", "clearing", "returned", "refused", "overrun"} => cbc

\* The bytes are those of the problem, and all of them while nothing is cleared.
Buffer ==
    /\ text \in [Addresses -> {0, STREAM} \cup ((1000 * problem + 1) .. (1000 * problem + 60))]
    /\ w2_pc \in {"parse", "decrypt", "end"} => text = Nothing
    /\ w2_pc = "decrypt" => parsed = [i \in 0..(WordArray - 1) |-> ct_words(i)]
    /\ w2_pc \in {"unpad", "refused"} => text = Decrypted
    /\ client = "main" /\ w2_pc \in {"clearing", "print", "wipe"} => text = Decrypted

\* The byte of the word that the loop clears next.
InTheWord == pbyte - 4 * (8 + i_word)

\* The passes of an even padding: two in each word, but for the first word when
\* half the padding is odd.  Nothing is cleared after the next byte, and nothing
\* before the padding.
EvenPasses ==
    /\ i_word <= 3 /\ InTheWord \in {0, 1}
    /\ pad % 4 = 0 => padding_bytes = pad - 4 * (3 - i_word) - 2 * InTheWord
    /\ pad % 4 = 2 => \/ i_word = 3 /\ InTheWord = 0 /\ padding_bytes = pad
                      \/ i_word < 3 /\ padding_bytes = pad - 4 * (3 - i_word) - 2 * InTheWord + 2
    /\ \A a \in 0..47 : text[a] = 0 =>
          a >= 4 * (9 + i_word) \/ a \in (4 * (8 + i_word)) .. (pbyte - 1)
    /\ Cardinality(Cleared) = (pad - padding_bytes) \div 2
    /\ \A i \in Cleared : i >= DataBytes - pad

\* An even count stays even and ends at 0; an odd one stays odd, and never does.
Unpadding ==
    /\ padding_bytes \in 0..255 /\ pbyte \in Int /\ i_word \in Int
    /\ w2_pc \in {"unpad", "clearing"} => blk = LastBlock
    /\ client = "main" /\ w2_pc = "clearing" => padding_bytes = 0
    /\ w2_pc = "refused" => pad = 0 \/ pad > BLOCK_BYTES
    /\ w2_pc = "overrun" => pad % 2 = 1 /\ pad < BLOCK_BYTES
    /\ w2_pc = "returned" => pad % 2 = 0 /\ padding_bytes = 0
    /\ client = "last" /\ w2_pc \in {"clearing", "returned"} =>
          /\ pad \in 1..BLOCK_BYTES
          /\ pad % 2 = 0 => EvenPasses
          /\ pad % 2 = 1 => padding_bytes % 2 = 1

\* The byte to print follows from the number of bytes printed.
Printing ==
    /\ out \in Seq(Int) /\ \A i \in 1..Len(out) : out[i] = PlainByte(i - 1)
    /\ w2_pc \notin {"print", "wipe", "end"} => out = <<>>
    /\ w2_pc \in {"unpad", "clearing", "print"} =>
          /\ Len(out) \in 0..PrintedBytes /\ left = PrintedBytes - Len(out)
          /\ w = 4 * (Len(out) \div 4) /\ b = ByteAddress(Len(out))

Week2IInv == Clients /\ Buffer /\ Unpadding /\ Printing

LEMMA TheProblems ==
    ASSUME problem \in 1..4
    PROVE  \/ /\ problem = 1 /\ cbc /\ DataBytes = 48 /\ ByteArray = 48 /\ WordArray = 48
              /\ PrintedBytes = 48 /\ DecryptedBytes = 48
           \/ /\ problem = 2 /\ cbc /\ DataBytes = 48 /\ ByteArray = 48 /\ WordArray = 48
              /\ PrintedBytes = 48 /\ DecryptedBytes = 48
           \/ /\ problem = 3 /\ ~cbc /\ DataBytes = 60 /\ ByteArray = 60 /\ WordArray = 64
              /\ PrintedBytes = 60 /\ DecryptedBytes = 64
           \/ /\ problem = 4 /\ ~cbc /\ DataBytes = 30 /\ ByteArray = 32 /\ WordArray = 36
              /\ PrintedBytes = 36 /\ DecryptedBytes = 32
<1>1. CASE problem = 1
  BY <1>1 DEF cbc, DataBytes, ByteArray, WordArray, PrintedBytes, DecryptedBytes, BLOCK_BYTES
<1>2. CASE problem = 2
  BY <1>2 DEF cbc, DataBytes, ByteArray, WordArray, PrintedBytes, DecryptedBytes, BLOCK_BYTES
<1>3. CASE problem = 3
  BY <1>3 DEF cbc, DataBytes, ByteArray, WordArray, PrintedBytes, DecryptedBytes, BLOCK_BYTES
<1>4. CASE problem = 4
  BY <1>4 DEF cbc, DataBytes, ByteArray, WordArray, PrintedBytes, DecryptedBytes, BLOCK_BYTES
<1> QED BY <1>1, <1>2, <1>3, <1>4

\* ByteAddress reverses the four bytes of a word, and is its own inverse.
LEMMA BytesOfAWord ==
    ASSUME NEW i \in Nat
    PROVE  /\ ByteAddress(i) \in Nat
           /\ ByteAddress(i) = i - 3 \/ ByteAddress(i) = i - 1
              \/ ByteAddress(i) = i + 1 \/ ByteAddress(i) = i + 3
           /\ ByteAddress(i) \div 4 = i \div 4
           /\ ByteAddress(ByteAddress(i)) = i
BY DEF ByteAddress

LEMMA AddressesOfBytes ==
    ASSUME NEW i \in 0..63
    PROVE  ByteAddress(i) \in 0..63 /\ ByteAddress(i) \in Addresses
<1>1. ByteAddress(i) \in 0..63
  BY DEF ByteAddress
<1> QED BY <1>1, Week2Assumption DEF Addresses

LEMMA WhatIsDecrypted ==
    ASSUME problem \in 1..4, NEW i \in Nat
    PROVE  /\ PlainByte(i) \in {0, STREAM} \cup ((1000 * problem + 1) .. (1000 * problem + 60))
           /\ PlainByte(i) \in Int
           /\ i < DataBytes => PlainByte(i) = 1000 * problem + (i + 1)
           /\ i >= DataBytes => PlainByte(i) \in {0, STREAM}
<1>1. CASE problem = 1
  BY <1>1, TheProblems DEF PlainByte, ct_words, ct_bytes, STREAM
<1>2. CASE problem = 2
  BY <1>2, TheProblems DEF PlainByte, ct_words, ct_bytes, STREAM
<1>3. CASE problem = 3
  BY <1>3, TheProblems DEF PlainByte, ct_words, ct_bytes, STREAM
<1>4. CASE problem = 4
  BY <1>4, TheProblems DEF PlainByte, ct_words, ct_bytes, STREAM
<1> QED BY <1>1, <1>2, <1>3, <1>4

LEMMA DecryptedBuffer ==
    ASSUME problem \in 1..4
    PROVE  /\ Decrypted \in [Addresses -> {0, STREAM} \cup ((1000 * problem + 1) .. (1000 * problem + 60))]
           /\ \A i \in 0..63 : Decrypted[ByteAddress(i)] = PlainByte(i)
<1>1. \A a \in Addresses : ByteAddress(a) \in Nat
  BY BytesOfAWord, Week2Assumption DEF Addresses
<1>2. \A a \in Addresses : Decrypted[a] = PlainByte(ByteAddress(a))
  BY DEF Decrypted
<1>3. ASSUME NEW i \in 0..63
      PROVE  Decrypted[ByteAddress(i)] = PlainByte(i)
  <2>1. ByteAddress(i) \in Addresses
    BY AddressesOfBytes
  <2>2. ByteAddress(ByteAddress(i)) = i
    BY BytesOfAWord
  <2> QED BY <1>2, <2>1, <2>2
<1> QED BY <1>1, <1>3, WhatIsDecrypted DEF Decrypted

\* Nothing is 0 in what is decrypted but what follows the text.
LEMMA DecryptedIsNotCleared ==
    ASSUME problem \in 1..4, text = Decrypted
    PROVE  Cleared = {}
<1>1. DataBytes \in 0..60
  BY TheProblems
<1>2. ASSUME NEW i \in 0..(DataBytes - 1)
      PROVE  text[ByteAddress(i)] # 0
  <2>1. i \in 0..63 /\ i \in Nat /\ i < DataBytes
    BY <1>1
  <2>2. text[ByteAddress(i)] = 1000 * problem + (i + 1)
    BY <2>1, DecryptedBuffer, WhatIsDecrypted
  <2> QED BY <2>1, <2>2
<1> QED BY <1>2 DEF Cleared

LEMMA Week2Init_ == Week2Init => Week2IInv
<1> SUFFICES ASSUME Week2Init PROVE Week2IInv
  OBVIOUS
<1>1. Clients
  <2>1. pad = 8 \/ pad \in Pads
    BY DEF Week2Init
  <2>2. Pads \subseteq 0..255
    BY Week2Assumption
  <2>3. 8 \in 0..255
    OBVIOUS
  <2>4. pad \in Pads => pad \in 0..255
    BY ONLY <2>2, Zenon
  <2>5. pad \in 0..255
    BY ONLY <2>1, <2>3, <2>4, Zenon
  <2> QED BY <2>5 DEF Week2Init, Clients
<1>2. Buffer
  BY DEF Week2Init, Buffer, Nothing
<1>3. Unpadding
  BY DEF Week2Init, Unpadding
<1>4. Printing
  BY DEF Week2Init, Printing
<1> QED BY <1>1, <1>2, <1>3, <1>4 DEF Week2IInv

LEMMA Week2Parse == ASSUME Week2IInv, Parse PROVE Week2IInv'
<1>1. Clients' /\ Unpadding'
  BY DEF Week2IInv, Parse, Clients, Unpadding
<1>2. Buffer'
  BY DEF Week2IInv, Parse, Buffer, Nothing, WordArray, ct_words, ct_bytes, ByteArray, DataBytes
<1>3. Printing'
  BY DEF Week2IInv, Parse, Printing
<1> QED BY <1>1, <1>2, <1>3 DEF Week2IInv

LEMMA Week2Decrypt == ASSUME Week2IInv, DecryptText PROVE Week2IInv'
<1>1. Clients /\ Buffer /\ Unpadding /\ Printing /\ problem \in 1..4
  BY DEF Week2IInv, Clients
<1>2. /\ w2_pc = "decrypt" /\ w2_pc' = IF cbc THEN "unpad" ELSE "print"
      /\ blk' = LastBlock /\ w' = 0 /\ b' = 3 /\ left' = PrintedBytes
      /\ UNCHANGED <<client, pad, problem, parsed, i_word, pbyte, padding_bytes, out>>
  BY DEF DecryptText
<1>3. cbc' = cbc /\ Decrypted' = Decrypted /\ LastBlock' = LastBlock
      /\ PrintedBytes' = PrintedBytes
  BY <1>2 DEF cbc, Decrypted, PlainByte, DecryptedBytes, WordArray, LastBlock, PrintedBytes,
              ct_words, ct_bytes, DataBytes, ByteArray
<1>4. text' = Decrypted
  <2>1. ASSUME NEW a \in Addresses
        PROVE  (IF ByteAddress(a) >= DecryptedBytes THEN text[a]
                ELSE IF parsed[ByteAddress(a)] = 0 THEN STREAM ELSE parsed[ByteAddress(a)])
               = PlainByte(ByteAddress(a))
    <3>1. text[a] = 0
      BY <1>1, <1>2 DEF Buffer, Nothing
    <3>2. ByteAddress(a) \in Nat
      BY BytesOfAWord, Week2Assumption DEF Addresses
    <3>3. ByteAddress(a) < DecryptedBytes => ByteAddress(a) \in 0..(WordArray - 1)
      <4>1. DecryptedBytes \in Int /\ WordArray \in Int /\ DecryptedBytes <= WordArray
        BY <1>1, TheProblems
      <4> QED BY <3>2, <4>1
    <3>4. ByteAddress(a) < DecryptedBytes => parsed[ByteAddress(a)] = ct_words(ByteAddress(a))
      BY <1>1, <1>2, <3>3 DEF Buffer
    <3>5. DecryptedBytes \in Int
      BY <1>1, TheProblems
    <3> QED BY <3>1, <3>2, <3>4, <3>5 DEF PlainByte
  <2> QED BY <2>1 DEF DecryptText, Decrypted
<1>5. Clients'
  BY <1>1, <1>2, <1>3, TheProblems DEF Clients
<1>6. Buffer'
  BY <1>1, <1>2, <1>3, <1>4, DecryptedBuffer DEF Buffer
<1>7. Unpadding'
  BY <1>1, <1>2, <1>3 DEF Unpadding
<1>8. Printing'
  <2>1. out = <<>> /\ Len(out) = 0
    BY <1>1, <1>2 DEF Printing
  <2>2. PrintedBytes \in Nat
    BY <1>1, TheProblems
  <2>3. ByteAddress(0) = 3
    BY DEF ByteAddress
  <2>4. /\ Len(out) \in 0..PrintedBytes /\ left' = PrintedBytes - Len(out)
        /\ w' = 4 * (Len(out) \div 4) /\ b' = ByteAddress(Len(out))
    BY <1>2, <2>1, <2>2, <2>3
  <2>5. \A i \in 1..Len(out) : FALSE
    BY <2>1
  <2> QED BY <1>2, <1>3, <2>1, <2>4, <2>5 DEF Printing, ByteAddress
<1> QED BY <1>5, <1>6, <1>7, <1>8 DEF Week2IInv

LEMMA Week2StartUnpadding == ASSUME Week2IInv, StartUnpadding PROVE Week2IInv'
<1>1. Clients /\ Buffer /\ Unpadding /\ Printing /\ problem \in 1..4
  BY DEF Week2IInv, Clients
<1>2. /\ w2_pc = "unpad" /\ i_word' = 3 /\ pbyte' = 4 * (blk + 3)
      /\ padding_bytes' = ByteValue(text[4 * (blk + 3)])
      /\ IF padding_bytes' > BLOCK_BYTES THEN Unpadded("refused") ELSE w2_pc' = "clearing"
      /\ UNCHANGED <<client, pad, problem, parsed, text, blk, w, b, left, out>>
  BY DEF StartUnpadding, FirstByte
<1>3. cbc' = cbc /\ Decrypted' = Decrypted /\ LastBlock' = LastBlock
      /\ PrintedBytes' = PrintedBytes /\ Cleared' = Cleared /\ DataBytes' = DataBytes
  BY <1>2 DEF cbc, Decrypted, PlainByte, DecryptedBytes, WordArray, LastBlock, PrintedBytes,
              ct_words, ct_bytes, DataBytes, ByteArray, Cleared
<1>4. /\ cbc /\ text = Decrypted /\ blk = LastBlock /\ Cleared = {} /\ pad \in 0..255
      /\ client \in {"main", "last"} /\ DataBytes = 48 /\ WordArray = 48 /\ problem \in {1, 2}
  BY <1>1, <1>2, TheProblems, DecryptedIsNotCleared DEF Clients, Buffer, Unpadding, cbc
<1>5. CASE client = "main"
  <2>1. blk = 44
    BY <1>4, <1>5 DEF LastBlock
  <2>2. text[188] = 0
    <3>1. 188 \in Addresses
      BY Week2Assumption DEF Addresses
    <3>2. ByteAddress(188) = 191
      BY DEF ByteAddress
    <3>3. DecryptedBytes = 48
      BY <1>1, <1>4, TheProblems
    <3> QED BY <1>4, <3>1, <3>2, <3>3 DEF Decrypted, PlainByte
  <2>3. padding_bytes' = 0
    BY <1>2, <2>1, <2>2 DEF ByteValue
  <2>4. w2_pc' = "clearing"
    BY <1>2, <2>3 DEF BLOCK_BYTES
  <2>5. Clients' /\ Buffer'
    BY <1>1, <1>2, <1>3, <1>4, <1>5, <2>4 DEF Clients, Buffer
  <2>6. Unpadding'
    BY <1>1, <1>2, <1>3, <1>4, <1>5, <2>1, <2>3, <2>4 DEF Unpadding
  <2> QED BY <2>5, <2>6, <1>1, <1>2, <1>3, <2>4 DEF Week2IInv, Printing, PlainByte,
             DecryptedBytes, WordArray, cbc, ct_words, ct_bytes, DataBytes, ByteArray
<1>6. CASE client = "last"
  <2>1. blk = 8
    BY <1>4, <1>6 DEF LastBlock
  <2>2. text[44] = 1048 /\ problem = 1
    <3>1. ByteAddress(47) = 44
      BY DEF ByteAddress
    <3>2. problem = 1
      BY <1>1, <1>6 DEF Clients
    <3>3. Decrypted[44] = PlainByte(47) /\ PlainByte(47) = 1048
      BY <1>1, <1>4, <3>1, <3>2, DecryptedBuffer, WhatIsDecrypted
    <3> QED BY <1>4, <3>2, <3>3
  <2>3. padding_bytes' = IF pad > 0 THEN pad ELSE 32
    BY <1>2, <1>4, <2>1, <2>2 DEF ByteValue, Letter
  <2>4. CASE pad \in 1..16
    <3>1. w2_pc' = "clearing" /\ padding_bytes' = pad
      BY <1>2, <2>3, <2>4 DEF BLOCK_BYTES
    <3>2. EvenPasses' \/ pad % 2 = 1
      <4>1. i_word' = 3 /\ InTheWord' = 0
        BY <1>2, <2>1 DEF InTheWord
      <4>2. pad % 2 = 1 \/ pad % 4 = 0 \/ pad % 4 = 2
        BY <2>4
      <4>3. \A a \in 0..47 : text[a] # 0
        <5>1. ASSUME NEW a \in 0..47 PROVE text[a] # 0
          <6>1. ByteAddress(a) \in 0..47 /\ ByteAddress(ByteAddress(a)) = a
            BY DEF ByteAddress
          <6>2. text[a] = PlainByte(ByteAddress(a))
            BY <1>1, <1>4, <6>1, DecryptedBuffer
          <6>3. PlainByte(ByteAddress(a)) = 1000 * problem + (ByteAddress(a) + 1)
            BY <1>1, <1>4, <6>1, WhatIsDecrypted
          <6> QED BY <2>2, <6>1, <6>2, <6>3
        <5> QED BY <5>1
      <4>4. Cardinality(Cleared') = 0 /\ Cleared' = {}
        BY <1>3, <1>4, FS_EmptySet
      <4>5. (pad' - padding_bytes') \div 2 = 0
        BY <1>2, <2>4, <3>1
      <4>6. CASE pad % 2 # 1
        <5>1. i_word' <= 3 /\ InTheWord' \in {0, 1}
          BY <4>1
        <5>2. pad' % 4 = 0 =>
                 padding_bytes' = pad' - 4 * (3 - i_word') - 2 * InTheWord'
          BY <1>2, <2>4, <3>1, <4>1
        <5>3. pad' % 4 = 2 => i_word' = 3 /\ InTheWord' = 0 /\ padding_bytes' = pad'
          BY <1>2, <3>1, <4>1
        <5>4. \A a \in 0..47 : text'[a] # 0
          BY <1>2, <4>3
        <5> QED BY <4>4, <4>5, <5>1, <5>2, <5>3, <5>4 DEF EvenPasses
      <4> QED BY <4>6
    <3>3. Clients' /\ Buffer'
      BY <1>1, <1>2, <1>3, <1>4, <1>6, <3>1 DEF Clients, Buffer
    <3>4. Unpadding'
      BY <1>1, <1>2, <1>3, <1>4, <1>6, <2>4, <3>1, <3>2 DEF Unpadding, BLOCK_BYTES
    <3> QED BY <3>3, <3>4, <1>1, <1>2, <1>3, <3>1 DEF Week2IInv, Printing, PlainByte,
               DecryptedBytes, WordArray, cbc, ct_words, ct_bytes, DataBytes, ByteArray
  <2>5. CASE pad \notin 1..16
    <3>1. w2_pc' = "refused" /\ padding_bytes' \in 0..255 /\ (pad = 0 \/ pad > 16)
      <4>1. w2_pc' = "refused" /\ padding_bytes' \in 0..255
        BY <1>2, <1>4, <1>6, <2>3, <2>5 DEF BLOCK_BYTES, Unpadded
      <4>2. pad \in 0..255
        BY <1>2, <1>4, <1>6, <2>3
      <4> QED BY ONLY <2>5, <4>1, <4>2
    <3>3. Clients' /\ Buffer'
      BY <1>1, <1>2, <1>3, <1>4, <1>6, <3>1 DEF Clients, Buffer
    <3>4. Unpadding'
      <4>1. pbyte' \in Int /\ i_word' \in Int /\ pad' = pad /\ client' = client
        BY ONLY <1>2, <2>1
      <4> QED BY ONLY <1>6, <3>1, <4>1 DEF Unpadding, BLOCK_BYTES
    <3> QED BY <3>3, <3>4, <1>1, <1>2, <1>3, <3>1 DEF Week2IInv, Printing, PlainByte,
               DecryptedBytes, WordArray, cbc, ct_words, ct_bytes, DataBytes, ByteArray
  <2> QED BY <2>4, <2>5
<1> QED BY <1>4, <1>5, <1>6

\* One pass of an even padding: n bytes of padding, x the count, y the word and z
\* the byte in it.
Passes(n, x, y, z) ==
    /\ y <= 3 /\ z \in {0, 1}
    /\ n % 4 = 0 => x = n - 4 * (3 - y) - 2 * z
    /\ n % 4 = 2 => \/ y = 3 /\ z = 0 /\ x = n
                    \/ y < 3 /\ x = n - 4 * (3 - y) - 2 * z + 2

LEMMA OnePass ==
    ASSUME NEW n \in 1..16, n % 2 = 0, NEW x \in 1..255, NEW y \in Int, NEW z \in Int,
           Passes(n, x, y, z)
    PROVE  /\ x - 2 \in 0..14 /\ x <= n /\ (n - x) % 2 = 0 /\ y \in 0..3
           /\ 4 * (8 + y) + 3 - z >= 48 - n
           /\ (x - 2) % 4 = 0 => Passes(n, x - 2, y - 1, 0)
           /\ (x - 2) % 4 # 0 => z = 0 /\ Passes(n, x - 2, y, 1)
<1>1. z = 0 \/ z = 1
  BY DEF Passes
<1>2. CASE n % 4 = 0
  <2>1. y <= 3 /\ x = n - 4 * (3 - y) - 2 * z
    BY <1>2 DEF Passes
  <2>2. PICK h \in 1..4 : n = 4 * h
    BY <1>2
  <2>3. x - 2 = 4 * (h - 4 + y) + 2 - 2 * z
    BY <1>1, <2>1, <2>2
  <2>4. y \in 0..3
    BY <1>1, <2>1, <2>2
  <2>5. x - 2 \in 0..14 /\ x <= n /\ (n - x) % 2 = 0 /\ 4 * (8 + y) + 3 - z >= 48 - n
    BY <1>1, <2>1, <2>2, <2>4
  <2>6. (x - 2) % 4 = 0 <=> z = 1
    BY <1>1, <2>2, <2>3, <2>4
  <2>7. CASE z = 1
    BY <1>2, <2>1, <2>4, <2>5, <2>6, <2>7 DEF Passes
  <2>8. CASE z = 0
    BY <1>2, <2>1, <2>4, <2>5, <2>6, <2>8 DEF Passes
  <2> QED BY <1>1, <2>7, <2>8
<1>3. CASE n % 4 = 2
  <2>1. y <= 3
    BY DEF Passes
  <2>2. PICK h \in 0..3 : n = 4 * h + 2
    BY <1>3
  <2>3. CASE y = 3 /\ z = 0 /\ x = n
    BY <1>3, <2>2, <2>3 DEF Passes
  <2>4. CASE y < 3 /\ x = n - 4 * (3 - y) - 2 * z + 2
    <3>1. x - 2 = 4 * (h - 3 + y) + 2 - 2 * z
      BY <1>1, <2>2, <2>4
    <3>2. y \in 0..2
      BY <1>1, <2>2, <2>4
    <3>3. x - 2 \in 0..14 /\ x <= n /\ (n - x) % 2 = 0 /\ 4 * (8 + y) + 3 - z >= 48 - n
      BY <1>1, <2>2, <2>4, <3>2
    <3>4. (x - 2) % 4 = 0 <=> z = 1
      BY <1>1, <2>2, <3>1, <3>2
    <3>5. CASE z = 1
      BY <1>3, <2>4, <3>2, <3>3, <3>4, <3>5 DEF Passes
    <3>6. CASE z = 0
      BY <1>3, <2>4, <3>2, <3>3, <3>4, <3>6 DEF Passes
    <3> QED BY <1>1, <3>5, <3>6
  <2> QED BY <1>3, <2>3, <2>4 DEF Passes
<1> QED BY <1>2, <1>3

LEMMA Week2ClearPaddingByte == ASSUME Week2IInv, ClearPaddingByte PROVE Week2IInv'
<1>1. Clients /\ Buffer /\ Unpadding /\ Printing /\ problem \in 1..4
  BY DEF Week2IInv, Clients
<1>2. /\ w2_pc = "clearing" /\ padding_bytes > 0
      /\ UNCHANGED <<client, pad, problem, parsed, blk, w, b, left, out>>
  BY DEF ClearPaddingByte
<1>3. client = "last" /\ pad \in 1..16 /\ problem = 1 /\ cbc
  BY <1>1, <1>2 DEF Clients, Unpadding, BLOCK_BYTES
<1>4. DataBytes = 48 /\ DataBytes' = 48 /\ cbc'
  BY <1>2, <1>3 DEF DataBytes, cbc
<1>5. /\ padding_bytes \in 1..255 /\ i_word \in Int /\ pbyte \in Int /\ InTheWord \in Int
      /\ pad % 2 = 0 => EvenPasses
      /\ pad % 2 = 1 => padding_bytes % 2 = 1
  BY <1>1, <1>2, <1>3 DEF Unpadding, InTheWord
<1>6. Printing' \/ w2_pc' \notin {"clearing", "overrun"}
  BY <1>1, <1>2 DEF Printing, PrintedBytes, PlainByte, DecryptedBytes, WordArray, cbc, ct_words,
     ct_bytes, DataBytes, ByteArray
<1>7. ASSUME pad % 2 = 0
      PROVE  /\ Passes(pad, padding_bytes, i_word, InTheWord)
             /\ pbyte = 4 * (8 + i_word) + InTheWord /\ pbyte \in 32..45
             /\ pbyte \in Addresses
  <2>1. Passes(pad, padding_bytes, i_word, InTheWord)
    BY <1>5, <1>7 DEF EvenPasses, Passes
  <2>2. i_word \in 0..3 /\ InTheWord \in {0, 1}
    BY <1>3, <1>5, <1>7, <2>1, OnePass DEF Passes
  <2>3. pbyte = 4 * (8 + i_word) + InTheWord
    BY <1>5 DEF InTheWord
  <2>4. pbyte \in 32..45
    BY ONLY <2>2, <2>3
  <2> QED BY <2>1, <2>3, <2>4, Week2Assumption DEF Addresses
<1>8. CASE pbyte \notin Addresses
  <2>1. w2_pc' = "overrun" /\ UNCHANGED <<text, padding_bytes, i_word, pbyte>>
    BY <1>8 DEF ClearPaddingByte
  <2>2. pad % 2 = 1 /\ pad < 16
    BY <1>3, <1>7, <1>8
  <2>3. Clients' /\ Buffer'
    BY <1>1, <1>2, <1>3, <1>4, <2>1 DEF Clients, Buffer
  <2>4. Unpadding'
    BY <1>1, <1>2, <1>3, <2>1, <2>2 DEF Unpadding, BLOCK_BYTES
  <2> QED BY <1>6, <2>1, <2>3, <2>4 DEF Week2IInv
<1>9. CASE pbyte \in Addresses
  <2>1. /\ text' = [text EXCEPT ![pbyte] = 0]
        /\ padding_bytes' = (padding_bytes + 254) % 256
        /\ \/ /\ padding_bytes' % 4 = 0
              /\ i_word' = i_word - 1 /\ pbyte' = 4 * (blk + i_word - 1)
           \/ /\ padding_bytes' % 4 # 0
              /\ i_word' = i_word /\ pbyte' = pbyte + 1
        /\ w2_pc' = w2_pc
    BY <1>9 DEF ClearPaddingByte, Decremented
  <2>2. blk = 8
    BY <1>1, <1>2, <1>3 DEF Unpadding, LastBlock, WordArray
  <2>3. /\ padding_bytes' \in 0..255 /\ i_word' \in Int /\ pbyte' \in Int
        /\ padding_bytes % 2 = 1 => padding_bytes' % 2 = 1
        /\ padding_bytes >= 2 => padding_bytes' = padding_bytes - 2
    <3>1. \A n \in 1..255 : /\ (n + 254) % 256 \in 0..255
                            /\ n % 2 = 1 => ((n + 254) % 256) % 2 = 1
                            /\ n >= 2 => (n + 254) % 256 = n - 2
      OBVIOUS
    <3>2. i_word' \in Int /\ pbyte' \in Int
      BY <1>5, <2>1, <2>2
    <3>3. padding_bytes \in 1..255 /\ padding_bytes' = (padding_bytes + 254) % 256
      BY <1>5, <2>1
    <3> QED BY ONLY <3>1, <3>2, <3>3
  <2>4. Clients'
    BY <1>1, <1>2, <1>3, <1>4, <2>1 DEF Clients
  <2>5. Buffer'
    <3>1. text' \in [Addresses -> {0, STREAM} \cup ((1000 * problem + 1) .. (1000 * problem + 60))]
      <4> DEFINE S == {0, STREAM} \cup ((1000 * problem + 1) .. (1000 * problem + 60))
      <4>1. text \in [Addresses -> S]
        BY <1>1 DEF Buffer
      <4>2. 0 \in S
        OBVIOUS
      <4> HIDE DEF S
      <4>3. text' \in [Addresses -> S]
        BY <2>1, <4>1, <4>2
      <4> QED BY <4>3 DEF S
    <3> QED BY <1>2, <1>3, <2>1, <3>1 DEF Buffer
  <2>6. ASSUME pad % 2 = 0 PROVE EvenPasses'
    <3>1. /\ Passes(pad, padding_bytes, i_word, InTheWord) /\ pbyte \in 32..45
          /\ pbyte = 4 * (8 + i_word) + InTheWord
      BY <1>7, <2>6
    <3>2. /\ padding_bytes - 2 \in 0..14 /\ padding_bytes <= pad
          /\ (pad - padding_bytes) % 2 = 0
          /\ 4 * (8 + i_word) + 3 - InTheWord >= 48 - pad
          /\ (padding_bytes - 2) % 4 = 0 => Passes(pad, padding_bytes - 2, i_word - 1, 0)
          /\ (padding_bytes - 2) % 4 # 0 => InTheWord = 0 /\ Passes(pad, padding_bytes - 2, i_word, 1)
      BY <1>3, <1>5, <2>6, <3>1, OnePass
    <3>3. padding_bytes' = padding_bytes - 2
      BY <1>5, <2>3, <3>2
    <3>4. InTheWord \in {0, 1} /\ ByteAddress(pbyte) = 4 * (8 + i_word) + 3 - InTheWord
      <4>1. InTheWord \in {0, 1}
        BY <3>1 DEF Passes
      <4> QED BY <1>5, <3>1, <4>1 DEF ByteAddress
    <3>5. /\ InTheWord' = IF padding_bytes' % 4 = 0 THEN 0 ELSE 1
          /\ Passes(pad, padding_bytes', i_word', InTheWord')
      <4>1. CASE padding_bytes' % 4 = 0
        <5>1. InTheWord' = 0
          BY <1>5, <2>1, <2>2, <4>1 DEF InTheWord
        <5> QED BY <2>1, <3>2, <3>3, <4>1, <5>1
      <4>2. CASE padding_bytes' % 4 # 0
        <5>1. InTheWord' = InTheWord + 1
          BY <1>5, <2>1, <4>2 DEF InTheWord
        <5> QED BY <2>1, <3>2, <3>3, <4>2, <5>1
      <4> QED BY <4>1, <4>2
    <3>6. ASSUME NEW a \in 0..47, text'[a] = 0
          PROVE  a >= 4 * (9 + i_word') \/ a \in (4 * (8 + i_word')) .. (pbyte' - 1)
      <4>1. a = pbyte \/ text[a] = 0
        BY <1>1, <2>1, <3>6 DEF Buffer
      <4>2. a = pbyte \/ a >= 4 * (9 + i_word) \/ a \in (4 * (8 + i_word)) .. (pbyte - 1)
        BY <1>5, <2>6, <4>1 DEF EvenPasses
      <4> QED BY <1>5, <2>1, <2>2, <3>1, <3>4, <4>2
    <3>7. text[pbyte] # 0
      <4>1. pbyte \in 0..47
        BY <3>1
      <4>2. text[pbyte] = 0 => pbyte >= 4 * (9 + i_word) \/ pbyte \in (4 * (8 + i_word)) .. (pbyte - 1)
        BY <1>5, <2>6, <4>1 DEF EvenPasses
      <4>3. ~(pbyte >= 4 * (9 + i_word)) /\ pbyte \notin (4 * (8 + i_word)) .. (pbyte - 1)
        BY <1>5, <3>1, <3>4
      <4> QED BY <4>2, <4>3
    <3>8. Cleared' = Cleared \cup {ByteAddress(pbyte)} /\ ByteAddress(pbyte) \notin Cleared
      <4>1. ByteAddress(pbyte) \in 0..47 /\ ByteAddress(ByteAddress(pbyte)) = pbyte
        <5>1. pbyte \in Nat /\ pbyte \in 0..47
          BY <3>1
        <5>2. \A i \in 0..47 : ByteAddress(i) \in 0..47
          BY DEF ByteAddress
        <5> QED BY <5>1, <5>2, BytesOfAWord
      <4>2. ASSUME NEW i \in 0..47
            PROVE  text'[ByteAddress(i)] = 0 <=> text[ByteAddress(i)] = 0 \/ i = ByteAddress(pbyte)
        <5>1. ByteAddress(i) \in Addresses /\ ByteAddress(ByteAddress(i)) = i
          <6>1. i \in 0..63 /\ i \in Nat
            OBVIOUS
          <6>2. ByteAddress(i) \in Addresses
            BY <6>1, AddressesOfBytes
          <6>3. ByteAddress(ByteAddress(i)) = i
            BY <6>1, BytesOfAWord
          <6> QED BY <6>2, <6>3
        <5>2. ByteAddress(i) = pbyte <=> i = ByteAddress(pbyte)
          BY <4>1, <5>1
        <5> QED BY <1>1, <1>9, <2>1, <5>1, <5>2 DEF Buffer
      <4>3. Cleared = {i \in 0..47 : text[ByteAddress(i)] = 0}
            /\ Cleared' = {i \in 0..47 : text'[ByteAddress(i)] = 0}
        BY <1>4 DEF Cleared, ByteAddress
      <4>4. text[ByteAddress(ByteAddress(pbyte))] # 0
        BY <3>7, <4>1
      <4> HIDE DEF ByteAddress
      <4> QED BY <4>1, <4>2, <4>3, <4>4
    <3>9. Cardinality(Cleared') = (pad - padding_bytes') \div 2
      <4>1. IsFiniteSet(Cleared)
        <5>1. Cleared \subseteq 0..47
          BY <1>4 DEF Cleared
        <5>2. IsFiniteSet(0..47)
          <6>1. 0 \in Int /\ 47 \in Int
            OBVIOUS
          <6> QED BY ONLY <6>1, FS_Interval, Zenon
        <5> QED BY <5>1, <5>2, FS_Subset
      <4>2. Cardinality(Cleared') = Cardinality(Cleared) + 1
        BY <3>8, <4>1, FS_AddElement
      <4>3. Cardinality(Cleared) = (pad - padding_bytes) \div 2
        BY <1>5, <2>6 DEF EvenPasses
      <4> QED BY <1>3, <1>5, <3>2, <3>3, <4>2, <4>3
    <3>10. \A i \in Cleared' : i >= 48 - pad
      <4>1. \A i \in Cleared : i >= 48 - pad
        BY <1>4, <1>5, <2>6 DEF EvenPasses
      <4> QED BY <3>2, <3>4, <3>8, <4>1
    <3> QED BY <1>2, <1>4, <3>5, <3>6, <3>9, <3>10 DEF EvenPasses, Passes
  <2>7. Unpadding'
    BY <1>1, <1>2, <1>3, <1>5, <2>1, <2>2, <2>3, <2>6
       DEF Unpadding, BLOCK_BYTES, LastBlock, WordArray
  <2> QED BY <1>2, <1>6, <2>1, <2>4, <2>5, <2>7 DEF Week2IInv
<1> QED BY <1>8, <1>9

LEMMA Week2EndUnpadding == ASSUME Week2IInv, EndUnpadding PROVE Week2IInv'
<1>1. Clients /\ Buffer /\ Unpadding /\ Printing
  BY DEF Week2IInv
<1>2. /\ w2_pc = "clearing" /\ padding_bytes = 0 /\ Unpadded("returned")
      /\ UNCHANGED <<client, pad, problem, parsed, text, blk, i_word, pbyte, padding_bytes,
                     w, b, left, out>>
  BY DEF EndUnpadding
<1>3. /\ client = "main" => w2_pc' = "print"
      /\ client = "last" => w2_pc' = "returned"
      /\ client \in {"main", "last"}
  BY <1>1, <1>2 DEF Unpadded, Clients
<1>4. cbc' = cbc /\ Decrypted' = Decrypted /\ PrintedBytes' = PrintedBytes /\ EvenPasses' = EvenPasses
  BY <1>2 DEF cbc, Decrypted, PlainByte, DecryptedBytes, WordArray, PrintedBytes, EvenPasses,
              ct_words, ct_bytes, DataBytes, ByteArray, Cleared, InTheWord
<1>5. Clients'
  BY <1>1, <1>2, <1>3, <1>4 DEF Clients
<1>6. Buffer'
  BY <1>1, <1>2, <1>3, <1>4 DEF Buffer
<1>7. Unpadding'
  BY <1>1, <1>2, <1>3, <1>4 DEF Unpadding
<1>8. Printing'
  BY <1>1, <1>2, <1>3, <1>4 DEF Printing, PlainByte, DecryptedBytes, WordArray, cbc, ct_words,
     ct_bytes, DataBytes, ByteArray
<1> QED BY <1>5, <1>6, <1>7, <1>8 DEF Week2IInv

LEMMA Week2PrintByte == ASSUME Week2IInv, PrintByte PROVE Week2IInv'
<1>1. Clients /\ Buffer /\ Unpadding /\ Printing /\ problem \in 1..4
  BY DEF Week2IInv, Clients
<1>2. /\ w2_pc = "print" /\ left > 0
      /\ out' = Append(out, text[b])
      /\ left' = left - 1
      /\ \/ b = w /\ w' = w + 4 /\ b' = w' + 3
         \/ b # w /\ w' = w /\ b' = b - 1
      /\ UNCHANGED <<client, pad, w2_pc, problem, parsed, text, blk, i_word, pbyte, padding_bytes>>
  BY DEF PrintByte, NextWord
<1>3. client = "main" /\ text = Decrypted
  BY <1>1, <1>2 DEF Clients, Buffer
<1>4. /\ cbc' = cbc /\ Decrypted' = Decrypted /\ PrintedBytes' = PrintedBytes
      /\ \A i : PlainByte(i)' = PlainByte(i)
  BY <1>2 DEF cbc, Decrypted, PlainByte, DecryptedBytes, WordArray, PrintedBytes,
              ct_words, ct_bytes, DataBytes, ByteArray
<1> DEFINE n == Len(out)
<1>5. /\ n \in Nat /\ n < PrintedBytes /\ PrintedBytes \in 0..60
      /\ left = PrintedBytes - n /\ w = 4 * (n \div 4) /\ b = ByteAddress(n)
      /\ out \in Seq(Int)
  BY <1>1, <1>2, TheProblems DEF Printing
<1>6. text[b] = PlainByte(n)
  <2> HIDE DEF n
  <2>1. n \in 0..63
    BY ONLY <1>5
  <2>2. problem \in 1..4
    BY <1>1, <1>3
  <2>3. text = Decrypted /\ b = ByteAddress(n)
    BY <1>1, <1>3, <1>5
  <2> QED BY ONLY <2>1, <2>2, <2>3, DecryptedBuffer
<1>7. w' = 4 * ((n + 1) \div 4) /\ b' = ByteAddress(n + 1)
  <2> HIDE DEF n
  <2>1. b = 4 * (n \div 4) + 3 - (n % 4) /\ b = w <=> n % 4 = 3
    BY <1>5 DEF ByteAddress
  <2>2. \A x \in Nat :
           /\ x % 4 = 3 => (x + 1) \div 4 = (x \div 4) + 1 /\ (x + 1) % 4 = 0
           /\ x % 4 # 3 => (x + 1) \div 4 = x \div 4 /\ (x + 1) % 4 = (x % 4) + 1
    OBVIOUS
  <2> DEFINE h == n \div 4
             r == n % 4
             h1 == (n + 1) \div 4
             r1 == (n + 1) % 4
  <2>3. h \in Nat /\ r \in 0..3 /\ w = 4 * h /\ b = 4 * h + 3 - r
    <3>1. n = 4 * (n \div 4) + (n % 4)
      BY <1>5
    <3>2. ByteAddress(n) = 4 * h + 3 - r
      BY DEF ByteAddress
    <3>3. h \in Nat /\ r \in 0..3
      BY <1>5
    <3> QED BY ONLY <1>5, <3>2, <3>3
  <2>4. /\ r = 3 => h1 = h + 1 /\ r1 = 0
        /\ r # 3 => h1 = h /\ r1 = r + 1
    BY <1>5, <2>2
  <2>5. ByteAddress(n + 1) = 4 * h1 + 3 - r1
    BY DEF ByteAddress
  <2> HIDE DEF h, r, h1, r1
  <2>6. w' = 4 * h1 /\ b' = 4 * h1 + 3 - r1
    BY <1>2, <2>3, <2>4
  <2> QED BY <2>5, <2>6 DEF h1
<1>8. /\ out' \in Seq(Int) /\ Len(out') = n + 1
      /\ \A i \in 1..Len(out') : out'[i] = PlainByte(i - 1)
  <2>1. text[b] \in Int
    BY <1>1, <1>5, <1>6, WhatIsDecrypted
  <2>2. out' \in Seq(Int) /\ Len(out') = n + 1
    BY <1>2, <1>5, <2>1
  <2>3. ASSUME NEW i \in 1..Len(out')
        PROVE  out'[i] = PlainByte(i - 1)
    <3>1. CASE i = n + 1
      <4>1. out'[i] = text[b]
        <5>1. out' = Append(out, text[b]) /\ out \in Seq(Int)
          BY <1>2, <1>5
        <5> QED BY ONLY <2>1, <3>1, <5>1 DEF n
      <4>2. i - 1 = n
        BY ONLY <1>5, <3>1
      <4> QED BY <1>6, <4>1, <4>2
    <3>2. CASE i # n + 1
      <4>1. i \in 1..n /\ out'[i] = out[i]
        BY <1>2, <1>5, <2>1, <2>2, <3>2
      <4> QED BY <1>1, <4>1 DEF Printing
    <3> QED BY <3>1, <3>2
  <2> QED BY <2>2, <2>3
<1>9. Clients' /\ Buffer' /\ Unpadding'
  BY <1>1, <1>2, <1>3, <1>4 DEF Clients, Buffer, Unpadding
<1>10. Printing'
  <2>1. left' = PrintedBytes - (n + 1) /\ n + 1 \in 0..PrintedBytes
    BY <1>2, <1>5
  <2>2. ByteAddress(Len(out))' = ByteAddress(Len(out'))
    BY DEF ByteAddress
  <2> HIDE DEF n
  <2> QED BY <1>2, <1>4, <1>7, <1>8, <2>1, <2>2 DEF Printing
<1> QED BY <1>9, <1>10 DEF Week2IInv

LEMMA Week2EndPrinting == ASSUME Week2IInv, EndPrinting PROVE Week2IInv'
<1>1. Clients /\ Buffer /\ Unpadding /\ Printing
  BY DEF Week2IInv
<1>2. /\ w2_pc = "print" /\ w2_pc' = "wipe"
      /\ UNCHANGED <<client, pad, problem, parsed, text, blk, i_word, pbyte, padding_bytes,
                     w, b, left, out>>
  BY DEF EndPrinting
<1>3. Decrypted' = Decrypted /\ \A i : PlainByte(i)' = PlainByte(i)
  BY <1>2 DEF cbc, Decrypted, PlainByte, DecryptedBytes, WordArray,
              ct_words, ct_bytes, DataBytes, ByteArray
<1>4. Clients' /\ Buffer' /\ Unpadding' /\ Printing'
  BY <1>1, <1>2, <1>3 DEF Clients, Buffer, Unpadding, Printing
<1> QED BY <1>4 DEF Week2IInv

LEMMA Week2Wipe == ASSUME Week2IInv, Wipe PROVE Week2IInv'
<1>1. Clients /\ Buffer /\ Unpadding /\ Printing /\ problem \in 1..4
  BY DEF Week2IInv, Clients
<1>2. /\ w2_pc = "wipe" /\ text' = Nothing
      /\ UNCHANGED <<client, parsed, blk, i_word, pbyte, padding_bytes, w, b, left>>
      /\ IF problem = 4 THEN w2_pc' = "end" /\ UNCHANGED <<problem, pad, out>>
         ELSE /\ w2_pc' = "parse" /\ problem' = problem + 1 /\ out' = <<>>
              /\ pad' = IF problem = 1 THEN 16 ELSE 0
  BY DEF Wipe, Wiped
<1>3. client = "main"
  BY <1>1, <1>2 DEF Clients
<1>4. /\ w2_pc' \in {"end", "parse"} /\ problem' \in 1..4 /\ pad' \in 0..255
      /\ w2_pc' = "parse" => out' = <<>>
  <2>1. CASE problem = 4
    BY <1>1, <1>2, <2>1 DEF Clients
  <2>2. CASE problem # 4
    <3>1. w2_pc' = "parse" /\ out' = <<>> /\ problem' = problem + 1 /\ pad' \in {16, 0}
      BY <1>2, <2>2
    <3>2. problem' \in 1..4
      BY <1>1, <2>2, <3>1
    <3>3. pad' \in 0..255
      BY <3>1
    <3> QED BY <3>1, <3>2, <3>3
  <2> QED BY <2>1, <2>2
<1>5. Clients'
  BY <1>2, <1>3, <1>4 DEF Clients
<1>6. Buffer'
  BY <1>2, <1>3, <1>4 DEF Buffer, Nothing, Addresses
<1>7. Unpadding'
  BY <1>1, <1>2, <1>3, <1>4 DEF Unpadding
<1>8. Printing'
  <2>1. CASE problem = 4
    <3>1. UNCHANGED <<problem, out>> /\ w2_pc' = "end"
      BY <1>2, <2>1
    <3>2. \A i : PlainByte(i)' = PlainByte(i)
      BY <3>1 DEF PlainByte, DecryptedBytes, WordArray, cbc, ct_words, ct_bytes, DataBytes, ByteArray
    <3> QED BY <1>1, <3>1, <3>2 DEF Printing
  <2>2. CASE problem # 4
    <3>1. out' = <<>> /\ w2_pc' = "parse"
      BY <1>2, <2>2
    <3>2. out' \in Seq(Int) /\ \A i \in 1..Len(out') : FALSE
      BY <3>1
    <3> QED BY <3>1, <3>2 DEF Printing
  <2> QED BY <2>1, <2>2
<1> QED BY <1>5, <1>6, <1>7, <1>8 DEF Week2IInv

LEMMA Week2Stutters == ASSUME Week2IInv, UNCHANGED week2_vars PROVE Week2IInv'
<1>1. /\ cbc' = cbc /\ Decrypted' = Decrypted /\ LastBlock' = LastBlock /\ WordArray' = WordArray
      /\ PrintedBytes' = PrintedBytes /\ EvenPasses' = EvenPasses
      /\ \A i : PlainByte(i)' = PlainByte(i) /\ ct_words(i)' = ct_words(i)
  BY DEF week2_vars, cbc, Decrypted, PlainByte, DecryptedBytes, WordArray, PrintedBytes,
         EvenPasses, ct_words, ct_bytes, DataBytes, ByteArray, Cleared, InTheWord, LastBlock
<1>2. Clients' /\ Buffer' /\ Unpadding' /\ Printing'
  BY <1>1 DEF Week2IInv, week2_vars, Clients, Buffer, Unpadding, Printing, ByteAddress
<1> QED BY <1>2 DEF Week2IInv

LEMMA Week2Steps == Week2IInv /\ [Week2Next]_week2_vars => Week2IInv'
BY Week2Parse, Week2Decrypt, Week2StartUnpadding, Week2ClearPaddingByte, Week2EndUnpadding,
   Week2PrintByte, Week2EndPrinting, Week2Wipe, Week2Stutters DEF Week2Next

LEMMA Week2Invariant == Week2Spec => []Week2IInv
BY Week2Init_, Week2Steps, PTL DEF Week2Spec

LEMMA Week2InvImpliesTypeOK == ASSUME Week2IInv PROVE Week2TypeOK
<1>1. Clients /\ Buffer /\ Unpadding /\ Printing /\ problem \in 1..4
  BY DEF Week2IInv, Clients
<1>2. \A a \in Addresses : text[a] \in {0, STREAM} \cup ((1000 * problem + 1) .. (1000 * problem + 60))
  BY <1>1 DEF Buffer
<1>3. ASSUME w2_pc = "print"
      PROVE  b \in w .. (w + 3) /\ (left > 0 => b \in Addresses)
  <2> DEFINE n == Len(out)
  <2>1. /\ n \in 0..PrintedBytes /\ PrintedBytes \in 0..60 /\ left = PrintedBytes - n
        /\ w = 4 * (n \div 4) /\ b = ByteAddress(n)
    BY <1>1, <1>3, TheProblems DEF Printing
  <2> HIDE DEF n
  <2>2. b \in w .. (w + 3)
    BY <2>1 DEF ByteAddress
  <2>3. n \in 0..63
    BY <2>1
  <2> QED BY <2>1, <2>2, <2>3, AddressesOfBytes
<1> QED BY <1>1, <1>2, <1>3 DEF Week2TypeOK, Unpadding

LEMMA Week2InvImpliesText == ASSUME Week2IInv PROVE PrintedTextIsThePlaintext
<1>1. Printing /\ problem \in 1..4
  BY DEF Week2IInv, Clients
<1>2. DataBytes \in Nat
  BY <1>1, TheProblems
<1>3. ASSUME NEW i \in 1..Len(out)
      PROVE  IF i <= DataBytes THEN out[i] = 1000 * problem + i ELSE out[i] \in {0, STREAM}
  <2>1. out[i] = PlainByte(i - 1) /\ i \in Nat /\ i - 1 \in Nat /\ (i - 1) + 1 = i
    BY <1>1, <1>3 DEF Printing
  <2>2. /\ i - 1 < DataBytes => PlainByte(i - 1) = 1000 * problem + ((i - 1) + 1)
        /\ i - 1 >= DataBytes => PlainByte(i - 1) \in {0, STREAM}
    BY <1>1, <2>1, WhatIsDecrypted
  <2> QED BY <1>2, <2>1, <2>2
<1> QED BY <1>3 DEF PrintedTextIsThePlaintext

LEMMA Week2InvImpliesPadding == ASSUME Week2IInv PROVE PaddingOutcome
<1>1. Clients /\ Buffer /\ Unpadding /\ problem \in 1..4
  BY DEF Week2IInv, Clients
<1>2. w2_pc = "overrun" => client = "last" /\ pad % 2 = 1 /\ pad < BLOCK_BYTES
  BY <1>1 DEF Unpadding, Clients
<1>3. ASSUME w2_pc = "returned"
      PROVE  pad % 2 = 0 /\ Cardinality(Cleared) = pad \div 2
  <2>1. pad % 2 = 0 /\ padding_bytes = 0 /\ EvenPasses /\ pad \in 0..255
    BY <1>1, <1>3 DEF Unpadding, Clients
  <2> QED BY <2>1 DEF EvenPasses
<1>4. ASSUME text = Decrypted
      PROVE  Cleared = {}
  BY <1>1, <1>4, DecryptedIsNotCleared
<1>5. w2_pc = "refused" => (pad = 0 \/ pad > BLOCK_BYTES) /\ Cleared = {}
  BY <1>1, <1>4 DEF Unpadding, Buffer
<1>6. ASSUME pad % 2 = 0, w2_pc \in {"clearing", "returned"}
      PROVE  \A i \in Cleared : i >= DataBytes - pad
  <2>1. CASE client = "last"
    BY <1>1, <1>6, <2>1 DEF Unpadding, EvenPasses
  <2>2. CASE client = "main"
    BY <1>1, <1>4, <1>6, <2>2 DEF Buffer, Clients
  <2> QED BY <1>1, <2>1, <2>2 DEF Clients
<1>7. client = "main" /\ w2_pc \in {"print", "wipe"} => Cleared = {}
  BY <1>1, <1>4 DEF Buffer
<1> QED BY <1>2, <1>3, <1>5, <1>6, <1>7 DEF PaddingOutcome

\* The bytes in the buffer of week 2 are those of the problem, and no pointer
\* leaves it but that of remove_pkcs7_padding (week2.c:17-83).
THEOREM Week2TypeCorrect == Week2Spec => []Week2TypeOK
BY Week2Invariant, Week2InvImpliesTypeOK, PTL

\* Each problem prints its plaintext from the first byte to the last, and nothing
\* of another problem after it (week2.c:61-83, 191, 206, 220, 234).
THEOREM Week2PrintsThePlaintext == Week2Spec => []PrintedTextIsThePlaintext
BY Week2Invariant, Week2InvImpliesText, PTL

\* For any padding in 0..255 and any buffer that holds the last block, an even
\* padding is half cleared, an odd one runs the loop out of the buffer, and one
\* above 16 is refused (week2.c:17-53, 189).
THEOREM Week2PaddingOutcome == Week2Spec => []PaddingOutcome
BY Week2Invariant, Week2InvImpliesPadding, PTL

\* Both machines keep their types in the specification the runs check.
THEOREM JointTypeCorrect == JointSpec => []ModesAndWeek2TypeOK
<1>1. JointInit => IInv /\ Week2IInv
  BY InvInit, Week2Init_ DEF JointInit
<1>2. IInv /\ Week2IInv /\ [JointNext]_<<modes_vars, week2_vars>> => (IInv /\ Week2IInv)'
  <2> SUFFICES ASSUME IInv, Week2IInv, [JointNext]_<<modes_vars, week2_vars>>
               PROVE  (IInv /\ Week2IInv)'
    OBVIOUS
  <2>1. [ModesNext]_modes_vars /\ [Week2Next]_week2_vars
    BY DEF JointNext
  <2> QED BY <2>1, InvNext, Week2Steps
<1>3. IInv /\ Week2IInv => ModesAndWeek2TypeOK
  BY InvImpliesTypeOK, Week2InvImpliesTypeOK DEF ModesAndWeek2TypeOK
<1> QED BY <1>1, <1>2, <1>3, PTL DEF JointSpec

----------------------------------------------------------------------------
(* Every step leads towards the end.                                       *)

Below == LexPairOrdering(OpToRel(<, Nat), OpToRel(<, Nat), Nat, Nat)

LEMMA BelowIs ==
    ASSUME NEW x \in Nat, NEW y \in Nat, NEW u \in Nat, NEW v \in Nat,
           x < u \/ (x = u /\ y < v)
    PROVE  <<<<x, y>>, <<u, v>>>> \in Below
BY DEF Below, LexPairOrdering, OpToRel

LEMMA BelowIsWellFounded == IsWellFoundedOn(Below, Nat \X Nat)
BY NatLessThanWellFounded, WFLexPairOrdering DEF Below

ModesStage ==
    IF modes_pc = "call" THEN 2 ELSE IF modes_pc = "done" THEN 0 ELSE 1
ModesLeft == IF modes_pc \in {"cbc", "ctr"} THEN CeilBlocks - i_blk ELSE 0
ModesNearer == <<<<ModesStage', ModesLeft'>>, <<ModesStage, ModesLeft>>>> \in Below

LEMMA ModesLeftNat == ASSUME IInv PROVE ModesStage \in Nat /\ ModesLeft \in Nat
<1>1. ModesStage \in Nat
  BY DEF ModesStage
<1>2. CASE modes_pc \in {"cbc", "ctr"}
  <2>1. i_blk \in 0..CeilBlocks /\ CeilBlocks \in Nat
    <3>1. i_blk \in 0..CeilBlocks /\ sz \in Nat
      BY InvImpliesTypeOK DEF IInv, ControlInv, ModesTypeOK
    <3> QED BY <3>1 DEF CeilBlocks, BLK_SZ
  <2> QED BY <1>1, <1>2, <2>1 DEF ModesLeft
<1>3. CASE modes_pc \notin {"cbc", "ctr"}
  BY <1>1, <1>3 DEF ModesLeft
<1> QED BY <1>2, <1>3

LEMMA ModesDescend ==
    ASSUME IInv, ModesNext
    PROVE  ModesStage' < ModesStage \/ (ModesStage' = ModesStage /\ ModesLeft' < ModesLeft)
<1>1. CASE aes_cbc_decrypt \/ aes_ctr_decrypt
  <2>1. modes_pc = "call" /\ modes_pc' \in {"cbc", "ctr", "done"}
    BY <1>1 DEF aes_cbc_decrypt, aes_ctr_decrypt, Begin
  <2> QED BY <2>1 DEF ModesStage
<1>2. CASE CbcEnd \/ CtrEnd
  <2>1. modes_pc \in {"cbc", "ctr"} /\ modes_pc' = "done"
    BY <1>2 DEF CbcEnd, CtrEnd
  <2> QED BY <2>1 DEF ModesStage
<1>3. CASE CbcBlock \/ CtrBlock
  <2>1. /\ modes_pc \in {"cbc", "ctr"} /\ sz' = sz
        /\ \/ modes_pc' = modes_pc /\ i_blk' = i_blk + 1
           \/ modes_pc' = "done"
    BY <1>3 DEF CbcBlock, CtrBlock
  <2>2. i_blk \in Nat /\ CeilBlocks \in Nat /\ CeilBlocks' = CeilBlocks
    <3>1. i_blk \in Nat /\ sz \in Nat
      BY DEF IInv, ControlInv
    <3> QED BY <2>1, <3>1 DEF CeilBlocks, BLK_SZ
  <2>3. modes_pc' = modes_pc => ModesLeft' < ModesLeft
    BY <2>1, <2>2 DEF ModesLeft
  <2> QED BY <2>1, <2>3 DEF ModesStage
<1> QED BY <1>1, <1>2, <1>3 DEF ModesNext

\* Every step of a call ends it or leaves one block less to do: whatever the
\* size, both functions return (aes_cbc.c:33-54, aes_ctr.c:33-53).
THEOREM ModesNearTheEnd ==
    /\ IsWellFoundedOn(Below, Nat \X Nat)
    /\ ModesSpec => [][ModesNearer]_modes_vars
<1>1. IInv => ModesStage \in Nat /\ ModesLeft \in Nat
  BY ModesLeftNat
<1>2. IInv' => (ModesStage \in Nat /\ ModesLeft \in Nat)'
  BY <1>1, PTL
<1>3. IInv /\ IInv' /\ [ModesNext]_modes_vars => [ModesNearer]_modes_vars
  <2> SUFFICES ASSUME IInv, IInv', ModesNext PROVE ModesNearer
    OBVIOUS
  <2>1. ModesStage \in Nat /\ ModesLeft \in Nat
    BY <1>1
  <2>2. ModesStage' \in Nat /\ ModesLeft' \in Nat
    BY <1>2
  <2>3. ModesStage' < ModesStage \/ (ModesStage' = ModesStage /\ ModesLeft' < ModesLeft)
    BY ModesDescend
  <2> HIDE DEF ModesStage, ModesLeft
  <2> QED BY <2>1, <2>2, <2>3, BelowIs DEF ModesNearer
<1>4. ModesSpec => [][ModesNearer]_modes_vars
  BY <1>3, Invariant, PTL DEF ModesSpec
<1> QED BY <1>4, BelowIsWellFounded

\* The stages of a problem, and the problems to come.
StageOfProblem ==
    CASE w2_pc = "parse" -> 6 [] w2_pc = "decrypt" -> 5 [] w2_pc = "unpad" -> 4
      [] w2_pc = "clearing" -> 3 [] w2_pc = "print" -> 2 [] w2_pc = "wipe" -> 1 [] OTHER -> 0
Week2Stage == 7 * (4 - problem) + StageOfProblem

\* The bytes still to print; of remove_pkcs7_padding an even count itself, which
\* meets zero, and with an odd one, which does not, the bytes up to the end of the
\* buffer.
Week2Left ==
    CASE w2_pc = "print" -> left
      [] w2_pc = "clearing" -> IF pad % 2 = 0 THEN padding_bytes ELSE 4 * TextWords - pbyte
      [] OTHER -> 0
Week2Nearer == <<<<Week2Stage', Week2Left'>>, <<Week2Stage, Week2Left>>>> \in Below

\* The pointer of the loop is in the buffer, or just behind it.
PointerBound == w2_pc = "clearing" /\ pad % 2 = 1 => pbyte <= 4 * TextWords

LEMMA PointerStep ==
    ASSUME Week2IInv, PointerBound, [Week2Next]_week2_vars
    PROVE  PointerBound'
<1>1. Clients /\ Unpadding
  BY DEF Week2IInv
<1>2. CASE StartUnpadding
  <2>1. w2_pc = "unpad" /\ pad' = pad /\ pbyte' = 4 * (blk + 3) /\ blk = LastBlock /\ problem \in {1, 2}
    BY <1>1, <1>2 DEF StartUnpadding, FirstByte, Unpadding, Clients, cbc
  <2>2. client \in {"main", "last"} /\ TextWords \in Nat /\ TextWords >= 48
    BY <1>1, Week2Assumption DEF Clients
  <2>3. blk \in {8, 44} 
    BY <2>1, <2>2 DEF LastBlock, WordArray
  <2> QED BY <2>1, <2>2, <2>3 DEF PointerBound
<1>3. CASE ClearPaddingByte
  <2>1. /\ w2_pc = "clearing" /\ pad' = pad /\ padding_bytes > 0 /\ TextWords \in Nat
        /\ pbyte \in Int /\ padding_bytes \in 0..255
    BY <1>1, <1>3, Week2Assumption DEF ClearPaddingByte, Unpadding
  <2> SUFFICES ASSUME w2_pc' = "clearing", pad % 2 = 1 PROVE pbyte' <= 4 * TextWords
    BY <2>1 DEF PointerBound
  <2>2. client = "last" /\ padding_bytes % 2 = 1
    BY <1>1, <2>1 DEF Unpadding, Clients
  <2>3. /\ pbyte \in Addresses
        /\ padding_bytes' = (padding_bytes + 254) % 256
        /\ padding_bytes' % 4 # 0 => pbyte' = pbyte + 1
        /\ padding_bytes' % 4 = 0 \/ padding_bytes' % 4 # 0
    BY <1>3, <2>1 DEF ClearPaddingByte, Decremented
  <2>4. padding_bytes' % 4 # 0
    <3>1. ((padding_bytes + 254) % 256) % 2 = 1
      BY <2>1, <2>2
    <3> QED BY <2>1, <2>3, <3>1
  <2> QED BY <2>1, <2>3, <2>4 DEF Addresses
<1>4. CASE Parse \/ DecryptText \/ EndUnpadding \/ PrintByte \/ EndPrinting \/ Wipe
  <2>1. w2_pc' # "clearing"
    BY <1>4 DEF Parse, DecryptText, EndUnpadding, Unpadded, PrintByte, EndPrinting, Wipe
  <2> QED BY <2>1 DEF PointerBound
<1>5. CASE UNCHANGED week2_vars
  BY <1>5 DEF week2_vars, PointerBound
<1> QED BY <1>2, <1>3, <1>4, <1>5 DEF Week2Next

LEMMA Week2LeftNat ==
    ASSUME Week2IInv, PointerBound
    PROVE  Week2Stage \in Nat /\ Week2Left \in Nat
<1>1. Clients /\ Unpadding /\ Printing /\ problem \in 1..4
  BY DEF Week2IInv, Clients
<1>2. StageOfProblem \in Nat
  BY DEF StageOfProblem
<1>3. Week2Stage \in Nat
  BY <1>1, <1>2 DEF Week2Stage
<1>4. CASE w2_pc = "print"
  <2>1. left = PrintedBytes - Len(out) /\ Len(out) \in 0..PrintedBytes /\ PrintedBytes \in Nat
    BY <1>1, <1>4, TheProblems DEF Printing
  <2> QED BY <1>3, <1>4, <2>1 DEF Week2Left
<1>5. CASE w2_pc = "clearing"
  <2>1. padding_bytes \in 0..255 /\ pbyte \in Int /\ TextWords \in Nat /\ pad \in 0..255
    BY <1>1, Week2Assumption DEF Unpadding, Clients
  <2>2. CASE pad % 2 = 0
    BY <1>3, <1>5, <2>1, <2>2 DEF Week2Left
  <2>3. CASE pad % 2 = 1
    BY <1>3, <1>5, <2>1, <2>3 DEF Week2Left, PointerBound
  <2> QED BY <2>1, <2>2, <2>3
<1>6. CASE w2_pc \notin {"print", "clearing"}
  BY <1>3, <1>6 DEF Week2Left
<1> QED BY <1>4, <1>5, <1>6

LEMMA Week2Descend ==
    ASSUME Week2IInv, Week2Next
    PROVE  Week2Stage' < Week2Stage \/ (Week2Stage' = Week2Stage /\ Week2Left' < Week2Left)
<1>1. Clients /\ Unpadding /\ Printing /\ problem \in 1..4
  BY DEF Week2IInv, Clients
<1>2. CASE Parse \/ DecryptText \/ StartUnpadding \/ EndUnpadding \/ EndPrinting
  <2>1. /\ problem' = problem
        /\ \/ w2_pc = "parse" /\ w2_pc' = "decrypt"
           \/ w2_pc = "decrypt" /\ w2_pc' \in {"unpad", "print"}
           \/ w2_pc = "unpad" /\ w2_pc' \in {"clearing", "print", "refused"}
           \/ w2_pc = "clearing" /\ w2_pc' \in {"print", "returned"}
           \/ w2_pc = "print" /\ w2_pc' = "wipe"
    BY <1>2 DEF Parse, DecryptText, StartUnpadding, EndUnpadding, EndPrinting, Unpadded
  <2>2. StageOfProblem' < StageOfProblem /\ StageOfProblem' \in Nat /\ StageOfProblem \in Nat
    BY <2>1 DEF StageOfProblem
  <2>3. Week2Stage = 7 * (4 - problem) + StageOfProblem
    BY DEF Week2Stage
  <2>4. Week2Stage' = 7 * (4 - problem) + StageOfProblem'
    BY <2>1 DEF Week2Stage
  <2>5. problem \in Int
    BY <1>1
  <2> HIDE DEF StageOfProblem, Week2Stage
  <2>6. \A p \in Int : \A x, y \in Nat : x < y => 7 * (4 - p) + x < 7 * (4 - p) + y
    OBVIOUS
  <2>7. 7 * (4 - problem) + StageOfProblem' < 7 * (4 - problem) + StageOfProblem
    BY <2>2, <2>5, <2>6
  <2> QED BY <2>3, <2>4, <2>7
<1>3. CASE Wipe
  <2>1. /\ w2_pc = "wipe"
        /\ \/ w2_pc' = "end" /\ problem' = problem
           \/ w2_pc' = "parse" /\ problem' = problem + 1
    BY <1>3 DEF Wipe
  <2> QED BY <1>1, <2>1 DEF Week2Stage, StageOfProblem
<1>4. CASE PrintByte
  <2>1. w2_pc = "print" /\ w2_pc' = w2_pc /\ problem' = problem /\ left > 0 /\ left' = left - 1
    BY <1>4 DEF PrintByte
  <2>2. left \in Int
    BY <1>1, <2>1, TheProblems DEF Printing
  <2>3. Week2Stage' = Week2Stage
    BY <2>1 DEF Week2Stage, StageOfProblem
  <2>4. Week2Left' < Week2Left
    BY <2>1, <2>2 DEF Week2Left
  <2> QED BY <2>3, <2>4
<1>5. CASE ClearPaddingByte
  <2>1. /\ w2_pc = "clearing" /\ problem' = problem /\ pad' = pad /\ padding_bytes > 0
        /\ pbyte \in Int /\ padding_bytes \in 0..255
    BY <1>1, <1>5 DEF ClearPaddingByte, Unpadding
  <2>2. client = "last" /\ pad \in 1..16 /\ TextWords \in Nat
    BY <1>1, <2>1, Week2Assumption DEF Unpadding, Clients, BLOCK_BYTES
  <2>3. CASE w2_pc' = "overrun"
    BY <1>1, <2>1, <2>3 DEF Week2Stage, StageOfProblem
  <2>4. CASE w2_pc' # "overrun"
    <3>1. /\ w2_pc' = w2_pc
          /\ padding_bytes' = (padding_bytes + 254) % 256
          /\ padding_bytes' % 4 # 0 => pbyte' = pbyte + 1
      BY <1>5, <2>4 DEF ClearPaddingByte, Decremented
    <3>2. Week2Stage' = Week2Stage
      BY <2>1, <3>1 DEF Week2Stage, StageOfProblem
    <3>3. CASE pad % 2 = 0
      <4>1. EvenPasses
        BY <1>1, <2>1, <2>2, <3>3 DEF Unpadding
      <4>2. padding_bytes # 1
        <5>1. i_word \in Int /\ InTheWord \in {0, 1}
          BY <1>1, <4>1 DEF Unpadding, EvenPasses
        <5>2. \/ padding_bytes = pad - 4 * (3 - i_word) - 2 * InTheWord
              \/ padding_bytes = pad
              \/ padding_bytes = pad - 4 * (3 - i_word) - 2 * InTheWord + 2
          <6>1. pad % 4 = 0 \/ pad % 4 = 2
            BY <2>2, <3>3
          <6> QED BY <4>1, <6>1 DEF EvenPasses
        <5> HIDE DEF InTheWord
        <5> QED BY <2>2, <3>3, <5>1, <5>2
      <4>3. padding_bytes' < padding_bytes
        BY <2>1, <3>1, <4>2
      <4>4. Week2Left' < Week2Left
        BY <2>1, <3>1, <3>3, <4>3 DEF Week2Left
      <4> QED BY <3>2, <4>4
    <3>4. CASE pad % 2 = 1
      <4>1. padding_bytes % 2 = 1
        BY <1>1, <2>1, <2>2, <3>4 DEF Unpadding
      <4>2. ((padding_bytes + 254) % 256) % 2 = 1
        BY <2>1, <4>1
      <4>3. pbyte' = pbyte + 1
        BY <2>1, <3>1, <4>2
      <4>4. Week2Left' < Week2Left
        BY <2>1, <2>2, <3>1, <3>4, <4>3 DEF Week2Left
      <4> QED BY <3>2, <4>4
    <3> QED BY <2>2, <3>3, <3>4
  <2> QED BY <2>3, <2>4
<1> QED BY <1>2, <1>3, <1>4, <1>5 DEF Week2Next

\* Every step of week 2 takes it to a later stage or problem, or leaves less to
\* print or to clear.  For the padding loop, whose count may step over zero, this
\* is a different count for odd paddings than for even ones (week2.c:34-52).
THEOREM Week2NearsTheEnd ==
    /\ IsWellFoundedOn(Below, Nat \X Nat)
    /\ Week2Spec => [][Week2Nearer]_week2_vars
<1>1. Week2IInv /\ PointerBound => Week2Stage \in Nat /\ Week2Left \in Nat
  BY Week2LeftNat
<1>2. (Week2IInv /\ PointerBound)' => (Week2Stage \in Nat /\ Week2Left \in Nat)'
  BY <1>1, PTL
<1>3. Week2Init => PointerBound
  BY DEF Week2Init, PointerBound
<1>4. Week2IInv /\ PointerBound /\ [Week2Next]_week2_vars => PointerBound'
  BY PointerStep
<1>5. /\ Week2IInv /\ PointerBound /\ (Week2IInv /\ PointerBound)' /\ [Week2Next]_week2_vars
      => [Week2Nearer]_week2_vars
  <2> SUFFICES ASSUME Week2IInv, PointerBound, (Week2IInv /\ PointerBound)', Week2Next
               PROVE  Week2Nearer
    OBVIOUS
  <2>1. Week2Stage \in Nat /\ Week2Left \in Nat
    BY <1>1
  <2>2. Week2Stage' \in Nat /\ Week2Left' \in Nat
    BY <1>2
  <2>3. Week2Stage' < Week2Stage \/ (Week2Stage' = Week2Stage /\ Week2Left' < Week2Left)
    BY Week2Descend
  <2> HIDE DEF Week2Stage, Week2Left
  <2> QED BY <2>1, <2>2, <2>3, BelowIs DEF Week2Nearer
<1>6. Week2Spec => [][Week2Nearer]_week2_vars
  BY <1>3, <1>4, <1>5, Week2Invariant, PTL DEF Week2Spec
<1> QED BY <1>6, BelowIsWellFounded
=============================================================================
