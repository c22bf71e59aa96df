----------------------------- MODULE ShaProofs -----------------------------
(***************************************************************************)
(* sha256 of src/crypto/sha.c pads and splits every message as FIPS 180-4  *)
(* says, whatever the width of a size_t.  The invariant follows the call:  *)
(* after each block, H is a prefix of the padded message.                  *)
(***************************************************************************)
EXTENDS Sha, TLAPS

\* The blocks of the padding and their number, by the code's case split.
PaddingBlocks == IF OneBlockSuffices THEN 1 ELSE 2

Padding ==
    [k \in DOMAIN LastBytes |->
        LET fromEnd == padding_end_pos - k
        IN  IF fromEnd = 7 THEN Or(LastBytes[k], LengthByte(len_bits, 7))
            ELSE IF fromEnd \in 0..6 THEN LengthByte(len_bits, fromEnd)
            ELSE LastBytes[k]]

Fresh == N = 0 /\ i = 1 /\ block_padding = << >> /\ H = << >> /\ md = << >>

InRange == args.len \in Nat /\ args.len <= SizeMax \div 8

Progress ==
    /\ H \in Seq({PaddedBlock(n) : n \in Nat})
    /\ \A n \in 1..Len(H) : H[n] = PaddedBlock(n)
    /\ i > 1 => InRange /\ i - 1 <= Blocks /\ M = StartOf(i - 1)
    /\ pc = "check" => Fresh /\ ret = 0
    /\ pc = "pad" => Fresh /\ ret = 0 /\ InRange
    /\ pc = "blocks" =>
          /\ InRange /\ N = Blocks /\ block_padding = Padding
          /\ md = << >> /\ ret = 0
    /\ pc = "done" => IF ret = 0 THEN InRange /\ md = H /\ Len(H) = Blocks
                                 ELSE Fresh

IInv == TypeOK /\ Progress

----------------------------------------------------------------------------
(* Arithmetic of the padding.                                              *)

\* The code's number of blocks is the FIPS one: the fewest that hold the
\* message, the bit 1 and the length.
LEMMA BlockCount ==
    ASSUME args.len \in Nat
    PROVE  /\ Blocks = N_non_padded + PaddingBlocks
           /\ N_non_padded \in Nat /\ remaining_bytes \in 0..63
           /\ args.len = N_non_padded * 64 + remaining_bytes
<1>1. /\ N_non_padded \in Nat /\ remaining_bytes \in 0..63
      /\ args.len = N_non_padded * 64 + remaining_bytes
  BY DEF N_non_padded, remaining_bytes, SHA256_BLK_SZ
<1> DEFINE Fits(n) == args.len + 1 + 8 <= n * 64 /\ n * 64 < args.len + 1 + 8 + 64
<1>2. OneBlockSuffices <=> remaining_bytes <= 55
  BY <1>1 DEF OneBlockSuffices, CanHoldPadding, SHA256_BLK_SZ, sizeof_uint64_t
<1>3. /\ N_non_padded + PaddingBlocks \in 1 .. (N_non_padded + 2)
      /\ Fits(N_non_padded + PaddingBlocks)
  <2>1. CASE remaining_bytes <= 55
    BY <1>1, <1>2, <2>1 DEF PaddingBlocks
  <2>2. CASE remaining_bytes > 55
    BY <1>1, <1>2, <2>2 DEF PaddingBlocks
  <2> QED BY <1>1, <2>1, <2>2
<1>4. \A m, n \in 1 .. (N_non_padded + 2) : Fits(m) /\ Fits(n) => m = n
  BY <1>1
<1>5. Blocks \in 1 .. (N_non_padded + 2) /\ Fits(Blocks)
  BY <1>3 DEF Blocks
<1> QED BY <1>1, <1>3, <1>4, <1>5

\* A length in range has eight times as many bits, without wrapping.
LEMMA LengthInBits ==
    ASSUME InRange
    PROVE  len_bits = 8 * args.len
<1>1. args.len * 8 <= SizeMax
  BY SizeAssumption DEF InRange
<1> QED BY <1>1, SizeAssumption DEF InRange, len_bits

\* The byte the padding holds at k is the one FIPS puts there.
LEMMA PaddingByte ==
    ASSUME InRange, NEW k \in 0 .. (PaddingBlocks * 64 - 1)
    PROVE  Padding[k] = PaddedByte(N_non_padded * 64 + k)
<1> DEFINE pos == N_non_padded * 64 + k
           fromEnd == padding_end_pos - k
<1>1. /\ Blocks = N_non_padded + PaddingBlocks
      /\ N_non_padded \in Nat /\ remaining_bytes \in 0..63
      /\ args.len = N_non_padded * 64 + remaining_bytes
      /\ args.len \in Nat /\ PaddingBlocks \in {1, 2} /\ k \in Int
  BY BlockCount DEF InRange, PaddingBlocks
<1>2. OneBlockSuffices <=> remaining_bytes <= 55
  BY <1>1 DEF OneBlockSuffices, CanHoldPadding, SHA256_BLK_SZ, sizeof_uint64_t
<1>3. padding_end_pos = PaddingBlocks * 64 - 1
  BY DEF padding_end_pos, PaddingBlocks, SHA256_BLK_SZ
<1>4. remaining_bytes < padding_end_pos - 7
  BY <1>1, <1>2, <1>3 DEF PaddingBlocks
<1>5. DOMAIN LastBytes = 0..127 /\ k \in 0..127
  BY <1>1 DEF LastBytes, Bytes, sizeof_block_padding, SHA256_BLK_SZ
<1>6. LastBytes[k] = IF k = remaining_bytes THEN Byte(128)
                     ELSE IF k < remaining_bytes THEN msg(args.len - remaining_bytes + k)
                     ELSE Byte(0)
  BY <1>5 DEF LastBytes, Bytes, sizeof_block_padding, SHA256_BLK_SZ
<1>7. Blocks * 64 - 1 - pos = fromEnd
  BY <1>1, <1>3
<1>8. len_bits = 8 * args.len
  BY LengthInBits
<1>9. Padding[k] = IF fromEnd = 7 THEN Or(LastBytes[k], LengthByte(len_bits, 7))
                   ELSE IF fromEnd \in 0..6 THEN LengthByte(len_bits, fromEnd)
                   ELSE LastBytes[k]
  BY <1>5 DEF Padding
<1>10. CASE k < remaining_bytes
  <2>1. fromEnd > 7 /\ pos < args.len /\ args.len - remaining_bytes + k = pos
    BY <1>1, <1>3, <1>4, <1>10
  <2> QED BY <1>1, <1>3, <1>6, <1>9, <1>10, <2>1 DEF PaddedByte
<1>11. CASE k = remaining_bytes
  <2>1. fromEnd > 7 /\ pos = args.len
    BY <1>1, <1>3, <1>4, <1>11
  <2> QED BY <1>1, <1>3, <1>6, <1>9, <1>11, <2>1 DEF PaddedByte
<1>12. CASE k > remaining_bytes /\ fromEnd > 7
  <2>1. pos > args.len /\ pos < Blocks * 64 - 8 /\ pos \in Int
    BY <1>1, <1>3, <1>7, <1>12
  <2> QED BY <1>1, <1>3, <1>6, <1>9, <1>12, <2>1 DEF PaddedByte
<1>13. CASE k > remaining_bytes /\ fromEnd <= 7
  <2>1. pos > args.len /\ ~(pos < Blocks * 64 - 8) /\ fromEnd \in 0..7
    BY <1>1, <1>3, <1>7, <1>13
  <2>2. PaddedByte(pos) = LengthByte(len_bits, fromEnd)
    BY <1>1, <1>7, <1>8, <2>1 DEF PaddedByte
  <2>3. LastBytes[k] = Byte(0)
    BY <1>1, <1>6, <1>13
  <2>4. Or(LastBytes[k], LengthByte(len_bits, 7)) = LengthByte(len_bits, 7)
    BY <2>3 DEF Or
  <2> QED BY <1>9, <2>1, <2>2, <2>4
<1> QED BY <1>1, <1>3, <1>10, <1>11, <1>12, <1>13

\* A block read from where the code looks for it is the block of the padded message.
LEMMA BlockAtStart ==
    ASSUME InRange, block_padding = Padding, i \in 1..Blocks
    PROVE  /\ BlockFrom(StartOf(i)) = PaddedBlock(i)
           /\ StartOf(i) \in [array : {"msg", "block_padding"}, index : Nat]
<1>1. /\ Blocks = N_non_padded + PaddingBlocks
      /\ N_non_padded \in Nat /\ remaining_bytes \in 0..63
      /\ args.len = N_non_padded * 64 + remaining_bytes
      /\ args.len \in Nat /\ PaddingBlocks \in {1, 2} /\ i \in Int
  BY BlockCount DEF InRange, PaddingBlocks
<1>2. CASE i <= N_non_padded
  <2>1. \A k \in 0..63 : (i - 1) * 64 + k < args.len
    BY <1>1, <1>2
  <2>2. \A k \in 0..63 : PaddedByte((i - 1) * 64 + k) = msg((i - 1) * 64 + k)
    BY <2>1 DEF PaddedByte
  <2>3. StartOf(i) = [array |-> "msg", index |-> (i - 1) * 64] /\ (i - 1) * 64 \in Nat
    BY <1>1, <1>2 DEF StartOf, At, SHA256_BLK_SZ
  <2> QED BY <2>2, <2>3 DEF BlockFrom, PaddedBlock, Bytes, SHA256_BLK_SZ
<1>3. CASE i > N_non_padded
  <2>1. ASSUME NEW k \in 0..63
        PROVE  block_padding[(i - N_non_padded - 1) * 64 + k]
                  = PaddedByte((i - 1) * 64 + k)
    <3> DEFINE at == (i - N_non_padded - 1) * 64 + k
    <3>1. at \in 0 .. (PaddingBlocks * 64 - 1)
      BY <1>1, <1>3
    <3>2. N_non_padded * 64 + at = (i - 1) * 64 + k
      BY <1>1
    <3>3. Padding[at] = PaddedByte(N_non_padded * 64 + at)
      BY <3>1, PaddingByte
    <3> QED BY <3>2, <3>3
  <2>2. ~(i <= N_non_padded)
    BY <1>1, <1>3
  <2>3. /\ StartOf(i) = [array |-> "block_padding", index |-> (i - N_non_padded - 1) * 64]
        /\ (i - N_non_padded - 1) * 64 \in Nat
    BY <1>1, <1>3, <2>2 DEF StartOf, At, SHA256_BLK_SZ
  <2> QED BY <2>1, <2>3 DEF BlockFrom, PaddedBlock, Bytes, SHA256_BLK_SZ
<1> QED BY <1>1, <1>2, <1>3

----------------------------------------------------------------------------
(* The invariant.                                                          *)

LEMMA InitInv == Init => IInv
<1>1. SUFFICES ASSUME Init PROVE IInv
  OBVIOUS
<1> USE <1>1
<1>2. args \in [null : BOOLEAN, len : 0..SizeMax]
  BY DEF Init
<1>3. N_non_padded \in Nat
  <2>1. args.len \in Nat
    BY <1>2, SizeAssumption
  <2> QED BY <2>1, BlockCount
<1>4. TypeOK
  BY <1>2, <1>3 DEF Init, TypeOK, At
<1>5. Progress
  <2> DEFINE S == {PaddedBlock(n) : n \in Nat}
  <2> HIDE DEF S
  <2>1. H = << >> /\ H \in Seq(S) /\ Len(H) = 0
    BY DEF Init
  <2>2. H \in Seq({PaddedBlock(n) : n \in Nat})
    BY <2>1 DEF S
  <2>3. \A n \in 1..Len(H) : H[n] = PaddedBlock(n)
    BY <2>1
  <2> QED BY <2>2, <2>3 DEF Init, Progress, Fresh
<1> QED BY <1>4, <1>5 DEF IInv

LEMMA CheckInv == IInv /\ Check => IInv'
<1>1. SUFFICES ASSUME IInv, Check PROVE IInv'
  OBVIOUS
<1> USE <1>1 DEF IInv
<1>2. TypeOK'
  BY DEF TypeOK, Check, N_non_padded
<1>3. pc' = "pad" => InRange'
  <2>1. args.len \in Nat /\ args' = args
    BY SizeAssumption DEF TypeOK, Check
  <2>2. pc' = "pad" => ~(args.len > SizeMax \div 8)
    BY DEF Check, TooLong
  <2> QED BY <2>1, <2>2, SizeAssumption DEF InRange
<1>4. Progress'
  BY <1>3 DEF TypeOK, Check, Progress, Fresh, PaddedBlock, PaddedByte, Blocks,
              N_non_padded
<1> QED BY <1>2, <1>4

LEMMA PadInv == IInv /\ Pad => IInv'
<1>1. SUFFICES ASSUME IInv, Pad PROVE IInv'
  OBVIOUS
<1> USE <1>1 DEF IInv
<1>2. /\ Blocks = N_non_padded + PaddingBlocks
      /\ N_non_padded \in Nat /\ PaddingBlocks \in {1, 2} /\ InRange
  BY BlockCount DEF Progress, InRange, Pad, PaddingBlocks
<1>3. N' = Blocks /\ block_padding' = Padding /\ args' = args
  BY <1>2 DEF Pad, PaddingBlocks, Padding
<1>4. DOMAIN Padding = Bytes(2 * SHA256_BLK_SZ)
  BY DEF Padding, LastBytes, sizeof_block_padding
<1>5. TypeOK'
  BY <1>2, <1>3, <1>4 DEF TypeOK, Pad, N_non_padded, Progress, Fresh
<1>6. Blocks' = Blocks /\ Padding' = Padding /\ InRange'
  BY <1>2, <1>3 DEF Blocks, Padding, N_non_padded, OneBlockSuffices, remaining_bytes,
                    padding_end_pos, LastBytes, len_bits, InRange
<1>7. \A n : PaddedBlock(n)' = PaddedBlock(n)
  BY <1>3, <1>6 DEF PaddedBlock, PaddedByte
<1>8. Progress'
  BY <1>3, <1>6, <1>7 DEF Progress, Pad, Fresh
<1> QED BY <1>5, <1>8

LEMMA CompressInv == IInv /\ Compress => IInv'
<1>1. SUFFICES ASSUME IInv, Compress PROVE IInv'
  OBVIOUS
<1> USE <1>1 DEF IInv
<1>2. /\ InRange /\ N = Blocks /\ block_padding = Padding /\ pc = "blocks"
      /\ i \in 1 .. (N + 1) /\ i <= N /\ N \in Nat
  <2>1. N_non_padded \in Nat
    BY BlockCount DEF Progress, Compress, InRange
  <2> QED BY <2>1 DEF Progress, Compress, TypeOK
<1>3. /\ H' = Append(H, PaddedBlock(i)) /\ i' = i + 1 /\ args' = args
      /\ M' = StartOf(i) /\ M' \in [array : {"msg", "block_padding"}, index : Nat]
  BY <1>2, BlockAtStart DEF Compress
<1>4. \A n : PaddedBlock(n)' = PaddedBlock(n)
  BY <1>3 DEF PaddedBlock, PaddedByte, Blocks, N_non_padded
<1> DEFINE S == {PaddedBlock(n) : n \in Nat}
<1>5. H \in Seq(S) /\ Len(H) = i - 1 /\ PaddedBlock(i) \in S
  BY <1>2 DEF Progress, TypeOK
<1> HIDE DEF S
<1>6. H' \in Seq(S) /\ Len(H') = i /\ \A n \in 1 .. i :
         H'[n] = IF n = i THEN PaddedBlock(i) ELSE H[n]
  BY <1>2, <1>3, <1>5
<1>7. TypeOK'
  BY <1>2, <1>3, <1>6 DEF TypeOK, Compress, N_non_padded
<1>8. \A n \in 1 .. i : H'[n] = PaddedBlock(n)
  BY <1>2, <1>5, <1>6 DEF Progress
<1>9. S' = S
  BY <1>4 DEF S
<1>10. InRange' /\ Blocks' = Blocks /\ Padding' = Padding
  BY <1>2, <1>3 DEF Blocks, Padding, N_non_padded, OneBlockSuffices, remaining_bytes,
                    padding_end_pos, LastBytes, len_bits, InRange
<1>11. Progress'
  <2>1. H' \in Seq({PaddedBlock(n) : n \in Nat})'
    BY <1>6, <1>9 DEF S
  <2>2. \A n \in 1..Len(H') : H'[n] = PaddedBlock(n)'
    BY <1>4, <1>6, <1>8
  <2>3. /\ (i - 1)' <= Blocks' /\ M' = StartOf(i - 1)'
        /\ pc' = "blocks" /\ pc = "blocks"
    <3>1. (i - 1)' = i /\ i <= Blocks
      BY <1>2, <1>3
    <3>2. StartOf(i - 1)' = StartOf(i)
      BY <1>3, <3>1 DEF StartOf, N_non_padded
    <3> QED BY <1>2, <1>3, <1>10, <3>1, <3>2 DEF Compress
  <2> QED BY <1>2, <1>10, <2>1, <2>2, <2>3 DEF Progress, Compress
<1> QED BY <1>7, <1>11

LEMMA OutputInv == IInv /\ Output => IInv'
<1>1. SUFFICES ASSUME IInv, Output PROVE IInv'
  OBVIOUS
<1> USE <1>1 DEF IInv
<1>2. TypeOK'
  BY DEF TypeOK, Output, N_non_padded
<1>3. InRange /\ N = Blocks /\ N \in Nat /\ i > N /\ i \in 1 .. (N + 1) /\ ret = 0
  <2>1. N_non_padded \in Nat
    BY BlockCount DEF Progress, Output, InRange
  <2> QED BY <2>1 DEF Progress, Output, TypeOK
<1>4. Len(H) = Blocks
  BY <1>3 DEF TypeOK
<1>5. \A n : PaddedBlock(n)' = PaddedBlock(n)
  BY DEF PaddedBlock, PaddedByte, Blocks, N_non_padded, Output
<1>6. InRange' /\ Blocks' = Blocks
  BY <1>3 DEF Output, InRange, Blocks, N_non_padded
<1>7. StartOf(i - 1)' = StartOf(i - 1)
  BY DEF StartOf, N_non_padded, Output
<1>8. Progress'
  BY <1>3, <1>4, <1>5, <1>6, <1>7 DEF Progress, Output
<1> QED BY <1>2, <1>8

LEMMA StutterInv == IInv /\ UNCHANGED vars => IInv'
<1>1. SUFFICES ASSUME IInv, UNCHANGED vars PROVE IInv'
  OBVIOUS
<1> USE <1>1 DEF IInv
<1>2. TypeOK'
  BY DEF TypeOK, N_non_padded, vars
<1>3. \A n : PaddedBlock(n)' = PaddedBlock(n)
  BY DEF PaddedBlock, PaddedByte, Blocks, N_non_padded, vars
<1>4. InRange' = InRange /\ Blocks' = Blocks /\ Padding' = Padding
  BY DEF Blocks, Padding, N_non_padded, OneBlockSuffices, remaining_bytes,
         padding_end_pos, LastBytes, len_bits, InRange, vars
<1>5. StartOf(i - 1)' = StartOf(i - 1)
  BY DEF StartOf, N_non_padded, vars
<1>6. Progress'
  BY <1>3, <1>4, <1>5 DEF Progress, Fresh, vars
<1> QED BY <1>2, <1>6

LEMMA Invariance == Spec => []IInv
<1>1. IInv /\ [Next]_vars => IInv'
  BY CheckInv, PadInv, CompressInv, OutputInv, StutterInv DEF Next
<1> QED BY InitInv, <1>1, PTL DEF Spec

----------------------------------------------------------------------------
(* The theorems.                                                           *)

\* Types, and the counters of the block loop (sha.c:204).
THEOREM TypeCorrect == Spec => []TypeOK
<1>1. IInv => TypeOK
  BY DEF IInv
<1> QED BY <1>1, Invariance, PTL

\* No block that is read from the message straddles its end, and the padding is
\* read up to padding_end_pos and no further (sha.c:166-177, 206-214).
THEOREM ReadsEndInside == Spec => []ReadsStayInside
<1>1. IInv => ReadsStayInside
  <2> SUFFICES ASSUME IInv PROVE ReadsStayInside
    OBVIOUS
  <2> DEFINE last == M.index + SHA256_BLK_SZ - 1
  <2>1. ASSUME i > 1
        PROVE  /\ last <= IF M.array = "msg" THEN args.len - 1 ELSE padding_end_pos
               /\ i - 1 = Blocks => M.array = "block_padding" /\ last = padding_end_pos
    <3> DEFINE n == i - 1
    <3>1. InRange /\ n <= Blocks /\ M = StartOf(n)
      BY <2>1 DEF IInv, Progress
    <3>2. /\ Blocks = N_non_padded + PaddingBlocks /\ PaddingBlocks \in {1, 2}
          /\ N_non_padded \in Nat /\ remaining_bytes \in 0..63
          /\ args.len = N_non_padded * 64 + remaining_bytes
          /\ padding_end_pos = PaddingBlocks * 64 - 1
      BY <3>1, BlockCount DEF InRange, PaddingBlocks, padding_end_pos, SHA256_BLK_SZ
    <3>3. n \in Nat /\ n >= 1
      BY <2>1, <3>2 DEF IInv, TypeOK
    <3>4. CASE n <= N_non_padded
      <4>1. M.array = "msg" /\ last = (n - 1) * 64 + 63
        BY <3>1, <3>3, <3>4 DEF StartOf, At, SHA256_BLK_SZ
      <4> HIDE DEF n, last
      <4>2. n # Blocks /\ (n - 1) * 64 + 63 <= args.len - 1
        BY ONLY <3>2, <3>3, <3>4
      <4> QED BY <4>1, <4>2 DEF n
    <3>5. CASE ~(n <= N_non_padded)
      <4>1. M.array = "block_padding" /\ last = (n - N_non_padded - 1) * 64 + 63
        BY <3>1, <3>2, <3>3, <3>5 DEF StartOf, At, SHA256_BLK_SZ
      <4> HIDE DEF n, last
      <4>2. /\ (n - N_non_padded - 1) * 64 + 63 <= padding_end_pos
            /\ n = Blocks => (n - N_non_padded - 1) * 64 + 63 = padding_end_pos
        BY <3>1, <3>2, <3>3, <3>5
      <4> QED BY <4>1, <4>2 DEF n
    <3> QED BY <3>4, <3>5
  <2>2. ASSUME pc = "done", ret = 0 PROVE i - 1 = Blocks /\ i > 1
    <3>1. InRange /\ Len(H) = Blocks /\ Len(H) = i - 1
      BY <2>2 DEF IInv, Progress, TypeOK
    <3>2. Blocks \in Nat /\ Blocks >= 1 /\ N_non_padded \in Nat
      BY <3>1, BlockCount DEF InRange, PaddingBlocks
    <3>3. i \in Nat
      BY <3>2 DEF IInv, TypeOK
    <3> QED BY <3>1, <3>2, <3>3
  <2> QED BY <2>1, <2>2 DEF ReadsStayInside
<1> QED BY <1>1, Invariance, PTL

\* The blocks hashed are those of the padded message of FIPS 180-4, for every
\* length and every width of a size_t (sha.c:142-287).
THEOREM PaddingIsFips == Spec => []DigestIsOfThePaddedMessage
<1>1. IInv => DigestIsOfThePaddedMessage
  <2>1. SUFFICES ASSUME IInv, pc = "done"
                 PROVE  md = IF ret = 0 THEN [n \in 1..Blocks |-> PaddedBlock(n)]
                             ELSE << >>
    BY DEF DigestIsOfThePaddedMessage
  <2>2. CASE ret = 0
    <3>1. H \in Seq({PaddedBlock(n) : n \in Nat}) /\ Len(H) = Blocks /\ md = H
      BY <2>1, <2>2 DEF IInv, Progress
    <3>2. H = [n \in 1..Len(H) |-> H[n]]
      BY <3>1
    <3>3. \A n \in 1..Len(H) : H[n] = PaddedBlock(n)
      BY <2>1 DEF IInv, Progress
    <3> QED BY <2>2, <3>1, <3>2, <3>3
  <2>3. CASE ret # 0
    BY <2>1, <2>3 DEF IInv, Progress, Fresh
  <2> QED BY <2>2, <2>3
<1> QED BY <1>1, Invariance, PTL
============================================================================
