-------------------------------- MODULE Sha --------------------------------
(***************************************************************************)
(* sha256, src/crypto/sha.c: which blocks of which bytes the compression   *)
(* function is given, for a message of any length.  The compression is     *)
(* taken as free: the hash value H is the sequence of the blocks that went *)
(* into it.  Sizes are the code's; a size_t has the width SizeMax says.    *)
(***************************************************************************)
EXTENDS Integers, Sequences

CONSTANT SizeMax   \* SIZE_MAX

ASSUME SizeAssumption == SizeMax \in Nat

VARIABLES
    pc,
    args,            \* the length of msg; null: msg or md is NULL
    N,               \* the number of blocks to compress
    block_padding,
    i,               \* the next block, from 1
    M,               \* where the current block is: in which array, and at what index
    H,               \* the blocks compressed so far
    md,              \* what was written to the caller's digest
    ret

vars == <<pc, args, N, block_padding, i, M, H, md, ret>>

SHA256_BLK_SZ == 64
sizeof_uint64_t == 8

Bytes(n) == 0 .. (n - 1)
Byte(v) == <<"byte", v>>
msg(k) == <<"msg", k>>     \* byte k of the message
At(array, index) == [array |-> array, index |-> index]

N_non_padded == args.len \div SHA256_BLK_SZ
remaining_bytes == args.len % SHA256_BLK_SZ
len_bits == (args.len * 8) % (SizeMax + 1)

----------------------------------------------------------------------------

Init ==
    /\ pc = "check"
    /\ args \in [null : BOOLEAN, len : 0..SizeMax]
    /\ N = 0 /\ i = 1 /\ block_padding = << >>
    /\ M = At("msg", 0) /\ H = << >> /\ md = << >> /\ ret = 0

TooLong_Never(len) == FALSE
TooLong(len) == len > SizeMax \div 8

Check ==
    /\ pc = "check"
    /\ IF args.null \/ TooLong(args.len)
       THEN ret' = 1 /\ pc' = "done"
       ELSE ret' = ret /\ pc' = "pad"
    /\ UNCHANGED <<args, N, block_padding, i, M, H, md>>

\* SHA256_CAN_LAST_BLK_HOLD_PADDING
CanHoldPadding_WithoutTheBit(b) == b > 0 /\ b <= SHA256_BLK_SZ - sizeof_uint64_t
CanHoldPadding(b) ==
    b > 0 /\ b * 8 + 1 <= SHA256_BLK_SZ * 8 - sizeof_uint64_t * 8

OneBlockSuffices == remaining_bytes = 0 \/ CanHoldPadding(remaining_bytes)

padding_end_pos_OneBlock == SHA256_BLK_SZ - 1
padding_end_pos == (IF OneBlockSuffices THEN 1 ELSE 2) * SHA256_BLK_SZ - 1

\* x >> 8, k times, and its last byte.
Shifted(x) ==
    LET shr[k \in Nat] == IF k = 0 THEN x ELSE shr[k - 1] \div 256 IN shr
LengthByte(x, k) == Byte(Shifted(x)[k] % 256)

\* |= of two bytes, where one of them is 0 it is the other.
Or(x, y) == IF x = Byte(0) THEN y ELSE IF y = Byte(0) THEN x ELSE <<"or", x, y>>

sizeof_block_padding_OneBlock == SHA256_BLK_SZ
sizeof_block_padding == 2 * SHA256_BLK_SZ

\* memcpy of the remaining bytes, then the bit 1.
LastBytes ==
    [k \in Bytes(sizeof_block_padding) |->
        IF k = remaining_bytes THEN Byte(128)
        ELSE IF k < remaining_bytes THEN msg(args.len - remaining_bytes + k)
        ELSE Byte(0)]

Pad ==
    /\ pc = "pad" /\ pc' = "blocks"
    /\ N' = N_non_padded + (IF OneBlockSuffices THEN 1 ELSE 2)
    /\ block_padding' =
          [k \in DOMAIN LastBytes |->
              LET fromEnd == padding_end_pos - k
              IN  IF fromEnd = 7 THEN Or(LastBytes[k], LengthByte(len_bits, 7))
                  ELSE IF fromEnd \in 0..6 THEN LengthByte(len_bits, fromEnd)
                  ELSE LastBytes[k]]
    /\ UNCHANGED <<args, i, M, H, md, ret>>

\* The start of block n, in the message or in block_padding.
StartOf_PastTheEnd(n) ==
    IF n <= N_non_padded + 1 THEN At("msg", (n - 1) * SHA256_BLK_SZ)
    ELSE At("block_padding", (n - N_non_padded - 1) * SHA256_BLK_SZ)
StartOf(n) ==
    IF n <= N_non_padded THEN At("msg", (n - 1) * SHA256_BLK_SZ)
    ELSE At("block_padding", (n - N_non_padded - 1) * SHA256_BLK_SZ)

\* The bytes the message schedule reads from there.
BlockFrom(p) ==
    [k \in Bytes(SHA256_BLK_SZ) |->
        IF p.array = "msg" THEN msg(p.index + k) ELSE block_padding[p.index + k]]

Compress ==
    /\ pc = "blocks" /\ i <= N
    /\ M' = StartOf(i)
    /\ H' = Append(H, BlockFrom(M')) /\ i' = i + 1
    /\ UNCHANGED <<pc, args, N, block_padding, md, ret>>

Output ==
    /\ pc = "blocks" /\ i > N /\ pc' = "done"
    /\ md' = H
    /\ UNCHANGED <<args, N, block_padding, i, M, H, ret>>

Next == Check \/ Pad \/ Compress \/ Output

Spec == Init /\ [][Next]_vars

----------------------------------------------------------------------------
(* FIPS 180-4, 5.1.1: the bit 1, the fewest zeros that fill up the last    *)
(* block, and the length in bits, big-endian.                              *)

Blocks == CHOOSE n \in 1 .. (N_non_padded + 2) :
    /\ args.len + 1 + 8 <= n * 64
    /\ n * 64 < args.len + 1 + 8 + 64

PaddedByte(k) ==
    IF k < args.len THEN msg(k)
    ELSE IF k = args.len THEN Byte(128)
    ELSE IF k < Blocks * 64 - 8 THEN Byte(0)
    ELSE LengthByte(8 * args.len, Blocks * 64 - 1 - k)

PaddedBlock(n) == [k \in Bytes(64) |-> PaddedByte((n - 1) * 64 + k)]

----------------------------------------------------------------------------
(* Properties.                                                             *)

\* The loop counts its blocks; the padding, once built, is two blocks.
TypeOK ==
    /\ pc \in {"check", "pad", "blocks", "done"}
    /\ args \in [null : BOOLEAN, len : 0..SizeMax]
    /\ ret \in {0, 1}
    /\ N \in 0 .. (N_non_padded + 2)
    /\ i \in 1 .. (N + 1)
    /\ Len(H) = i - 1
    /\ M \in [array : {"msg", "block_padding"}, index : Nat]
    /\ block_padding # << >> => DOMAIN block_padding = Bytes(2 * SHA256_BLK_SZ)

\* The compression reads the caller's message only below its length: no block
\* that straddles its end is read from it.  Of the padding it reads nothing
\* behind padding_end_pos, and a hash that is delivered was read up to there, no
\* block less (sha.c:166-177, 206-214): N and padding_end_pos, which each count
\* the padding, agree.
ReadsStayInside ==
    LET last == M.index + SHA256_BLK_SZ - 1
    IN  /\ i > 1 => last <= IF M.array = "msg" THEN args.len - 1 ELSE padding_end_pos
        /\ pc = "done" /\ ret = 0 => M.array = "block_padding" /\ last = padding_end_pos

\* Every message of every length in range is hashed with exactly the blocks of
\* FIPS 180-4, in order, whether its padding fills one block or two
\* (sha.c:163-191); a refused call leaves the digest alone.
DigestIsOfThePaddedMessage ==
    pc = "done" =>
       md = IF ret = 0 THEN [n \in 1..Blocks |-> PaddedBlock(n)] ELSE << >>
============================================================================
