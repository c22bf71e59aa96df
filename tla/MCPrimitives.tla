---------------------------- MODULE MCPrimitives ----------------------------
(***************************************************************************)
(* DES, AES and SHA-256 with their real tables: one of the three machines  *)
(* moves, the others wait for their first call.  Keys, blocks, messages    *)
(* and results are those of the response files of src/tests.               *)
(***************************************************************************)
EXTENDS Des, DesTables, Aes, AesTables, ShaCompression, ShaTables

\* Bytes as 64 bits, and as words.
BitsOfBytes(bytes) ==
    [n \in 1..64 |-> (bytes[((n - 1) \div 8) + 1] \div 2^(7 - ((n - 1) % 8))) % 2]
WordsOfBytes(bytes, count) ==
    [w \in 0..(count - 1) |-> [n \in 0..3 |->
        IF 4 * w + n < Len(bytes) THEN BitsOf(bytes[4 * w + n + 1]) ELSE {}]]

\* des/fips_kat/TECBsubtab.rsp:9-11.
DesAnswer ==
    [key |-> BitsOfBytes(<<124, 161, 16, 69, 74, 26, 110, 87>>),
     block |-> BitsOfBytes(<<1, 161, 214, 208, 57, 119, 103, 66>>),
     result |-> BitsOfBytes(<<105, 15, 91, 13, 154, 38, 147, 155>>)]

\* aes/fips_kat/ECBKeySbox128.rsp, ECBKeySbox192.rsp and ECBKeySbox256.rsp:11-13.
AesAnswers ==
    {[Nk |-> 4,
      key |-> <<16, 165, 136, 105, 215, 75, 229, 163, 116, 207, 134, 124, 251, 71, 56,
               89>>,
      result |-> <<109, 37, 30, 105, 68, 176, 81, 224, 78, 170, 111, 180, 219, 247,
                  132, 101>>],
     [Nk |-> 6,
      key |-> <<233, 240, 101, 215, 193, 53, 115, 88, 127, 120, 117, 53, 125, 251, 177,
               108, 83, 72, 159, 106, 75, 208, 247, 205>>,
      result |-> <<9, 86, 37, 156, 156, 213, 207, 208, 24, 28, 202, 83, 56, 12, 222,
                  6>>],
     [Nk |-> 8,
      key |-> <<196, 123, 2, 148, 219, 187, 238, 15, 236, 71, 87, 242, 47, 254, 238,
               53, 135, 202, 71, 48, 195, 211, 59, 105, 29, 243, 139, 171, 7, 107, 197,
               88>>,
      result |-> <<70, 242, 251, 52, 45, 111, 10, 180, 119, 71, 111, 197, 1, 36, 44,
                  95>>]}

OneDesKey == {DesAnswer.key}
OneDesBlock == {DesAnswer.block}

\* The three keys, and one of a length that is refused.
KeyOf(answer) == [Nk |-> answer.Nk, words |-> WordsOfBytes(answer.key, 8)]
AesKeysOfAllLengths ==
    {KeyOf(answer) : answer \in AesAnswers} \cup {[Nk |-> 5, words |-> WordsOfBytes(<<>>, 8)]}

\* The block of the answers, and one with all bytes different.
AesZeroAndOther ==
    {WordsOfBytes(<<>>, 4),
     WordsOfBytes(<<0, 17, 34, 51, 68, 85, 102, 119, 136, 153, 170, 187, 204, 221, 238, 255>>, 4)}

\* sha/fips_kat/SHA256ShortMsg.rsp:20-22 and 232-234: one block, and two, since
\* the length does not fit the first.
ShaAnswers ==
    {[msg |-> <<180, 25, 14>>,
      md |-> <<223, 242, 231, 48, 145, 246, 192, 94, 82, 136, 150, 196, 200, 49, 185, 68,
               134, 83, 220, 47, 240, 67, 82, 143, 103, 105, 67, 123, 199, 185, 117, 194>>],
     [msg |-> <<45, 82, 68, 125, 18, 68, 210, 235, 194, 134, 80, 231, 176, 86, 84, 186, 211,
                91, 58, 104, 238, 220, 127, 133, 21, 48, 107, 73, 109, 117, 243, 231, 51, 133,
                221, 27, 0, 38, 37, 2, 75, 129, 160, 47, 47, 214, 223, 251, 110, 109, 86, 28,
                183, 208, 189, 122>>,
      md |-> <<207, 184, 141, 111, 175, 45, 227, 166, 157, 54, 25, 90, 206, 194, 226, 85,
               226, 175, 43, 125, 147, 57, 151, 243, 72, 224, 159, 108, 229, 117, 131, 96>>]}

\* The blocks that sha256 is shown to compress, in module Sha.
Padding(len) ==
    INSTANCE Sha WITH SizeMax <- 4095, pc <- "pad", args <- [null |-> FALSE, len |-> len],
        N <- 0, block_padding <- <<>>, i <- 1, M <- [array |-> "msg", index |-> 0],
        H <- <<>>, md <- <<>>, ret <- 0

Padded(msg) ==
    [n \in 1..Padding(Len(msg))!Blocks |->
        LET bytes == Padding(Len(msg))!PaddedBlock(n)
        IN  [j \in 0..63 |-> IF bytes[j][1] = "msg" THEN msg[bytes[j][2] + 1] ELSE bytes[j][2]]]

ShaMessages == {Padded(answer.msg) : answer \in ShaAnswers}

----------------------------------------------------------------------------

PrimitivesInit == DesInit /\ AesInit /\ HashInit
PrimitivesNext ==
    \/ aes_pc = "call" /\ hash_pc = "call" /\ DesNext /\ UNCHANGED <<aes_vars, hash_vars>>
    \/ des_pc = "call" /\ hash_pc = "call" /\ AesNext /\ UNCHANGED <<des_vars, hash_vars>>
    \/ des_pc = "call" /\ aes_pc = "call" /\ HashNext /\ UNCHANGED <<des_vars, aes_vars>>
PrimitivesSpec ==
    PrimitivesInit /\ [][PrimitivesNext]_<<des_vars, aes_vars, hash_vars>>

\* The types of the three.
PrimitivesTypeOK == DesTypeOK /\ AesTypeOK /\ HashTypeOK

\* The tables and functions of the code are those of the standards: the results
\* are the ones the response files give (des.c:38-194, aes.c:27-67, 299-322,
\* sha.c:26-129, 216-277).
KnownAnswers ==
    /\ des_pc = "done" /\ arg.encrypt /\ arg.key = DesAnswer.key /\ arg.block = DesAnswer.block =>
          out = DesAnswer.result
    /\ aes_pc = "done" /\ op = "encrypt" /\ in = WordsOfBytes(<<>>, 4) =>
          \A answer \in AesAnswers : k = KeyOf(answer) => res = WordsOfBytes(answer.result, 4)
    /\ hash_pc = "done" =>
          \E answer \in ShaAnswers : message = Padded(answer.msg) /\ md = answer.md
=============================================================================
