--------------------------------- MODULE Aes ---------------------------------
(***************************************************************************)
(* aes_encrypt and aes_decrypt, src/crypto/aes.c: argument checks, key     *)
(* expansion word by word, the cipher and the equivalent inverse cipher    *)
(* round by round with their lookup tables, over any S-box and its         *)
(* inverse.  A client encrypts a block, then decrypts the result.          *)
(* A byte is the set of its bits that are 1, which makes ^ a difference of *)
(* sets and a polynomial the set of its exponents; byte 0 of a word is its *)
(* highest byte.                                                           *)
(***************************************************************************)
EXTENDS Integers, FiniteSets

CONSTANTS sbox, inv_sbox,        \* SubBytes and its inverse
          AesKeys, AesBlocks     \* what the client calls with

Byte == SUBSET (0..7)
Word == [0..3 -> Byte]
Block == [0..3 -> Word]

ASSUME SboxAssumption ==
    /\ sbox \in [Byte -> Byte] /\ inv_sbox \in [Byte -> Byte]
    /\ \A x \in Byte : inv_sbox[sbox[x]] = x

AES_LENGTHS == {4, 6, 8}

\* Keys of the three lengths, and of lengths that are refused.
ASSUME AesInputsAssumption ==
    /\ \A key \in AesKeys : key.Nk \in Nat /\ key.words \in [0..7 -> Word]
    /\ AesBlocks \subseteq Block

VARIABLES
    aes_pc,      \* "call", "expand", "eic", "start", "cipher", "inverse", "done"
    op,          \* "encrypt" or "decrypt"
    in, k,       \* the arguments
    rk,          \* the array of round keys
    kw, rcon,    \* the loop of key_expansion
    s, rnd,      \* the state and the round of either cipher
    res, err,    \* what the call wrote and returned
    rounds,      \* history: the state after each round
    rcons,       \* history: the values of rcon
    encrypted    \* history: the first call, once it has returned

aes_vars == <<aes_pc, op, in, k, rk, kw, rcon, s, rnd, res, err,
              rounds, rcons, encrypted>>

Nb == 4
EINVAL == 22

----------------------------------------------------------------------------
(* The field.                                                              *)

\* ^ of two bytes, of two words.
xor(x, y) == {b \in 0..7 : (b \in x) # (b \in y)}
xor_words(v, u) == [n \in 0..3 |-> xor(v[n], u[n])]

MOD_POLY == {0, 1, 3, 4}

x_times(a) ==
    LET shifted == {b + 1 : b \in a} \ {8}
    IN  IF 7 \in a THEN xor(shifted, MOD_POLY) ELSE shifted

\* a times each power of 2.
multiples(a) ==
    LET mul_p2[n \in 0..7] == IF n = 0 THEN a ELSE x_times(mul_p2[n - 1]) IN mul_p2

\* The sum of the multiples of a selected by the bits of b: a bit is 1 when an
\* odd number of them have it.
gf_mul(a, b) ==
    LET mul_p2 == multiples(a)
    IN  {bit \in 0..7 : Cardinality({n \in b : bit \in mul_p2[n]}) % 2 = 1}

\* The factors 0x02, 0x03, 0x0e, 0x0b, 0x0d and 0x09.
x2 == {1}
x3 == {0, 1}
xe == {1, 2, 3}
xb == {0, 1, 3}
xd == {0, 2, 3}
x9 == {0, 3}

\* The products of the two columns of factors, byte by byte: a fact about 256
\* bytes and no parameter.
ASSUME FieldAssumption ==
    \A b \in Byte :
       LET two == gf_mul(x2, b)
           three == gf_mul(x3, b)
           sum(p, q, u, v) == xor(xor(xor(gf_mul(p, two), gf_mul(q, b)), gf_mul(u, b)),
                                  gf_mul(v, three))
       IN  /\ sum(xe, xb, xd, x9) = b
           /\ sum(x9, xe, xb, xd) = {}
           /\ sum(xd, x9, xe, xb) = {}
           /\ sum(xb, xd, x9, xe) = {}

word(b0, b1, b2, b3) == [n \in 0..3 |-> <<b0, b1, b2, b3>>[n + 1]]

inv_mix_columns(v) ==
    LET row(p, q, u, t) == xor(xor(xor(gf_mul(p, v[0]), gf_mul(q, v[1])),
                                   gf_mul(u, v[2])), gf_mul(t, v[3]))
    IN  word(row(xe, xb, xd, x9), row(x9, xe, xb, xd),
             row(xd, x9, xe, xb), row(xb, xd, x9, xe))

\* aes_init: what SubBytes and MixColumns, or their inverses, do to one byte
\* in each of the four places of a column.
t0 == [x \in Byte |-> LET y == sbox[x] IN word(gf_mul(x2, y), y, y, gf_mul(x3, y))]
t1_Rotated == [x \in Byte |-> LET y == sbox[x]
                              IN  word(gf_mul(x2, y), gf_mul(x3, y), y, y)]
t1 == [x \in Byte |-> LET y == sbox[x] IN word(gf_mul(x3, y), gf_mul(x2, y), y, y)]
t2 == [x \in Byte |-> LET y == sbox[x] IN word(y, gf_mul(x3, y), gf_mul(x2, y), y)]
t3 == [x \in Byte |-> LET y == sbox[x] IN word(y, y, gf_mul(x3, y), gf_mul(x2, y))]

inverse_table(p, q, u, v) ==
    [x \in Byte |-> LET y == inv_sbox[x]
                    IN  word(gf_mul(p, y), gf_mul(q, y), gf_mul(u, y), gf_mul(v, y))]
t4 == inverse_table(xe, x9, xd, xb)
t5 == inverse_table(xb, xe, x9, xd)
t6 == inverse_table(xd, xb, xe, x9)
t7 == inverse_table(x9, xd, xb, xe)

----------------------------------------------------------------------------
(* The calls.                                                              *)

Zero == [n \in 0..3 |-> {}]

Nr == IF k.Nk = 4 THEN 10 ELSE IF k.Nk = 6 THEN 12 ELSE 14

AesInit ==
    /\ aes_pc = "call" /\ op = "none" /\ in = <<>> /\ k = <<>>
    /\ rk = <<>> /\ kw = 0 /\ rcon = {} /\ s = <<>> /\ rnd = 0
    /\ res = <<>> /\ err = 0 /\ rounds = <<>> /\ rcons = <<>>
    /\ encrypted = <<>>

Accepted_AnyLength(key) == TRUE
Accepted(key) == key.Nk \in AES_LENGTHS

\* The checks, and the first loop of key_expansion.
Begin(function, block, key) ==
    /\ op' = function /\ in' = block /\ k' = key
    /\ IF Accepted(key)
       THEN aes_pc' = "expand" /\ err' = 0
       ELSE aes_pc' = "done" /\ err' = EINVAL
    /\ rk' = [n \in 0..59 |-> IF n < key.Nk THEN key.words[n] ELSE Zero]
    /\ kw' = key.Nk /\ rcon' = {0}
    /\ rcons' = [n \in 0..60 |-> {0}]
    /\ s' = <<>> /\ rnd' = 0 /\ res' = <<>> /\ rounds' = <<>>

aes_encrypt ==
    /\ aes_pc = "call"
    /\ \E block \in AesBlocks, key \in AesKeys : Begin("encrypt", block, key)
    /\ UNCHANGED encrypted

aes_decrypt ==
    /\ aes_pc = "done" /\ op = "encrypt" /\ err = 0
    /\ encrypted' = [in |-> in, rk |-> rk, rcons |-> rcons, rounds |-> rounds, res |-> res]
    /\ Begin("decrypt", res, k)

\* One pass of the second loop of key_expansion.
SubWord(v) == [n \in 0..3 |-> sbox[v[n]]]
RotWord(v) == [n \in 0..3 |-> v[(n + 1) % 4]]

ExpandWord ==
    /\ aes_pc = "expand" /\ kw < Nb * (Nr + 1)
    /\ LET tmp == rk[kw - 1]
       IN  \/ /\ kw % k.Nk = 0
              /\ rk' = [rk EXCEPT ![kw] =
                   xor_words(rk[kw - k.Nk],
                             xor_words(SubWord(RotWord(tmp)), word(rcon, {}, {}, {})))]
              /\ rcon' = x_times(rcon)
           \/ /\ kw % k.Nk # 0
              /\ rk' = [rk EXCEPT ![kw] =
                   xor_words(rk[kw - k.Nk],
                             IF k.Nk = 8 /\ kw % k.Nk = 4 THEN SubWord(tmp) ELSE tmp)]
              /\ rcon' = rcon
    /\ kw' = kw + 1
    /\ rcons' = [rcons EXCEPT ![kw + 1] = rcon']
    /\ UNCHANGED <<aes_pc, op, in, k, s, rnd, res, err, rounds, encrypted>>

EndExpansion ==
    /\ aes_pc = "expand" /\ kw = Nb * (Nr + 1)
    /\ aes_pc' = IF op = "encrypt" THEN "start" ELSE "eic"
    /\ UNCHANGED <<op, in, k, rk, kw, rcon, s, rnd, res, err, rounds, rcons, encrypted>>

\* The loop of key_expansion_eic: the keys of the rounds between the first and
\* the last.
MixedKeys_LastToo == Nb .. (Nb * (Nr + 1) - 1)
MixedKeys == Nb .. (Nb * Nr - 1)

MixKeys ==
    /\ aes_pc = "eic" /\ aes_pc' = "start"
    /\ rk' = [n \in 0..59 |-> IF n \in MixedKeys THEN inv_mix_columns(rk[n]) ELSE rk[n]]
    /\ UNCHANGED <<op, in, k, kw, rcon, s, rnd, res, err, rounds, rcons, encrypted>>

\* The four words of the key of a round.
RoundKey(r) == [j \in 0..3 |-> rk[Nb * r + j]]
AddRoundKey(v, key) == [j \in 0..3 |-> xor_words(v[j], key[j])]

\* The first key: of round 0, or of the last one.
Start ==
    /\ aes_pc = "start"
    /\ \/ /\ op = "encrypt" /\ aes_pc' = "cipher" /\ rnd' = 1
          /\ s' = AddRoundKey(in, RoundKey(0))
          /\ rounds' = [n \in 0..13 |-> s']
       \/ /\ op = "decrypt" /\ aes_pc' = "inverse" /\ rnd' = Nr - 1
          /\ s' = AddRoundKey(in, RoundKey(Nr))
          /\ rounds' = rounds
    /\ UNCHANGED <<op, in, k, rk, kw, rcon, res, err, rcons, encrypted>>

xor4(a, b, c, d) == xor_words(xor_words(xor_words(a, b), c), d)

\* One round of cipher: each column takes its bytes from four columns.
CipherRound ==
    /\ aes_pc = "cipher" /\ rnd < Nr
    /\ LET t == [j \in 0..3 |-> xor4(t0[s[j][0]], t1[s[(j + 1) % 4][1]],
                                     t2[s[(j + 2) % 4][2]], t3[s[(j + 3) % 4][3]])]
       IN  s' = AddRoundKey(t, RoundKey(rnd))
    /\ rounds' = [rounds EXCEPT ![rnd] = s']
    /\ rnd' = rnd + 1
    /\ UNCHANGED <<aes_pc, op, in, k, rk, kw, rcon, res, err, rcons, encrypted>>

CipherEnd ==
    /\ aes_pc = "cipher" /\ rnd = Nr
    /\ LET t == [j \in 0..3 |-> [n \in 0..3 |-> sbox[s[(j + n) % 4][n]]]]
       IN  res' = AddRoundKey(t, RoundKey(Nr))
    /\ aes_pc' = "done"
    /\ UNCHANGED <<op, in, k, rk, kw, rcon, s, rnd, err, rounds, rcons, encrypted>>

\* One round of eq_inv_cipher: the columns turn the other way.
InverseRound ==
    /\ aes_pc = "inverse" /\ rnd > 0
    /\ LET t == [j \in 0..3 |-> xor4(t4[s[j][0]], t5[s[(j + 3) % 4][1]],
                                     t6[s[(j + 2) % 4][2]], t7[s[(j + 1) % 4][3]])]
       IN  s' = AddRoundKey(t, RoundKey(rnd))
    /\ rnd' = rnd - 1
    /\ UNCHANGED <<aes_pc, op, in, k, rk, kw, rcon, res, err, rounds, rcons, encrypted>>

InverseEnd ==
    /\ aes_pc = "inverse" /\ rnd = 0
    /\ LET t == [j \in 0..3 |-> [n \in 0..3 |-> inv_sbox[s[(j + 4 - n) % 4][n]]]]
       IN  res' = AddRoundKey(t, RoundKey(0))
    /\ aes_pc' = "done"
    /\ UNCHANGED <<op, in, k, rk, kw, rcon, s, rnd, err, rounds, rcons, encrypted>>

AesNext ==
    \/ aes_encrypt \/ aes_decrypt \/ ExpandWord \/ EndExpansion \/ MixKeys
    \/ Start \/ CipherRound \/ CipherEnd \/ InverseRound \/ InverseEnd

AesSpec == AesInit /\ [][AesNext]_aes_vars

----------------------------------------------------------------------------
(* FIPS 197, 5.1: the transformations of a round.                          *)

SubBytes(v) == [j \in 0..3 |-> [n \in 0..3 |-> sbox[v[j][n]]]]
ShiftRows(v) == [j \in 0..3 |-> [n \in 0..3 |-> v[(j + n) % 4][n]]]
MixColumn(v) ==
    [n \in 0..3 |-> xor(xor(gf_mul(x2, v[n]), gf_mul(x3, v[(n + 1) % 4])),
                        xor(v[(n + 2) % 4], v[(n + 3) % 4]))]
MixColumns(v) == [j \in 0..3 |-> MixColumn(v[j])]
FipsRound(v, key) == AddRoundKey(MixColumns(ShiftRows(SubBytes(v))), key)

----------------------------------------------------------------------------
(* Properties.                                                             *)

\* The words of the expanded key and the columns of the state are words, the
\* loops stay within their bounds, and a refused call has written nothing.
AesTypeOK ==
    aes_pc # "call" =>
       /\ in \in Block /\ k.Nk \in Nat /\ k.words \in [0..7 -> Word]
       /\ err \in {0, EINVAL} /\ rcon \in Byte
       /\ err = 0 <=> k.Nk \in AES_LENGTHS
       /\ err # 0 => aes_pc = "done" /\ res = <<>>
       /\ err = 0 =>
             /\ rk \in [0..59 -> Word]
             /\ kw \in k.Nk .. (Nb * (Nr + 1)) /\ rnd \in 0..Nr
             /\ aes_pc \in {"cipher", "inverse"} => s \in Block
             /\ aes_pc = "done" => res \in Block

\* Each round of cipher, done with four table lookups a column, is the round of
\* FIPS 197: ShiftRows after SubBytes, then MixColumns, then the round key; the
\* last one has no MixColumns (aes.c:229-246, 299-322).
EncryptIsFips ==
    /\ aes_pc \in {"cipher", "done"} /\ op = "encrypt" /\ err = 0 =>
          /\ rounds[0] = AddRoundKey(in, RoundKey(0))
          /\ \A r \in 1..(rnd - 1) : rounds[r] = FipsRound(rounds[r - 1], RoundKey(r))
    /\ aes_pc = "done" /\ op = "encrypt" /\ err = 0 =>
          res = AddRoundKey(ShiftRows(SubBytes(rounds[Nr - 1])), RoundKey(Nr))

\* aes_decrypt with the same key gives back the block: the equivalent inverse
\* cipher exchanges the mixing of columns and the adding of keys, which is
\* right only if exactly the inner round keys are mixed too (aes.c:185-201,
\* 258-293).
AesDecryptionInverts ==
    aes_pc = "done" /\ op = "decrypt" => err = 0 /\ res = encrypted.in
=============================================================================
