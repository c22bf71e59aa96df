----------------------------- MODULE CipherModes -----------------------------
(***************************************************************************)
(* aes_cbc_decrypt and aes_ctr_decrypt, src/crypto/aes_cbc.c and aes_ctr.c: *)
(* one block a step, over a memory of words in which the IV, the            *)
(* ciphertext and the plaintext may lie anywhere, one over the other too.   *)
(* The block cipher is any pair of functions, a word any number below W.    *)
(***************************************************************************)
EXTENDS Integers

CONSTANTS W,                  \* a word is one of W values: 2^32 in the code
          Xor(_, _),          \* ^ of two words
          Encrypt(_, _),      \* aes_encrypt and aes_decrypt of a key and a
          Decrypt(_, _),      \*   block, for a key they accept
          Keys, BadKeys,      \* the keys they accept, and those they refuse
          MemSize, Memories,  \* the words of the memory, and what they may hold
          Pointers, Sizes     \* what the client calls with

Word == 0..(W - 1)
Block == [0..3 -> Word]
Address == 1..MemSize
NULL == 0
NoKey == 0                    \* a null k or k->key

Nb == 4
BLK_SZ == 16
EINVAL == 22

ASSUME WordsAssumption ==
    /\ W \in Nat \ {0, 1}
    /\ \A x, y \in Word : Xor(x, y) \in Word

ASSUME CipherAssumption ==
    \A key \in Keys, blk \in Block : Encrypt(key, blk) \in Block /\ Decrypt(key, blk) \in Block

ASSUME ClientAssumption ==
    /\ MemSize \in Nat /\ Memories \subseteq [Address -> Word]
    /\ Pointers \subseteq Nat /\ Sizes \subseteq Nat
    /\ NoKey \notin Keys /\ Keys \cap BadKeys = {}

VARIABLES
    modes_pc,           \* "call", "cbc", "ctr" or "done"
    iv, ct, sz, pt, k,  \* the arguments
    mem,                \* the memory of the client
    i_blk,              \* blocks done
    blk_prev,           \* the ciphertext block before this one (CBC)
    iv_cpy,             \* the counter (CTR)
    ret,
    mode, before        \* history: which function, and the memory at the call

modes_vars == <<modes_pc, iv, ct, sz, pt, k, mem, i_blk, blk_prev, iv_cpy, ret,
                mode, before>>

----------------------------------------------------------------------------

Words(memory, address) == [j \in 0..3 |-> memory[address + j]]

\* Blocks the size stands for, a part of one counted or not.
CeilBlocks == (sz + BLK_SZ - 1) \div BLK_SZ
num_blk_RoundedUp == (sz + BLK_SZ - 1) \div BLK_SZ
num_blk == sz \div BLK_SZ

\* A buffer the client owns, in whole blocks.
Owned(pointer, size) ==
    pointer # NULL => pointer + Nb * ((size + BLK_SZ - 1) \div BLK_SZ) <= MemSize + 1

ModesInit ==
    /\ modes_pc = "call" /\ iv = NULL /\ ct = NULL /\ sz = 0 /\ pt = NULL /\ k = NoKey
    /\ mem \in Memories /\ i_blk = 0 /\ blk_prev = <<>> /\ iv_cpy = <<>> /\ ret = 0
    /\ mode = "none" /\ before = mem

Begin(function) ==
    /\ modes_pc = "call" /\ mode' = function /\ before' = mem
    /\ iv' \in Pointers /\ ct' \in Pointers /\ pt' \in Pointers /\ sz' \in Sizes
    /\ k' \in Keys \cup BadKeys \cup {NoKey}
    /\ Owned(iv', BLK_SZ) /\ Owned(ct', sz') /\ Owned(pt', sz')
    /\ IF iv' = NULL \/ ct' = NULL \/ sz' < BLK_SZ \/ pt' = NULL \/ k' = NoKey
       THEN /\ modes_pc' = "done" /\ ret' = EINVAL
            /\ UNCHANGED <<blk_prev, iv_cpy>>
       ELSE /\ modes_pc' = function /\ ret' = 0
            /\ blk_prev' = Words(mem, iv') /\ iv_cpy' = Words(mem, iv')
    /\ i_blk' = 0 /\ UNCHANGED mem

aes_cbc_decrypt == Begin("cbc")
aes_ctr_decrypt == Begin("ctr")

\* The ciphertext block is copied before the plaintext is written over it.
kept_AfterTheWrite == Words(mem', ct + Nb * i_blk)
kept == Words(mem, ct + Nb * i_blk)

CbcBlock ==
    /\ modes_pc = "cbc" /\ Nb * 4 * i_blk < sz
    /\ \/ /\ k \in Keys
          /\ LET plain == Decrypt(k, Words(mem, ct + Nb * i_blk))
                 there == pt + Nb * i_blk
             IN  mem' = [a \in Address |-> IF a \in there .. (there + 3)
                                           THEN Xor(plain[a - there], blk_prev[a - there])
                                           ELSE mem[a]]
          /\ blk_prev' = kept /\ i_blk' = i_blk + 1
          /\ UNCHANGED <<modes_pc, ret>>
       \/ /\ k \notin Keys
          /\ modes_pc' = "done" /\ ret' = 1
          /\ UNCHANGED <<mem, blk_prev, i_blk>>
    /\ UNCHANGED <<iv, ct, sz, pt, k, iv_cpy, mode, before>>

CbcEnd ==
    /\ modes_pc = "cbc" /\ Nb * 4 * i_blk >= sz
    /\ modes_pc' = "done"
    /\ UNCHANGED <<iv, ct, sz, pt, k, mem, i_blk, blk_prev, iv_cpy, ret, mode, before>>

\* ++iv_cpy[3], and so on while the word before it has become 0.
Increment_StopsAtTheSecond(c) ==
    [c EXCEPT ![3] = (c[3] + 1) % W, ![2] = IF c[3] = W - 1 THEN (c[2] + 1) % W ELSE c[2]]
Increment(c) ==
    [j \in 0..3 |-> IF \A m \in (j + 1)..3 : c[m] = W - 1
                    THEN (IF c[j] = W - 1 THEN 0 ELSE c[j] + 1)
                    ELSE c[j]]

\* pt[i_w + j] = ct[i_w + j] ^ iv_enc[j], for one j after the other.
PutWord(memory, j, iv_enc) ==
    LET i_w == Nb * i_blk
    IN  [memory EXCEPT ![pt + i_w + j] = Xor(memory[ct + i_w + j], iv_enc[j])]

CtrBlock ==
    /\ modes_pc = "ctr" /\ i_blk < num_blk
    /\ \/ /\ k \in Keys
          /\ LET iv_enc == Encrypt(k, iv_cpy)
                 put0 == PutWord(mem, 0, iv_enc)
                 put1 == PutWord(put0, 1, iv_enc)
                 put2 == PutWord(put1, 2, iv_enc)
             IN  mem' = PutWord(put2, 3, iv_enc)
          /\ iv_cpy' = Increment(iv_cpy) /\ i_blk' = i_blk + 1
          /\ UNCHANGED <<modes_pc, ret>>
       \/ /\ k \notin Keys
          /\ modes_pc' = "done" /\ ret' = EINVAL
          /\ UNCHANGED <<mem, iv_cpy, i_blk>>
    /\ UNCHANGED <<iv, ct, sz, pt, k, blk_prev, mode, before>>

CtrEnd ==
    /\ modes_pc = "ctr" /\ i_blk >= num_blk
    /\ modes_pc' = "done"
    /\ UNCHANGED <<iv, ct, sz, pt, k, mem, i_blk, blk_prev, iv_cpy, ret, mode, before>>

ModesNext ==
    \/ aes_cbc_decrypt \/ aes_ctr_decrypt
    \/ CbcBlock \/ CbcEnd \/ CtrBlock \/ CtrEnd

ModesSpec == ModesInit /\ [][ModesNext]_modes_vars

----------------------------------------------------------------------------
(* Properties.                                                             *)

\* The memory holds words, and a loop never goes past its last block.
ModesTypeOK ==
    /\ modes_pc \in {"call", "cbc", "ctr", "done"} /\ mem \in [Address -> Word]
    /\ i_blk \in 0..CeilBlocks /\ ret \in {0, 1, EINVAL}
    /\ modes_pc = "ctr" => iv_cpy \in Block /\ i_blk <= num_blk

\* The plaintext starts at the ciphertext or before it, or after its end.
InOrder(blocks) == pt <= ct \/ pt >= ct + Nb * blocks

\* SP 800-38A, 6.2, of the memory the caller passed: each block decrypted, plus
\* the ciphertext block before it or the IV, also when the plaintext is written
\* over the ciphertext, or over the IV (aes_cbc.c:28-54).
CbcDecrypts ==
    mode = "cbc" /\ modes_pc = "done" /\ ret = 0 /\ InOrder(CeilBlocks) =>
       \A i \in 0..(CeilBlocks - 1) :
          LET plain == Decrypt(k, Words(before, ct + Nb * i))
              prev == Words(before, IF i = 0 THEN iv ELSE ct + Nb * (i - 1))
          IN  Words(mem, pt + Nb * i) = [j \in 0..3 |-> Xor(plain[j], prev[j])]

\* A block as a number: word 0 is the highest.
Value(c) == ((c[0] * W + c[1]) * W + c[2]) * W + c[3]

\* SP 800-38A, 6.5, of the memory the caller passed: block i is added to the
\* encryption of the IV plus i modulo the number of blocks, carries included
\* (aes_ctr.c:27-53).
CtrDecrypts ==
    mode = "ctr" /\ modes_pc = "done" /\ ret = 0 /\ InOrder(num_blk) =>
       \A i \in 0..(num_blk - 1) : \E counter \in Block :
          /\ \E wraps \in 0..i :
                Value(Words(before, iv)) + i = Value(counter) + wraps * (W * W * W * W)
          /\ \A j \in 0..3 : mem[pt + Nb * i + j]
                = Xor(before[ct + Nb * i + j], Encrypt(k, counter)[j])

\* A call writes within the plaintext's size bytes, but for a CBC ciphertext that
\* is not a whole number of blocks, whose last block it writes whole; one that
\* fails has written nothing (aes_cbc.c:35-39, aes_ctr.c:35-39).
WritesStayInside ==
    /\ ret # 0 => mem = before
    /\ modes_pc # "call" =>
          \A a \in Address : mem[a] # before[a] =>
             /\ pt <= a /\ a < pt + Nb * CeilBlocks
             /\ 4 * (a + 1 - pt) <= sz \/ (mode = "cbc" /\ sz % BLK_SZ # 0)
=============================================================================
