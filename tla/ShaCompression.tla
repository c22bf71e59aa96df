---------------------------- MODULE ShaCompression ----------------------------
(***************************************************************************)
(* The main algorithm of sha256, src/crypto/sha.c lines 194-287: the       *)
(* message schedule word by word, the rounds one by one and the sums at    *)
(* the end of a block, on real 32-bit words, for messages padded as in Sha. *)
(* A word is the set of its bits that are 1, bit 0 the lowest.             *)
(***************************************************************************)
EXTENDS Integers, Sequences

CONSTANTS sha256_K, H_0,   \* the words of each round, the initial hash value
          Messages         \* padded messages: sequences of blocks of 64 bytes

HashWord == SUBSET (0..31)

ASSUME HashAssumption ==
    /\ sha256_K \in [0..63 -> HashWord] /\ H_0 \in [0..7 -> HashWord]
    /\ \A message \in Messages : message \in Seq([0..63 -> 0..255]) /\ Len(message) > 0

VARIABLES
    hash_pc,        \* "call", "schedule", "rounds" or "done"
    message, blk,   \* the blocks, and the one being compressed, from 1
    t,              \* the index of the loop that runs
    W,              \* the message schedule, as far as it is prepared
    work,           \* the working variables a..h, a first
    H               \* the hash value

hash_vars == <<hash_pc, message, blk, t, W, work, H>>

----------------------------------------------------------------------------
(* Words.                                                                  *)

sha256_xor(x, y) == (x \ y) \cup (y \ x)

\* The carry into bit n, and the sum without the carry out of bit 31.
sha256_add(x, y) ==
    LET carry[n \in 0..31] ==
            /\ n > 0
            /\ LET m == n - 1
               IN  (m \in x /\ m \in y) \/ ((m \in x \/ m \in y) /\ carry[m])
    IN  {n \in 0..31 : ((n \in x) # (n \in y)) # carry[n]}

sha256_SHR(x, n) == {b - n : b \in {m \in x : m >= n}}
sha256_ROTR(x, n) == {(b - n) % 32 : b \in x}

sha256_Ch(x, y, z) == sha256_xor(x \cap y, z \ x)
sha256_Maj(x, y, z) == sha256_xor(sha256_xor(x \cap y, x \cap z), y \cap z)

Xor3(x, y, z) == sha256_xor(sha256_xor(x, y), z)
sha256_eps0(x) == Xor3(sha256_ROTR(x, 2), sha256_ROTR(x, 13), sha256_ROTR(x, 22))
sha256_eps1(x) == Xor3(sha256_ROTR(x, 6), sha256_ROTR(x, 11), sha256_ROTR(x, 25))
sha256_sig0(x) == Xor3(sha256_ROTR(x, 7), sha256_ROTR(x, 18), sha256_SHR(x, 3))
sha256_sig1(x) == Xor3(sha256_ROTR(x, 17), sha256_ROTR(x, 19), sha256_SHR(x, 10))

\* Four bytes of the block, the first one highest.
WordOfBlock(n) ==
    {b \in 0..31 : (message[blk][4 * n + 3 - (b \div 8)] \div 2^(b % 8)) % 2 = 1}

----------------------------------------------------------------------------

HashInit ==
    /\ hash_pc = "call" /\ message = <<>> /\ blk = 1 /\ t = 0
    /\ W = <<>> /\ work = <<>> /\ H = <<>>

HashMessage ==
    /\ hash_pc = "call" /\ hash_pc' = "schedule"
    /\ message' \in Messages
    /\ H' = H_0 /\ blk' = 1 /\ t' = 0
    /\ UNCHANGED <<W, work>>

\* W[t]: a word of the block, or the sum of four words before it.
ScheduleWord ==
    /\ hash_pc = "schedule" /\ t < 64
    /\ LET W_t == IF t < 16 THEN WordOfBlock(t)
                  ELSE sha256_add(sha256_sig1(W[t - 2]),
                         sha256_add(W[t - 7], sha256_add(sha256_sig0(W[t - 15]), W[t - 16])))
       IN  W' = [n \in 0..t |-> IF n = t THEN W_t ELSE W[n]]
    /\ t' = t + 1
    /\ UNCHANGED <<hash_pc, message, blk, work, H>>

StartRounds ==
    /\ hash_pc = "schedule" /\ t = 64 /\ hash_pc' = "rounds"
    /\ work' = H /\ t' = 0
    /\ UNCHANGED <<message, blk, W, H>>

HashRound ==
    /\ hash_pc = "rounds" /\ t < 64
    /\ LET T1 == sha256_add(work[7], sha256_add(sha256_eps1(work[4]),
                   sha256_add(sha256_Ch(work[4], work[5], work[6]),
                              sha256_add(sha256_K[t], W[t]))))
           T2 == sha256_add(sha256_eps0(work[0]), sha256_Maj(work[0], work[1], work[2]))
       IN  work' = [n \in 0..7 |-> CASE n = 0 -> sha256_add(T1, T2)
                                     [] n = 4 -> sha256_add(work[3], T1)
                                     [] OTHER -> work[n - 1]]
    /\ t' = t + 1
    /\ UNCHANGED <<hash_pc, message, blk, W, H>>

\* The hash value of the next block starts from the sums, not from work alone.
FeedForward_Dropped == work
FeedForward == [n \in 0..7 |-> sha256_add(work[n], H[n])]

EndBlock ==
    /\ hash_pc = "rounds" /\ t = 64
    /\ H' = FeedForward
    /\ blk' = blk + 1 /\ t' = 0 /\ W' = <<>>
    /\ hash_pc' = IF blk < Len(message) THEN "schedule" ELSE "done"
    /\ UNCHANGED <<message, work>>

\* The digest: the bytes of H, the highest of each word first.
md == [n \in 1..32 |->
          LET byte(b) == IF b \in H[(n - 1) \div 4] THEN 2^(b % 8) ELSE 0
              low == 8 * (3 - ((n - 1) % 4))
          IN  byte(low) + byte(low + 1) + byte(low + 2) + byte(low + 3)
              + byte(low + 4) + byte(low + 5) + byte(low + 6) + byte(low + 7)]

HashNext ==
    \/ HashMessage \/ ScheduleWord \/ StartRounds \/ HashRound \/ EndBlock

HashSpec == HashInit /\ [][HashNext]_hash_vars

----------------------------------------------------------------------------
\* Every word is a word of 32 bits, the schedule is complete when the rounds
\* start, and no block is skipped.
HashTypeOK ==
    /\ hash_pc \in {"call", "schedule", "rounds", "done"} /\ t \in 0..64
    /\ hash_pc # "call" => H \in [0..7 -> HashWord] /\ blk \in 1..(Len(message) + 1)
    /\ hash_pc = "schedule" => t = 0 \/ DOMAIN W = 0..(t - 1)
    /\ hash_pc = "rounds" => W \in [0..63 -> HashWord] /\ work \in [0..7 -> HashWord]
    /\ hash_pc = "done" => blk = Len(message) + 1
===============================================================================
