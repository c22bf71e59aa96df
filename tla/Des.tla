--------------------------------- MODULE Des ---------------------------------
(***************************************************************************)
(* des, src/crypto/des.c: the key schedule and the Feistel network, one    *)
(* step per loop body, over any tables.  A client makes a first call, then *)
(* a second one that decrypts (or encrypts) what the first one delivered,  *)
(* or that is given the complements of its key and block.                  *)
(* An n-bit number is a function from 1..n to bits, bit 1 the highest, so  *)
(* that the tables are used with the indices of the code.                  *)
(***************************************************************************)
EXTENDS Integers, Sequences

CONSTANTS IP, FP, E, P, PC1, PC2,   \* the permutation tables
          S,                        \* the substitution tables
          DesKeys, DesBlocks        \* the keys and blocks of the first call

Bits(n) == [1..n -> {0, 1}]

\* The only facts about the tables that the network relies on.
ASSUME DesTablesAssumption ==
    /\ IP \in [1..64 -> 1..64] /\ FP \in [1..64 -> 1..64]
    /\ \A j \in 1..64 : IP[FP[j]] = j /\ FP[IP[j]] = j
    /\ E \in [1..48 -> 1..32] /\ P \in [1..32 -> 1..32]
    /\ PC1 \in [1..56 -> 1..64] /\ PC2 \in [1..48 -> 1..56]
    /\ S \in [1..8 -> [0..3 -> [0..15 -> 0..15]]]

ASSUME DesInputsAssumption == DesKeys \subseteq Bits(64) /\ DesBlocks \subseteq Bits(64)

VARIABLES
    des_pc,     \* "call", "keys", "rounds", "done"
    arg,        \* key, block and encrypt of the call that runs
    i,          \* the index of the loop that runs
    c, d,       \* the halves of the key schedule
    rkey,       \* the round keys
    l, r,       \* the halves of the block
    out,        \* what the call returned
    trace,      \* history: the halves before and after each pass of a loop
    past        \* history: the first call, NoCall until it has returned

des_vars == <<des_pc, arg, i, c, d, rkey, l, r, out, trace, past>>

FEISTEL_ROUNDS == 16
NoCall == <<>>
NoTrace == [keys |-> <<>>, halves |-> <<>>]

----------------------------------------------------------------------------
(* The functions without a loop of their own state.                        *)

\* Equal bits give 0, different ones 1.
Xor(x, y) == [j \in DOMAIN x |-> IF x[j] = y[j] THEN 0 ELSE 1]
Complement(x) == [j \in DOMAIN x |-> 1 - x[j]]

des_permute(in, table) == [j \in DOMAIN table |-> in[table[j]]]

High(x, n) == [j \in 1..n |-> x[j]]
Low(x, n) == [j \in 1..n |-> x[n + j]]
Join(hi, lo, n) == [j \in 1..(2 * n) |-> IF j <= n THEN hi[j] ELSE lo[j - n]]

\* Substitution table k on the six bits of x from bit b + 1 on: bit n of the
\* four-bit result.
des_substitute(k, x, b, n) ==
    LET row == 2 * x[b + 1] + x[b + 6]
        col == 8 * x[b + 2] + 4 * x[b + 3] + 2 * x[b + 4] + x[b + 5]
    IN  (S[k][row][col] \div <<8, 4, 2, 1>>[n]) % 2

des_f(ki, x) ==
    LET exk == Xor(des_permute(x, E), ki)
        s_exk == [j \in 1..32 |->
                     LET k == (j - 1) \div 4
                     IN  des_substitute(k + 1, exk, 6 * k, ((j - 1) % 4) + 1)]
    IN  des_permute(s_exk, P)

ROT == <<1, 1, 2, 2, 2, 2, 2, 2, 1, 2, 2, 2, 2, 2, 2, 1>>

\* x << shift, without the bits that come in again at the other end.
RotateLeft_Shift(x, shift) ==
    [j \in 1..28 |-> IF j + shift <= 28 THEN x[j + shift] ELSE 0]
RotateLeft(x, shift) == [j \in 1..28 |-> x[((j - 1 + shift) % 28) + 1]]

\* The key of pass n of the network.
KeyOfPass_SameOrder(n) == n
KeyOfPass(n) == IF arg.encrypt THEN n ELSE FEISTEL_ROUNDS - 1 - n

----------------------------------------------------------------------------

DesInit ==
    /\ des_pc = "call" /\ arg = NoCall /\ i = 0
    /\ c = <<>> /\ d = <<>> /\ rkey = <<>> /\ l = <<>> /\ r = <<>>
    /\ out = <<>> /\ trace = NoTrace /\ past = NoCall

\* The entry of des, up to the loop of the key schedule.
Enter(key, block, encrypt) ==
    /\ des_pc' = "keys" /\ i' = 0
    /\ arg' = [key |-> key, block |-> block, encrypt |-> encrypt]
    /\ c' = High(des_permute(key, PC1), 28)
    /\ d' = Low(des_permute(key, PC1), 28)
    /\ rkey' = <<>> /\ l' = <<>> /\ r' = <<>> /\ out' = <<>>
    /\ trace' = [NoTrace EXCEPT !.keys = <<<<c', d'>>>>]

FirstCall ==
    /\ des_pc = "call"
    /\ \E key \in DesKeys, block \in DesBlocks, encrypt \in BOOLEAN :
          Enter(key, block, encrypt)
    /\ UNCHANGED past

\* The second call: the way back, or the complements.
SecondCall ==
    /\ des_pc = "done" /\ past = NoCall
    /\ past' = [arg |-> arg, rkey |-> rkey, out |-> out, trace |-> trace]
    /\ \/ Enter(arg.key, out, ~arg.encrypt)
       \/ Enter(Complement(arg.key), Complement(arg.block), arg.encrypt)

\* One pass of the loop of des_get_round_keys.
KeyRound ==
    /\ des_pc = "keys" /\ i < FEISTEL_ROUNDS
    /\ c' = RotateLeft(c, ROT[i + 1]) /\ d' = RotateLeft(d, ROT[i + 1])
    /\ trace' = [trace EXCEPT !.keys = Append(@, <<c', d'>>)]
    /\ rkey' = Append(rkey, des_permute(Join(c', d', 28), PC2))
    /\ i' = i + 1
    /\ UNCHANGED <<des_pc, arg, l, r, out, past>>

InitialPermutation ==
    /\ des_pc = "keys" /\ i = FEISTEL_ROUNDS
    /\ l' = High(des_permute(arg.block, IP), 32)
    /\ r' = Low(des_permute(arg.block, IP), 32)
    /\ trace' = [trace EXCEPT !.halves = <<<<l', r'>>>>]
    /\ des_pc' = "rounds" /\ i' = 0
    /\ UNCHANGED <<arg, c, d, rkey, out, past>>

\* One pass of the network.
Round ==
    /\ des_pc = "rounds" /\ i < FEISTEL_ROUNDS
    /\ r' = Xor(l, des_f(rkey[KeyOfPass(i) + 1], r))
    /\ l' = r
    /\ trace' = [trace EXCEPT !.halves = Append(@, <<l', r'>>)]
    /\ i' = i + 1
    /\ UNCHANGED <<des_pc, arg, c, d, rkey, out, past>>

preoutput == Join(r, l, 32)

FinalPermutation ==
    /\ des_pc = "rounds" /\ i = FEISTEL_ROUNDS
    /\ out' = des_permute(preoutput, FP)
    /\ des_pc' = "done"
    /\ UNCHANGED <<arg, i, c, d, rkey, l, r, trace, past>>

DesNext ==
    \/ FirstCall \/ SecondCall \/ KeyRound
    \/ InitialPermutation \/ Round \/ FinalPermutation

DesSpec == DesInit /\ [][DesNext]_des_vars

----------------------------------------------------------------------------
(* Properties.                                                             *)

\* Every number has the width of its C type's use: 28-bit key halves, 48-bit
\* round keys, 32-bit block halves, 64-bit results; each loop has made the
\* passes its index counts, and a finished call has made all sixteen.
DesTypeOK ==
    /\ des_pc \in {"call", "keys", "rounds", "done"} /\ i \in 0..FEISTEL_ROUNDS
    /\ des_pc # "call" =>
          /\ arg \in [key : Bits(64), block : Bits(64), encrypt : BOOLEAN]
          /\ c \in Bits(28) /\ d \in Bits(28) /\ rkey \in Seq(Bits(48))
          /\ Len(rkey) = (IF des_pc = "keys" THEN i ELSE FEISTEL_ROUNDS)
          /\ Len(trace.keys) = Len(rkey) + 1
    /\ des_pc \in {"rounds", "done"} =>
          /\ l \in Bits(32) /\ r \in Bits(32)
          /\ Len(trace.halves) = i + 1
    /\ des_pc = "done" => i = FEISTEL_ROUNDS /\ out \in Bits(64)

SecondDone == des_pc = "done" /\ past # NoCall

\* A call with the same key in the other direction gives back the block: the
\* round keys are taken from the other end and the halves are swapped once
\* more before the final permutation (des.c:283-294).
DesDecryptionInverts ==
    SecondDone /\ arg.key = past.arg.key /\ arg.encrypt # past.arg.encrypt
               /\ arg.block = past.out
       => out = past.arg.block

\* The complementation property of DES: no step depends on the bits of key or
\* block but by selecting and comparing them (des.c:214-260), so the
\* complements of key and block give the complement of the result.
DesComplementation ==
    SecondDone /\ arg.key = Complement(past.arg.key)
               /\ arg.encrypt = past.arg.encrypt
               /\ arg.block = Complement(past.arg.block)
       => out = Complement(past.out)
============================================================================
