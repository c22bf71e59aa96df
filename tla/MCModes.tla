------------------------------- MODULE MCModes -------------------------------
(***************************************************************************)
(* The modes of operation and week 2, on small instances: one of the two   *)
(* machines moves, the other stays where it started.                       *)
(***************************************************************************)
EXTENDS CipherModes, Week2

XorBit(x, y) == (x + y) % 2

\* A permutation of the sixteen blocks for each key, and its inverse.
EncryptBits(key, block) ==
    [j \in 0..3 |-> (block[(j + 1) % 4] + (IF j = 0 THEN block[2] * block[3] ELSE 0) + key) % 2]
DecryptBits(key, block) ==
    LET v == [j \in 0..3 |-> (block[j] + key) % 2]
        u == [j \in 0..3 |-> v[(j + 3) % 4]]
    IN  [u EXCEPT ![1] = (u[1] + u[2] * u[3]) % 2]

\* Counters that wrap, that carry over three words, and that carry over one.
MemoryPatterns ==
    {[a \in 1..MemSize |-> 1], [a \in 1..MemSize |-> IF a % 8 = 1 THEN 0 ELSE 1],
     [a \in 1..MemSize |-> a % 2], [a \in 1..MemSize |-> IF a < 4 THEN 0 ELSE ((a * a) \div 4) % 2]}

JointInit == ModesInit /\ Week2Init /\ (client = "main" \/ mem = [a \in 1..MemSize |-> 1])
JointNext ==
    \/ w2_pc = "parse" /\ client = "main" /\ problem = 1 /\ ModesNext /\ UNCHANGED week2_vars
    \/ modes_pc = "call" /\ Week2Next /\ UNCHANGED modes_vars
JointSpec == JointInit /\ [][JointNext]_<<modes_vars, week2_vars>>

\* The types of both.
ModesAndWeek2TypeOK == ModesTypeOK /\ Week2TypeOK
=============================================================================
