-------------------------- MODULE PrimitivesProofs --------------------------
(***************************************************************************)
(* des of src/crypto/des.c decrypts what it encrypts, and maps complements *)
(* to complements, for every key, every block and every tables whose       *)
(* initial and final permutation undo each other.  The invariant says      *)
(* which halves of the first call the second one has reached.              *)
(*                                                                         *)
(* aes_encrypt of src/crypto/aes.c is the cipher of FIPS 197, and          *)
(* aes_decrypt gives back what it was given, for every S-box and its       *)
(* inverse, every key and every block.  The equivalent inverse cipher      *)
(* mixes the columns before it adds a round key that is mixed too: that is *)
(* right because mixing is linear.                                         *)
(*                                                                         *)
(* The words of sha256 in src/crypto/sha.c are words of 32 bits, added     *)
(* modulo 2^32, every block of any message is compressed, and what is left *)
(* is the hash that FIPS 180-4 defines, for any constants and any initial  *)
(* hash value.                                                             *)
(***************************************************************************)
EXTENDS MCPrimitives, FiniteSetTheorems, NaturalsInduction, WellFoundedInduction, TLAPS

----------------------------------------------------------------------------
(* DES                                                                     *)

Halves(n) == Bits(n) \X Bits(n)

----------------------------------------------------------------------------
(* Bits.                                                                   *)

\* The functions return numbers of the widths of their tables.
LEMMA BitsXorType ==
    ASSUME NEW n \in Nat, NEW x \in Bits(n), NEW y
    PROVE  Xor(x, y) \in Bits(n)
BY DEF Xor, Bits

LEMMA ComplementType ==
    ASSUME NEW n \in Nat, NEW x \in Bits(n)
    PROVE  Complement(x) \in Bits(n) /\ DOMAIN x = 1..n
BY DEF Complement, Bits

LEMMA PermuteType ==
    ASSUME NEW m \in Nat, NEW n \in Nat, NEW x \in Bits(n),
           NEW table \in [1..m -> 1..n]
    PROVE  des_permute(x, table) \in Bits(m)
BY DEF des_permute, Bits

LEMMA SplitType ==
    ASSUME NEW n \in Nat, NEW x \in Bits(2 * n)
    PROVE  High(x, n) \in Bits(n) /\ Low(x, n) \in Bits(n)
BY DEF High, Low, Bits

LEMMA JoinType ==
    ASSUME NEW n \in Nat, NEW x \in Bits(n), NEW y \in Bits(n)
    PROVE  Join(x, y, n) \in Bits(2 * n)
BY DEF Join, Bits

LEMMA RotateType ==
    ASSUME NEW shift \in Nat, NEW x \in Bits(28)
    PROVE  RotateLeft(x, shift) \in Bits(28)
<1>1. \A j \in 1..28 : ((j - 1 + shift) % 28) + 1 \in 1..28
  OBVIOUS
<1> QED BY <1>1 DEF RotateLeft, Bits

LEMMA SubstituteType ==
    ASSUME NEW x \in Bits(48), NEW kn \in 0..7, NEW n \in 1..4
    PROVE  des_substitute(kn + 1, x, 6 * kn, n) \in {0, 1}
<1> DEFINE bit(j) == x[6 * kn + j]
           row == 2 * bit(1) + bit(6)
           col == 8 * bit(2) + 4 * bit(3) + 2 * bit(4) + bit(5)
<1>1. \A j \in 1..6 : bit(j) \in {0, 1}
  BY DEF Bits
<1>2. row \in 0..3 /\ col \in 0..15
  BY <1>1
<1>3. S[kn + 1][row][col] \in 0..15
  <2> HIDE DEF row, col
  <2> DEFINE table == kn + 1
  <2>1. table \in 1..8
    OBVIOUS
  <2>2. S[table] \in [0..3 -> [0..15 -> 0..15]]
    <3> HIDE DEF table
    <3> QED BY <2>1, DesTablesAssumption
  <2>3. S[kn + 1][row] \in [0..15 -> 0..15]
    BY <1>2, <2>2
  <2> QED BY <1>2, <2>3
<1> DEFINE v == S[kn + 1][row][col]
           w == <<8, 4, 2, 1>>[n]
<1>4. w \in {1, 2, 4, 8}
  OBVIOUS
<1>5. (v \div w) % 2 \in {0, 1}
  <2> HIDE DEF v, w
  <2>1. \A q \in Int : q % 2 \in {0, 1}
    OBVIOUS
  <2>2. v \div w \in Int
    BY <1>3, <1>4 DEF v
  <2> QED BY <2>1, <2>2
<1> QED BY <1>5 DEF des_substitute

LEMMA FType ==
    ASSUME NEW ki, NEW x \in Bits(32)
    PROVE  des_f(ki, x) \in Bits(32)
<1> DEFINE exk == Xor(des_permute(x, E), ki)
           s_exk == [j \in 1..32 |->
                        LET kn == (j - 1) \div 4
                        IN  des_substitute(kn + 1, exk, 6 * kn, ((j - 1) % 4) + 1)]
<1>1. exk \in Bits(48)
  BY PermuteType, BitsXorType, DesTablesAssumption
<1>2. \A j \in 1..32 : (j - 1) \div 4 \in 0..7 /\ ((j - 1) % 4) + 1 \in 1..4
  OBVIOUS
<1>3. s_exk \in Bits(32)
  <2> HIDE DEF exk
  <2> QED BY <1>1, <1>2, SubstituteType DEF Bits
<1> HIDE DEF s_exk
<1>4. des_permute(s_exk, P) \in Bits(32)
  BY <1>3, PermuteType, DesTablesAssumption
<1> QED BY <1>4 DEF des_f, s_exk

\* The same number, compared twice, changes nothing.
LEMMA BitsXorTwice ==
    ASSUME NEW n \in Nat, NEW x \in Bits(n), NEW y \in Bits(n)
    PROVE  Xor(Xor(x, y), y) = x
BY DEF Xor, Bits

LEMMA JoinHalves ==
    ASSUME NEW n \in Nat, NEW x \in Bits(2 * n)
    PROVE  Join(High(x, n), Low(x, n), n) = x
<1>1. \A j \in 1..(2 * n) : Join(High(x, n), Low(x, n), n)[j] = x[j]
  BY DEF Join, High, Low, Bits
<1> QED BY <1>1 DEF Join, Bits

LEMMA SplitJoin ==
    ASSUME NEW n \in Nat, NEW x \in Bits(n), NEW y \in Bits(n)
    PROVE  High(Join(x, y, n), n) = x /\ Low(Join(x, y, n), n) = y
BY DEF Join, High, Low, Bits

\* The initial and the final permutation undo each other, in either order.
LEMMA PermutationsInvert ==
    ASSUME NEW x \in Bits(64)
    PROVE  /\ des_permute(des_permute(x, IP), FP) = x
           /\ des_permute(des_permute(x, FP), IP) = x
<1>1. x = [j \in 1..64 |-> x[j]]
  BY DEF Bits
<1>2. \A j \in 1..64 : /\ IP[j] \in 1..64 /\ FP[j] \in 1..64
                       /\ IP[FP[j]] = j /\ FP[IP[j]] = j
  BY DesTablesAssumption
<1>3. DOMAIN IP = 1..64 /\ DOMAIN FP = 1..64
  BY DesTablesAssumption
<1>4. des_permute(des_permute(x, IP), FP) = [j \in 1..64 |-> x[j]]
  BY ONLY <1>2, <1>3 DEF des_permute
<1>5. des_permute(des_permute(x, FP), IP) = [j \in 1..64 |-> x[j]]
  BY ONLY <1>2, <1>3 DEF des_permute
<1> QED BY ONLY <1>1, <1>4, <1>5

----------------------------------------------------------------------------
(* Complements.                                                            *)

LEMMA ComplementTwice ==
    ASSUME NEW n \in Nat, NEW x \in Bits(n)
    PROVE  Complement(Complement(x)) = x
BY DEF Complement, Bits

LEMMA XorOfComplements ==
    ASSUME NEW n \in Nat, NEW x \in Bits(n), NEW y \in Bits(n)
    PROVE  /\ Xor(Complement(x), Complement(y)) = Xor(x, y)
           /\ Xor(Complement(x), y) = Complement(Xor(x, y))
BY DEF Xor, Complement, Bits

LEMMA PermuteOfComplement ==
    ASSUME NEW m \in Nat, NEW n \in Nat, NEW x \in Bits(n),
           NEW table \in [1..m -> 1..n]
    PROVE  des_permute(Complement(x), table) = Complement(des_permute(x, table))
BY DEF des_permute, Complement, Bits

LEMMA SplitOfComplement ==
    ASSUME NEW n \in Nat, NEW x \in Bits(2 * n)
    PROVE  /\ High(Complement(x), n) = Complement(High(x, n))
           /\ Low(Complement(x), n) = Complement(Low(x, n))
BY DEF High, Low, Complement, Bits

LEMMA JoinOfComplements ==
    ASSUME NEW n \in Nat, NEW x \in Bits(n), NEW y \in Bits(n)
    PROVE  Join(Complement(x), Complement(y), n) = Complement(Join(x, y, n))
BY DEF Join, Complement, Bits

LEMMA RotateOfComplement ==
    ASSUME NEW shift \in Nat, NEW x \in Bits(28)
    PROVE  RotateLeft(Complement(x), shift) = Complement(RotateLeft(x, shift))
<1>1. \A j \in 1..28 : ((j - 1 + shift) % 28) + 1 \in 1..28
  OBVIOUS
<1> QED BY <1>1 DEF RotateLeft, Complement, Bits

\* The complements of round key and half cancel before the substitutions.
LEMMA FOfComplements ==
    ASSUME NEW ki \in Bits(48), NEW x \in Bits(32)
    PROVE  des_f(Complement(ki), Complement(x)) = des_f(ki, x)
<1> DEFINE ex == des_permute(x, E)
<1>1. E \in [1..48 -> 1..32] /\ 48 \in Nat /\ 32 \in Nat
  BY DesTablesAssumption
<1>2. ex \in Bits(48)
  BY <1>1, PermuteType
<1>3. des_permute(Complement(x), E) = Complement(ex)
  BY <1>1, PermuteOfComplement
<1> HIDE DEF ex
<1>4. Xor(Complement(ex), Complement(ki)) = Xor(ex, ki)
  BY <1>1, <1>2, XorOfComplements
<1>5. Xor(des_permute(Complement(x), E), Complement(ki)) = Xor(des_permute(x, E), ki)
  BY <1>3, <1>4 DEF ex
<1> QED BY <1>5 DEF des_f

----------------------------------------------------------------------------
(* What a call does, as a function of its arguments.                       *)

FirstHalves(key) == <<High(des_permute(key, PC1), 28), Low(des_permute(key, PC1), 28)>>
Turn(kn, n) == <<RotateLeft(kn[1], ROT[n]), RotateLeft(kn[2], ROT[n])>>
PassKey(kn) == des_permute(Join(kn[1], kn[2], 28), PC2)

Opening(block) ==
    <<High(des_permute(block, IP), 32), Low(des_permute(block, IP), 32)>>
KeyNumber(a, n) == IF a.encrypt THEN n ELSE 17 - n
Pass(h, key) == <<h[2], Xor(h[1], des_f(key, h[2]))>>
DesResult(h) == des_permute(Join(h[2], h[1], 32), FP)

\* ks and rks are the key halves and round keys of a key, hs the block halves
\* of a call.
KeysOf(a, rks, ks) ==
    /\ ks[1] = FirstHalves(a.key)
    /\ \A n \in 1..Len(rks) : ks[n + 1] = Turn(ks[n], n) /\ rks[n] = PassKey(ks[n + 1])
HalvesOf(a, rks, hs) ==
    /\ hs[1] = Opening(a.block)
    /\ \A n \in 1..(Len(hs) - 1) : hs[n + 1] = Pass(hs[n], rks[KeyNumber(a, n)])

Calls == [key : Bits(64), block : Bits(64), encrypt : BOOLEAN]
Traces == [keys : Seq(Halves(28)), halves : Seq(Halves(32))]

\* The history of the call that runs.
Traced ==
    /\ des_pc = "call" => past = NoCall
    /\ des_pc # "call" =>
          /\ trace \in Traces
          /\ KeysOf(arg, rkey, trace.keys)
          /\ <<c, d>> = trace.keys[Len(rkey) + 1]
    /\ des_pc \in {"rounds", "done"} =>
          /\ HalvesOf(arg, rkey, trace.halves)
          /\ <<l, r>> = trace.halves[i + 1]
    /\ des_pc = "done" => out = DesResult(<<l, r>>)

\* The history of the first call, all of it.
Remembered ==
    past # NoCall =>
       /\ past.arg \in Calls /\ past.out \in Bits(64)
       /\ past.rkey \in Seq(Bits(48)) /\ Len(past.rkey) = 16
       /\ past.trace \in Traces
       /\ Len(past.trace.keys) = 17 /\ Len(past.trace.halves) = 17
       /\ KeysOf(past.arg, past.rkey, past.trace.keys)
       /\ HalvesOf(past.arg, past.rkey, past.trace.halves)
       /\ past.out = DesResult(past.trace.halves[17])

GoesBack ==
    /\ past # NoCall /\ arg.key = past.arg.key
    /\ arg.encrypt # past.arg.encrypt /\ arg.block = past.out

\* A second call that goes back has the keys of the first one, and after i
\* passes the halves the first one had i passes before its end, swapped.
Mirror ==
    GoesBack =>
       /\ \A n \in 1..(Len(rkey) + 1) : trace.keys[n] = past.trace.keys[n]
       /\ \A n \in 1..Len(rkey) : rkey[n] = past.rkey[n]
       /\ des_pc \in {"rounds", "done"} =>
             /\ l = past.trace.halves[17 - i][2]
             /\ r = past.trace.halves[17 - i][1]

GoesOpposite ==
    /\ past # NoCall /\ arg.key = Complement(past.arg.key)
    /\ arg.encrypt = past.arg.encrypt /\ arg.block = Complement(past.arg.block)

Opposites(h, kn) == h = <<Complement(kn[1]), Complement(kn[2])>>

\* One with the complements has the complements at every step.
Opposite ==
    GoesOpposite =>
       /\ \A n \in 1..(Len(rkey) + 1) : Opposites(trace.keys[n], past.trace.keys[n])
       /\ \A n \in 1..Len(rkey) : rkey[n] = Complement(past.rkey[n])
       /\ des_pc \in {"rounds", "done"} =>
             Opposites(<<l, r>>, past.trace.halves[i + 1])

DesIInv == DesTypeOK /\ Traced /\ Remembered /\ Mirror /\ Opposite

----------------------------------------------------------------------------
(* The steps of a call keep their types.                                   *)

LEMMA StartType ==
    ASSUME NEW key \in Bits(64) PROVE FirstHalves(key) \in Halves(28)
<1>1. des_permute(key, PC1) \in Bits(56)
  BY PermuteType, DesTablesAssumption
<1>2. 56 = 2 * 28
  OBVIOUS
<1> QED BY <1>1, <1>2, SplitType DEF FirstHalves, Halves

LEMMA TurnType ==
    ASSUME NEW kn \in Halves(28), NEW n \in 1..16
    PROVE  Turn(kn, n) \in Halves(28)
BY RotateType DEF Turn, Halves, ROT

LEMMA RoundKeyType ==
    ASSUME NEW kn \in Halves(28) PROVE PassKey(kn) \in Bits(48)
<1>1. Join(kn[1], kn[2], 28) \in Bits(56)
  BY JoinType DEF Halves
<1> QED BY <1>1, PermuteType, DesTablesAssumption DEF PassKey

LEMMA OpeningType ==
    ASSUME NEW block \in Bits(64) PROVE Opening(block) \in Halves(32)
<1>1. des_permute(block, IP) \in Bits(64)
  BY PermuteType, DesTablesAssumption
<1>2. 64 = 2 * 32
  OBVIOUS
<1> QED BY <1>1, <1>2, SplitType DEF Opening, Halves

LEMMA PassType ==
    ASSUME NEW h \in Halves(32), NEW key PROVE Pass(h, key) \in Halves(32)
BY BitsXorType DEF Pass, Halves

LEMMA ResultType ==
    ASSUME NEW h \in Halves(32) PROVE DesResult(h) \in Bits(64)
<1>1. Join(h[2], h[1], 32) \in Bits(64)
  BY JoinType DEF Halves
<1> QED BY <1>1, PermuteType, DesTablesAssumption DEF DesResult

----------------------------------------------------------------------------
(* Going back.                                                             *)

\* A pass with the same key undoes a pass, on swapped halves.
LEMMA PassBack ==
    ASSUME NEW h \in Halves(32), NEW key
    PROVE  LET p == Pass(h, key)
           IN  p[1] = h[2] /\ Xor(p[2], des_f(key, p[1])) = h[1]
<1>1. h[1] \in Bits(32) /\ h[2] \in Bits(32) /\ des_f(key, h[2]) \in Bits(32)
  BY FType DEF Halves
<1>2. Xor(Xor(h[1], des_f(key, h[2])), des_f(key, h[2])) = h[1]
  BY <1>1, BitsXorTwice
<1> QED BY <1>2 DEF Pass

\* The entry of the second call undoes the exit of the first.
LEMMA OpeningOfResult ==
    ASSUME NEW h \in Halves(32)
    PROVE  Opening(DesResult(h)) = <<h[2], h[1]>>
<1> DEFINE j == Join(h[2], h[1], 32)
<1>1. j \in Bits(64)
  BY JoinType DEF Halves
<1>2. des_permute(des_permute(j, FP), IP) = j
  <2> HIDE DEF j
  <2> QED BY <1>1, PermutationsInvert
<1>3. High(j, 32) = h[2] /\ Low(j, 32) = h[1]
  BY SplitJoin DEF Halves
<1> QED BY <1>2, <1>3 DEF Opening, DesResult

\* And its exit undoes the entry.
LEMMA ResultOfOpening ==
    ASSUME NEW block \in Bits(64)
    PROVE  DesResult(<<Opening(block)[2], Opening(block)[1]>>) = block
<1> DEFINE m == des_permute(block, IP)
<1>1. m \in Bits(64)
  BY PermuteType, DesTablesAssumption
<1>2. 64 = 2 * 32
  OBVIOUS
<1>3. Join(High(m, 32), Low(m, 32), 32) = m
  <2> HIDE DEF m
  <2> QED BY <1>1, <1>2, JoinHalves
<1>4. des_permute(m, FP) = block
  BY PermutationsInvert
<1> QED BY <1>3, <1>4 DEF Opening, DesResult

----------------------------------------------------------------------------
(* Complements, step by step.                                              *)

LEMMA OppositeStart ==
    ASSUME NEW key \in Bits(64)
    PROVE  Opposites(FirstHalves(Complement(key)), FirstHalves(key))
<1> DEFINE m == des_permute(key, PC1)
<1>1. m \in Bits(56) /\ des_permute(Complement(key), PC1) = Complement(m)
  <2>1. 56 \in Nat /\ 64 \in Nat /\ PC1 \in [1..56 -> 1..64]
    BY DesTablesAssumption
  <2>2. m \in Bits(56)
    BY <2>1, PermuteType
  <2>3. des_permute(Complement(key), PC1) = Complement(m)
    BY <2>1, PermuteOfComplement
  <2> QED BY <2>2, <2>3
<1> HIDE DEF m
<1>2. 56 = 2 * 28
  OBVIOUS
<1>3. /\ High(Complement(m), 28) = Complement(High(m, 28))
      /\ Low(Complement(m), 28) = Complement(Low(m, 28))
  BY <1>1, <1>2, SplitOfComplement
<1> QED BY <1>1, <1>3 DEF Opposites, FirstHalves, m

LEMMA OppositeOpening ==
    ASSUME NEW block \in Bits(64)
    PROVE  Opposites(Opening(Complement(block)), Opening(block))
<1> DEFINE m == des_permute(block, IP)
<1>1. m \in Bits(64) /\ des_permute(Complement(block), IP) = Complement(m)
  <2>1. 64 \in Nat /\ IP \in [1..64 -> 1..64]
    BY DesTablesAssumption
  <2>2. m \in Bits(64)
    BY <2>1, PermuteType
  <2>3. des_permute(Complement(block), IP) = Complement(m)
    BY <2>1, PermuteOfComplement
  <2> QED BY <2>2, <2>3
<1> HIDE DEF m
<1>2. 64 = 2 * 32
  OBVIOUS
<1>3. /\ High(Complement(m), 32) = Complement(High(m, 32))
      /\ Low(Complement(m), 32) = Complement(Low(m, 32))
  BY <1>1, <1>2, SplitOfComplement
<1> QED BY <1>1, <1>3 DEF Opposites, Opening, m

LEMMA OppositeTurn ==
    ASSUME NEW kn \in Halves(28), NEW h, NEW n \in 1..16, Opposites(h, kn)
    PROVE  Opposites(Turn(h, n), Turn(kn, n))
<1>1. ROT[n] \in Nat
  BY DEF ROT
<1>2. kn[1] \in Bits(28) /\ kn[2] \in Bits(28)
  BY DEF Halves
<1>3. \A x \in Bits(28) :
         RotateLeft(Complement(x), ROT[n]) = Complement(RotateLeft(x, ROT[n]))
  BY <1>1, RotateOfComplement
<1>4. h[1] = Complement(kn[1]) /\ h[2] = Complement(kn[2])
  BY DEF Opposites
<1> QED BY <1>2, <1>3, <1>4 DEF Opposites, Turn

LEMMA OppositeRoundKey ==
    ASSUME NEW kn \in Halves(28), NEW h, Opposites(h, kn)
    PROVE  PassKey(h) = Complement(PassKey(kn))
<1> DEFINE j == Join(kn[1], kn[2], 28)
<1>1. kn[1] \in Bits(28) /\ kn[2] \in Bits(28)
  BY DEF Halves
<1>2. Join(h[1], h[2], 28) = Complement(j)
  BY <1>1, JoinOfComplements DEF Opposites
<1>3. j \in Bits(56)
  BY <1>1, JoinType
<1>4. 56 \in Nat /\ 48 \in Nat /\ PC2 \in [1..48 -> 1..56]
  BY DesTablesAssumption
<1> HIDE DEF j
<1>5. des_permute(Complement(j), PC2) = Complement(des_permute(j, PC2))
  BY <1>3, <1>4, PermuteOfComplement
<1> QED BY <1>2, <1>5 DEF PassKey, j

LEMMA OppositePass ==
    ASSUME NEW kn \in Halves(32), NEW h, NEW key \in Bits(48), Opposites(h, kn)
    PROVE  Opposites(Pass(h, Complement(key)), Pass(kn, key))
<1>1. kn[1] \in Bits(32) /\ kn[2] \in Bits(32) /\ des_f(key, kn[2]) \in Bits(32)
  BY FType DEF Halves
<1>2. h[1] = Complement(kn[1]) /\ h[2] = Complement(kn[2])
  BY DEF Opposites
<1>3. des_f(Complement(key), h[2]) = des_f(key, kn[2])
  BY <1>1, <1>2, FOfComplements
<1>4. Xor(h[1], des_f(key, kn[2])) = Complement(Xor(kn[1], des_f(key, kn[2])))
  BY <1>1, <1>2, XorOfComplements
<1> QED BY <1>2, <1>3, <1>4 DEF Opposites, Pass

LEMMA OppositeResult ==
    ASSUME NEW kn \in Halves(32), NEW h, Opposites(h, kn)
    PROVE  DesResult(h) = Complement(DesResult(kn))
<1> DEFINE j == Join(kn[2], kn[1], 32)
<1>1. kn[1] \in Bits(32) /\ kn[2] \in Bits(32)
  BY DEF Halves
<1>2. Join(h[2], h[1], 32) = Complement(j)
  BY <1>1, JoinOfComplements DEF Opposites
<1>3. j \in Bits(64)
  BY <1>1, JoinType
<1>4. 64 \in Nat /\ FP \in [1..64 -> 1..64]
  BY DesTablesAssumption
<1> HIDE DEF j
<1>5. des_permute(Complement(j), FP) = Complement(des_permute(j, FP))
  BY <1>3, <1>4, PermuteOfComplement
<1> QED BY <1>2, <1>5 DEF DesResult, j

----------------------------------------------------------------------------
(* The invariant.                                                          *)

\* Adding to one sequence of the history.
LEMMA AppendSeq ==
    ASSUME NEW T, NEW q \in Seq(T), NEW e \in T
    PROVE  /\ Append(q, e) \in Seq(T) /\ Len(Append(q, e)) = Len(q) + 1
           /\ Append(q, e)[Len(q) + 1] = e
           /\ \A n \in 1..Len(q) : Append(q, e)[n] = q[n]
OBVIOUS

LEMMA KeysTrace ==
    ASSUME NEW z \in Traces, NEW ks \in Seq(Halves(28))
    PROVE  LET u == [z EXCEPT !.keys = ks]
           IN  u \in Traces /\ u.halves = z.halves /\ u.keys = ks
BY DEF Traces

LEMMA HalvesTrace ==
    ASSUME NEW z \in Traces, NEW hs \in Seq(Halves(32))
    PROVE  LET u == [z EXCEPT !.halves = hs]
           IN  u \in Traces /\ u.keys = z.keys /\ u.halves = hs
BY DEF Traces

\* Entering a call, first or second, starts a history.
LEMMA EnterTraced ==
    ASSUME NEW key \in Bits(64), NEW block \in Bits(64), NEW encrypt \in BOOLEAN,
           Enter(key, block, encrypt)
    PROVE  /\ DesTypeOK' /\ Traced'
           /\ arg' = [key |-> key, block |-> block, encrypt |-> encrypt]
           /\ des_pc' = "keys" /\ rkey' = << >>
           /\ trace' = [keys |-> <<FirstHalves(key)>>, halves |-> << >>]
<1>1. /\ des_pc' = "keys" /\ i' = 0 /\ rkey' = << >>
      /\ arg' = [key |-> key, block |-> block, encrypt |-> encrypt]
  BY DEF Enter
<1>2. /\ trace' = [keys |-> <<FirstHalves(key)>>, halves |-> << >>]
      /\ <<c', d'>> = FirstHalves(key)
  BY DEF Enter, FirstHalves, NoTrace
<1>3. c' \in Bits(28) /\ d' \in Bits(28) /\ FirstHalves(key) \in Halves(28)
  BY <1>2, StartType DEF Halves
<1>4. DesTypeOK'
  BY <1>1, <1>2, <1>3 DEF DesTypeOK, FEISTEL_ROUNDS
<1>5. trace' \in Traces
  BY <1>2, <1>3 DEF Traces
<1>6. Traced'
  BY <1>1, <1>2, <1>5 DEF Traced, KeysOf
<1> QED BY <1>1, <1>2, <1>4, <1>6

LEMMA KeyRoundTraced ==
    ASSUME DesTypeOK, Traced, KeyRound
    PROVE  /\ DesTypeOK' /\ Traced'
           /\ Len(rkey) \in 0..15 /\ Len(rkey') = Len(rkey) + 1
           /\ \A n \in 1..Len(rkey) : rkey'[n] = rkey[n]
           /\ \A n \in 1..(Len(rkey) + 1) : trace'.keys[n] = trace.keys[n]
<1>1. /\ des_pc = "keys" /\ i \in 0..15 /\ des_pc' = "keys" /\ i' = i + 1
      /\ arg' = arg /\ l' = l /\ r' = r /\ out' = out /\ past' = past
  BY DEF KeyRound, DesTypeOK, FEISTEL_ROUNDS
<1>2. /\ c \in Bits(28) /\ d \in Bits(28) /\ rkey \in Seq(Bits(48))
      /\ Len(rkey) = i /\ Len(trace.keys) = i + 1 /\ arg \in Calls
      /\ trace \in Traces /\ KeysOf(arg, rkey, trace.keys)
      /\ <<c, d>> = trace.keys[i + 1]
  BY <1>1 DEF DesTypeOK, Traced, Calls
<1>3. <<c', d'>> = Turn(<<c, d>>, i + 1)
  BY DEF KeyRound, Turn
<1>4. /\ rkey' = Append(rkey, PassKey(<<c', d'>>))
      /\ trace' = [trace EXCEPT !.keys = Append(trace.keys, <<c', d'>>)]
  BY DEF KeyRound, PassKey
<1>5. <<c', d'>> \in Halves(28) /\ PassKey(<<c', d'>>) \in Bits(48)
  <2>1. <<c, d>> \in Halves(28)
    <3>1. c \in Bits(28) /\ d \in Bits(28)
      BY <1>2
    <3> QED BY ONLY <3>1 DEF Halves
  <2>2. i + 1 \in 1..16
    <3>1. i \in 0..15
      BY <1>1
    <3> QED BY ONLY <3>1
  <2> QED BY <1>3, <2>1, <2>2, TurnType, RoundKeyType
<1>6. /\ rkey' \in Seq(Bits(48)) /\ Len(rkey') = i + 1
      /\ \A n \in 1..i : rkey'[n] = rkey[n]
      /\ rkey'[i + 1] = PassKey(<<c', d'>>)
  BY <1>1, <1>2, <1>4, <1>5
<1>7. /\ trace' \in Traces /\ Len(trace'.keys) = i + 2
      /\ \A n \in 1..(i + 1) : trace'.keys[n] = trace.keys[n]
      /\ trace'.keys[i + 2] = <<c', d'>>
  <2>1. trace.keys \in Seq(Halves(28)) /\ Len(trace.keys) + 1 = i + 2
    BY <1>1, <1>2 DEF Traces
  <2> DEFINE ks == Append(trace.keys, <<c', d'>>)
  <2>2. /\ ks \in Seq(Halves(28)) /\ Len(ks) = i + 2 /\ ks[i + 2] = <<c', d'>>
        /\ \A n \in 1..(i + 1) : ks[n] = trace.keys[n]
    BY <1>2, <1>5, <2>1, AppendSeq
  <2>3. trace' \in Traces /\ trace'.keys = ks
    <3> HIDE DEF ks
    <3> QED BY <1>2, <1>4, <2>2, KeysTrace DEF ks
  <2> QED BY <2>2, <2>3
<1>8. DesTypeOK'
  <2>1. c' \in Bits(28) /\ d' \in Bits(28)
    <3>1. <<c', d'>> \in Halves(28)
      BY <1>5
    <3> QED BY ONLY <3>1 DEF Halves
  <2> QED BY <1>1, <1>2, <1>6, <1>7, <2>1 DEF DesTypeOK, FEISTEL_ROUNDS, Calls
<1>9. KeysOf(arg, rkey', trace'.keys)
  <2>1. trace'.keys[1] = FirstHalves(arg.key)
    BY <1>1, <1>2, <1>7 DEF KeysOf
  <2>2. ASSUME NEW n \in 1..Len(rkey')
        PROVE  /\ trace'.keys[n + 1] = Turn(trace'.keys[n], n)
               /\ rkey'[n] = PassKey(trace'.keys[n + 1])
    <3>1. CASE n \in 1..i
      <4>1. n \in 1..Len(rkey) /\ n + 1 \in 1..(i + 1) /\ n \in 1..(i + 1)
        BY <1>1, <1>2, <3>1
      <4> QED BY <1>2, <1>6, <1>7, <3>1, <4>1 DEF KeysOf
    <3>2. CASE n = i + 1
      <4>1. n \in 1..(i + 1) /\ n + 1 = i + 2
        BY <1>1, <3>2
      <4> QED BY <1>2, <1>3, <1>6, <1>7, <3>2, <4>1
    <3> QED BY <1>1, <1>6, <3>1, <3>2
  <2> QED BY <2>1, <2>2 DEF KeysOf
<1>10. Traced'
  <2>1. des_pc' = "keys" /\ KeysOf(arg', rkey', trace'.keys)
    BY <1>1, <1>9
  <2>2. trace' \in Traces
    BY <1>7
  <2>3. <<c', d'>> = trace'.keys[Len(rkey') + 1]
    <3>1. Len(rkey') + 1 = i + 2
      BY <1>1, <1>6
    <3>2. <<c', d'>> = trace'.keys[i + 2]
      BY <1>7
    <3> QED BY ONLY <3>1, <3>2
  <2> HIDE DEF KeysOf, Traces
  <2> QED BY ONLY <2>1, <2>2, <2>3 DEF Traced
<1> QED BY <1>1, <1>2, <1>6, <1>7, <1>8, <1>10

LEMMA PermutationTraced ==
    ASSUME DesTypeOK, Traced, InitialPermutation
    PROVE  /\ DesTypeOK' /\ Traced'
           /\ <<l', r'>> = Opening(arg.block) /\ trace'.keys = trace.keys
<1>1. /\ des_pc = "keys" /\ i = 16 /\ des_pc' = "rounds" /\ i' = 0
      /\ UNCHANGED <<arg, c, d, rkey, out, past>>
      /\ <<l', r'>> = Opening(arg.block)
      /\ trace' = [trace EXCEPT !.halves = <<<<l', r'>>>>]
  BY DEF InitialPermutation, FEISTEL_ROUNDS, Opening
<1>2. arg.block \in Bits(64) /\ trace \in Traces
  BY <1>1 DEF DesTypeOK, Traced
<1>3. <<l', r'>> \in Halves(32)
  BY <1>1, <1>2, OpeningType
<1>4. /\ trace' \in Traces /\ trace'.keys = trace.keys
      /\ Len(trace'.halves) = 1 /\ trace'.halves[1] = <<l', r'>>
  <2> DEFINE hs == <<<<l', r'>>>>
  <2>1. hs \in Seq(Halves(32)) /\ Len(hs) = 1 /\ hs[1] = <<l', r'>>
    BY <1>3
  <2> HIDE DEF hs
  <2> QED BY <1>1, <1>2, <2>1, HalvesTrace DEF hs
<1>5. DesTypeOK'
  BY <1>1, <1>3, <1>4 DEF DesTypeOK, FEISTEL_ROUNDS, Halves
<1>6. HalvesOf(arg, rkey, trace'.halves)
  BY <1>1, <1>4 DEF HalvesOf
<1> QED BY <1>1, <1>4, <1>5, <1>6 DEF Traced

LEMMA RoundTraced ==
    ASSUME DesTypeOK, Traced, Round
    PROVE  /\ DesTypeOK' /\ Traced'
           /\ <<l', r'>> = Pass(<<l, r>>, rkey[KeyNumber(arg, i + 1)])
           /\ trace'.keys = trace.keys
<1>1. /\ des_pc = "rounds" /\ i \in 0..15 /\ des_pc' = "rounds" /\ i' = i + 1
      /\ UNCHANGED <<arg, c, d, rkey, out, past>>
  BY DEF Round, DesTypeOK, FEISTEL_ROUNDS
<1>2. /\ l \in Bits(32) /\ r \in Bits(32) /\ arg \in Calls
      /\ trace \in Traces /\ Len(trace.halves) = i + 1
      /\ HalvesOf(arg, rkey, trace.halves) /\ <<l, r>> = trace.halves[i + 1]
  <2>1. /\ l \in Bits(32) /\ r \in Bits(32) /\ arg \in Calls
        /\ Len(trace.halves) = i + 1
    BY ONLY DesTypeOK, <1>1 DEF DesTypeOK, Calls
  <2>2. /\ trace \in Traces /\ HalvesOf(arg, rkey, trace.halves)
        /\ <<l, r>> = trace.halves[i + 1]
    BY ONLY Traced, <1>1 DEF Traced
  <2> QED BY <2>1, <2>2
<1>3. KeyOfPass(i) + 1 = KeyNumber(arg, i + 1)
  BY <1>1, <1>2 DEF KeyOfPass, KeyNumber, FEISTEL_ROUNDS, Calls
<1>4. /\ <<l', r'>> = Pass(<<l, r>>, rkey[KeyNumber(arg, i + 1)])
      /\ trace' = [trace EXCEPT !.halves = Append(trace.halves, <<l', r'>>)]
  BY <1>3 DEF Round, Pass
<1>5. <<l', r'>> \in Halves(32)
  BY <1>2, <1>4, PassType DEF Halves
<1>6. /\ trace' \in Traces /\ trace'.keys = trace.keys
      /\ Len(trace'.halves) = i + 2 /\ trace'.halves[i + 2] = <<l', r'>>
      /\ \A n \in 1..(i + 1) : trace'.halves[n] = trace.halves[n]
  <2>1. trace.halves \in Seq(Halves(32)) /\ Len(trace.halves) + 1 = i + 2
    BY <1>1, <1>2 DEF Traces
  <2> DEFINE hs == Append(trace.halves, <<l', r'>>)
  <2>2. /\ hs \in Seq(Halves(32)) /\ Len(hs) = i + 2 /\ hs[i + 2] = <<l', r'>>
        /\ \A n \in 1..(i + 1) : hs[n] = trace.halves[n]
    BY <1>2, <1>5, <2>1, AppendSeq
  <2>3. trace' \in Traces /\ trace'.halves = hs /\ trace'.keys = trace.keys
    <3> HIDE DEF hs
    <3> QED BY <1>2, <1>4, <2>2, HalvesTrace DEF hs
  <2> QED BY <2>2, <2>3
<1>7. DesTypeOK'
  <2>1. l' \in Bits(32) /\ r' \in Bits(32)
    BY <1>5 DEF Halves
  <2>2. i' \in 0..16 /\ Len(trace'.halves) = i' + 1 /\ trace'.keys = trace.keys
    BY ONLY <1>1, <1>6
  <2>3. DesTypeOK => DesTypeOK'
    BY ONLY <1>1, <2>1, <2>2 DEF DesTypeOK, FEISTEL_ROUNDS
  <2> QED BY <2>3
<1>8. HalvesOf(arg, rkey, trace'.halves)
  <2>1. trace'.halves[1] = Opening(arg.block)
    BY <1>1, <1>2, <1>6 DEF HalvesOf
  <2>2. ASSUME NEW n \in 1..(i + 1)
        PROVE  trace'.halves[n + 1] = Pass(trace'.halves[n], rkey[KeyNumber(arg, n)])
    <3>1. CASE n = i + 1
      <4>1. n \in 1..(i + 1) /\ n + 1 = i + 2
        BY <1>1, <3>1
      <4>2. trace'.halves[n] = <<l, r>>
        BY <1>2, <1>6, <3>1, <4>1
      <4> QED BY <1>4, <1>6, <3>1, <4>1, <4>2
    <3>2. CASE n \in 1..i
      <4>1. i \in 0..15 /\ Len(trace.halves) = i + 1
        BY <1>1, <1>2
      <4>2. n \in 1..(Len(trace.halves) - 1) /\ n + 1 \in 1..(i + 1)
        BY ONLY <3>2, <4>1
      <4> QED BY <1>2, <1>6, <4>2 DEF HalvesOf
    <3> QED BY <1>1, <3>1, <3>2
  <2> QED BY <1>1, <1>6, <2>1, <2>2 DEF HalvesOf
<1>9. i' + 1 = i + 2
  BY <1>1
<1> QED BY <1>1, <1>4, <1>6, <1>7, <1>8, <1>9 DEF Traced

LEMMA FinalTraced ==
    ASSUME DesTypeOK, Traced, FinalPermutation
    PROVE  DesTypeOK' /\ Traced' /\ out' = DesResult(<<l, r>>)
<1>1. /\ des_pc = "rounds" /\ i = 16 /\ des_pc' = "done"
      /\ UNCHANGED <<arg, i, c, d, rkey, l, r, trace, past>>
      /\ out' = DesResult(<<l, r>>)
  BY DEF FinalPermutation, FEISTEL_ROUNDS, DesResult, preoutput
<1>2. out' \in Bits(64)
  BY <1>1, ResultType DEF DesTypeOK, Halves
<1>3. DesTypeOK'
  BY <1>1, <1>2 DEF DesTypeOK, FEISTEL_ROUNDS
<1> QED BY <1>1, <1>3 DEF Traced

\* The second call starts when the history of the first is complete.
LEMMA RememberedStep ==
    ASSUME DesTypeOK, Traced, Remembered, DesNext
    PROVE  Remembered'
<1>1. CASE SecondCall
  <2>1. /\ des_pc = "done"
        /\ past' = [arg |-> arg, rkey |-> rkey, out |-> out, trace |-> trace]
    BY <1>1 DEF SecondCall
  <2>2. /\ arg \in Calls /\ out \in Bits(64) /\ rkey \in Seq(Bits(48))
        /\ Len(rkey) = 16 /\ Len(trace.keys) = 17 /\ i = 16
        /\ Len(trace.halves) = 17
    <3>1. i = 16 /\ out \in Bits(64) /\ Len(trace.halves) = i + 1
      BY <2>1 DEF DesTypeOK, FEISTEL_ROUNDS
    <3>2. /\ arg \in Calls /\ rkey \in Seq(Bits(48)) /\ Len(rkey) = 16
          /\ Len(trace.keys) = Len(rkey) + 1
      BY <2>1 DEF DesTypeOK, Calls, FEISTEL_ROUNDS
    <3> QED BY <3>1, <3>2
  <2>3. /\ trace \in Traces /\ KeysOf(arg, rkey, trace.keys)
        /\ HalvesOf(arg, rkey, trace.halves)
        /\ out = DesResult(trace.halves[17])
    <3>1. i + 1 = 17
      BY <2>2
    <3> QED BY <2>1, <3>1 DEF Traced
  <2>4. /\ past'.arg = arg /\ past'.rkey = rkey /\ past'.out = out
        /\ past'.trace = trace
    BY <2>1
  <2> QED BY <2>2, <2>3, <2>4 DEF Remembered
<1>2. CASE past' = past
  BY <1>2 DEF Remembered
<1> QED
  BY <1>1, <1>2 DEF DesNext, FirstCall, KeyRound, InitialPermutation, Round,
                    FinalPermutation

\* What the second call starts from.
LEMMA SecondCallStarts ==
    ASSUME DesTypeOK, Traced, SecondCall
    PROVE  /\ DesTypeOK' /\ Traced' /\ rkey' = << >> /\ des_pc' = "keys"
           /\ trace'.keys = <<FirstHalves(arg'.key)>>
           /\ arg' \in Calls
<1>1. arg \in Calls /\ out \in Bits(64)
  BY DEF SecondCall, DesTypeOK, Calls
<1>2. CASE Enter(arg.key, out, ~arg.encrypt)
  <2>1. /\ arg.key \in Bits(64) /\ (~arg.encrypt) \in BOOLEAN
    BY <1>1 DEF Calls
  <2>2. /\ DesTypeOK' /\ Traced' /\ rkey' = << >> /\ des_pc' = "keys"
        /\ arg' = [key |-> arg.key, block |-> out, encrypt |-> ~arg.encrypt]
        /\ trace' = [keys |-> <<FirstHalves(arg.key)>>, halves |-> << >>]
    BY <1>1, <1>2, <2>1, EnterTraced
  <2> QED BY <1>1, <2>1, <2>2 DEF Calls
<1>3. CASE Enter(Complement(arg.key), Complement(arg.block), arg.encrypt)
  <2>1. Complement(arg.key) \in Bits(64) /\ Complement(arg.block) \in Bits(64)
    BY <1>1, ComplementType DEF Calls
  <2>2. arg.encrypt \in BOOLEAN
    BY <1>1 DEF Calls
  <2>3. /\ DesTypeOK' /\ Traced' /\ rkey' = << >> /\ des_pc' = "keys"
        /\ arg' = [key |-> Complement(arg.key), block |-> Complement(arg.block),
                   encrypt |-> arg.encrypt]
        /\ trace' = [keys |-> <<FirstHalves(Complement(arg.key))>>, halves |-> << >>]
    BY <1>3, <2>1, <2>2, EnterTraced
  <2> QED BY <2>1, <2>2, <2>3 DEF Calls
<1> QED BY <1>2, <1>3 DEF SecondCall

\* What the history of the first call says of one pass of each loop.
LEMMA SeqElement ==
    ASSUME NEW T, NEW q \in Seq(T), NEW n \in 1..Len(q)
    PROVE  q[n] \in T
OBVIOUS

LEMMA PastKeys ==
    ASSUME Remembered, past # NoCall, NEW kn \in 1..16
    PROVE  /\ past.trace.keys[kn + 1] = Turn(past.trace.keys[kn], kn)
           /\ past.rkey[kn] = PassKey(past.trace.keys[kn + 1])
           /\ past.trace.keys[kn] \in Halves(28)
           /\ past.trace.keys[kn + 1] \in Halves(28)
           /\ past.rkey[kn] \in Bits(48)
<1> DEFINE ks == past.trace.keys
           rks == past.rkey
<1>1. /\ ks \in Seq(Halves(28)) /\ Len(ks) = 17
      /\ rks \in Seq(Bits(48)) /\ Len(rks) = 16
  BY DEF Remembered, Traces
<1>2. \A n \in 1..Len(rks) : ks[n + 1] = Turn(ks[n], n) /\ rks[n] = PassKey(ks[n + 1])
  BY DEF Remembered, KeysOf
<1> HIDE DEF ks, rks
<1>3. kn \in 1..Len(ks) /\ kn + 1 \in 1..Len(ks) /\ kn \in 1..Len(rks)
  BY <1>1
<1>4. ks[kn] \in Halves(28) /\ ks[kn + 1] \in Halves(28) /\ rks[kn] \in Bits(48)
  BY <1>1, <1>3, SeqElement
<1> QED BY <1>2, <1>3, <1>4 DEF ks, rks

LEMMA PastHalves ==
    ASSUME Remembered, past # NoCall, NEW n \in 1..16
    PROVE  /\ past.trace.halves[n + 1] =
                 Pass(past.trace.halves[n], past.rkey[KeyNumber(past.arg, n)])
           /\ past.trace.halves[n] \in Halves(32)
<1> DEFINE hs == past.trace.halves
<1>1. hs \in Seq(Halves(32)) /\ Len(hs) = 17
  BY DEF Remembered, Traces
<1>2. \A m \in 1..(Len(hs) - 1) :
         hs[m + 1] = Pass(hs[m], past.rkey[KeyNumber(past.arg, m)])
  BY DEF Remembered, HalvesOf
<1> HIDE DEF hs
<1>3. n \in 1..Len(hs) /\ n \in 1..(Len(hs) - 1)
  BY <1>1
<1>4. hs[n] \in Halves(32)
  BY <1>1, <1>3, SeqElement
<1> QED BY <1>2, <1>3, <1>4 DEF hs

LEMMA MirrorStep ==
    ASSUME DesIInv, Remembered', DesNext
    PROVE  Mirror'
<1> SUFFICES ASSUME GoesBack'
             PROVE  /\ \A n \in 1..(Len(rkey') + 1) : trace'.keys[n] = past'.trace.keys[n]
                    /\ \A n \in 1..Len(rkey') : rkey'[n] = past'.rkey[n]
                    /\ des_pc' \in {"rounds", "done"} =>
                          /\ l' = past'.trace.halves[17 - i'][2]
                          /\ r' = past'.trace.halves[17 - i'][1]
  BY DEF Mirror
<1>1. DesTypeOK /\ Traced /\ Remembered /\ Mirror
  BY DEF DesIInv
<1>2. CASE FirstCall
  BY <1>1, <1>2 DEF FirstCall, GoesBack, Traced
<1>3. CASE SecondCall
  <2>1. rkey' = << >> /\ des_pc' = "keys" /\ trace'.keys = <<FirstHalves(arg'.key)>>
    BY <1>1, <1>3, SecondCallStarts
  <2>2. past'.trace.keys[1] = FirstHalves(arg'.key)
    BY DEF Remembered, GoesBack, KeysOf
  <2> QED BY <2>1, <2>2
<1>4. CASE KeyRound
  <2>1. past' = past /\ arg' = arg /\ des_pc' = "keys"
    BY <1>4 DEF KeyRound
  <2>2. GoesBack
    BY <2>1 DEF GoesBack
  <2>3. /\ \A n \in 1..(Len(rkey) + 1) : trace.keys[n] = past.trace.keys[n]
        /\ \A n \in 1..Len(rkey) : rkey[n] = past.rkey[n]
    BY <1>1, <2>2 DEF Mirror
  <2> DEFINE kn == Len(rkey) + 1
  <2>4. /\ Traced' /\ Len(rkey) \in 0..15 /\ Len(rkey') = kn
        /\ \A n \in 1..Len(rkey) : rkey'[n] = rkey[n]
        /\ \A n \in 1..kn : trace'.keys[n] = trace.keys[n]
    BY <1>1, <1>4, KeyRoundTraced
  <2>5. trace'.keys[kn + 1] = Turn(trace'.keys[kn], kn) /\ rkey'[kn] = PassKey(trace'.keys[kn + 1])
    BY <2>1, <2>4 DEF Traced, KeysOf
  <2>6. /\ past.trace.keys[kn + 1] = Turn(past.trace.keys[kn], kn)
        /\ past.rkey[kn] = PassKey(past.trace.keys[kn + 1])
    <3>1. kn \in 1..16
      <4>1. \A m \in 0..15 : m + 1 \in 1..16
        OBVIOUS
      <4> QED BY <2>4, <4>1
    <3> HIDE DEF kn
    <3> QED BY <1>1, <2>2, <3>1, PastKeys DEF GoesBack
  <2>7. trace'.keys[kn + 1] = past.trace.keys[kn + 1] /\ rkey'[kn] = past.rkey[kn]
    BY <2>3, <2>4, <2>5, <2>6
  <2>8. \A n \in 1..(Len(rkey') + 1) : n \in 1..(Len(rkey) + 1) \/ n = kn + 1
    BY <2>4
  <2>9. \A n \in 1..Len(rkey') : n \in 1..Len(rkey) \/ n = kn
    BY <2>4
  <2> HIDE DEF kn
  <2> QED BY <2>1, <2>3, <2>4, <2>7, <2>8, <2>9 DEF kn
<1>5. CASE InitialPermutation
  <2>1. past' = past /\ arg' = arg /\ rkey' = rkey /\ i' = 0
    BY <1>5 DEF InitialPermutation
  <2>2. GoesBack
    BY <2>1 DEF GoesBack
  <2>3. <<l', r'>> = Opening(arg.block) /\ trace'.keys = trace.keys
    BY <1>1, <1>5, PermutationTraced
  <2> DEFINE h == past.trace.halves[17]
  <2>4. h \in Halves(32) /\ arg.block = DesResult(h)
    BY <1>1, <2>2 DEF Remembered, GoesBack, Traces
  <2>5. <<l', r'>> = <<h[2], h[1]>>
    <3> HIDE DEF h
    <3> QED BY <2>3, <2>4, OpeningOfResult
  <2> QED BY <1>1, <2>1, <2>2, <2>3, <2>5 DEF Mirror
<1>6. CASE Round
  <2>1. /\ past' = past /\ arg' = arg /\ rkey' = rkey /\ i' = i + 1
        /\ des_pc = "rounds" /\ i \in 0..15
    BY <1>1, <1>6 DEF Round, DesTypeOK, FEISTEL_ROUNDS
  <2>2. GoesBack
    BY <2>1 DEF GoesBack
  <2>3. /\ <<l', r'>> = Pass(<<l, r>>, rkey[KeyNumber(arg, i + 1)])
        /\ trace'.keys = trace.keys
    BY <1>1, <1>6, RoundTraced
  <2> DEFINE n == 16 - i
             h == past.trace.halves[n]
             key == past.rkey[KeyNumber(past.arg, n)]
             p == past.trace.halves[n + 1]
  <2>4. n \in 1..16 /\ n + 1 = 17 - i /\ n = 17 - (i + 1)
    BY <2>1
  <2>5. h \in Halves(32) /\ p = Pass(h, key)
    <3> HIDE DEF n
    <3> QED BY <1>1, <2>2, <2>4, PastHalves DEF GoesBack
  <2>6. l = p[2] /\ r = p[1]
    BY <1>1, <2>1, <2>2, <2>4 DEF Mirror
  <2>7. rkey[KeyNumber(arg, i + 1)] = key
    <3>1. arg \in Calls /\ Len(rkey) = 16
      BY <1>1, <2>1 DEF DesTypeOK, Calls, FEISTEL_ROUNDS
    <3>2. past.arg \in Calls /\ arg.encrypt # past.arg.encrypt
      BY <1>1, <2>2 DEF Remembered, GoesBack
    <3>3. KeyNumber(arg, i + 1) = KeyNumber(past.arg, n) /\ KeyNumber(past.arg, n) \in 1..16
      BY <2>4, <2>1, <3>1, <3>2 DEF KeyNumber, Calls
    <3> QED BY <1>1, <2>2, <3>1, <3>3 DEF Mirror
  <2> HIDE DEF n, h, key, p
  <2>8. <<l', r'>> = <<r, Xor(l, des_f(key, r))>>
    BY <2>3, <2>7 DEF Pass
  <2>9. l' = h[2] /\ r' = h[1]
    BY <2>5, <2>6, <2>8, PassBack
  <2>10. h = past.trace.halves[17 - (i + 1)]
    BY <2>4 DEF h
  <2> QED BY <1>1, <2>1, <2>2, <2>3, <2>9, <2>10 DEF Mirror
<1>7. CASE FinalPermutation
  BY <1>1, <1>7 DEF FinalPermutation, GoesBack, Mirror
<1> QED BY <1>2, <1>3, <1>4, <1>5, <1>6, <1>7 DEF DesNext

LEMMA OppositeStep ==
    ASSUME DesIInv, Remembered', DesNext
    PROVE  Opposite'
<1> SUFFICES ASSUME GoesOpposite'
             PROVE  /\ \A n \in 1..(Len(rkey') + 1) :
                          Opposites(trace'.keys[n], past'.trace.keys[n])
                    /\ \A n \in 1..Len(rkey') : rkey'[n] = Complement(past'.rkey[n])
                    /\ des_pc' \in {"rounds", "done"} =>
                          Opposites(<<l', r'>>, past'.trace.halves[i' + 1])
  BY DEF Opposite
<1>1. DesTypeOK /\ Traced /\ Remembered /\ Opposite
  BY DEF DesIInv
<1>2. CASE FirstCall
  BY <1>1, <1>2 DEF FirstCall, GoesOpposite, Traced
<1>3. CASE SecondCall
  <2>1. rkey' = << >> /\ des_pc' = "keys" /\ trace'.keys = <<FirstHalves(arg'.key)>>
    BY <1>1, <1>3, SecondCallStarts
  <2>2. /\ past'.trace.keys[1] = FirstHalves(past'.arg.key) /\ past'.arg.key \in Bits(64)
        /\ arg'.key = Complement(past'.arg.key)
    BY DEF Remembered, GoesOpposite, KeysOf, Calls
  <2>3. Opposites(FirstHalves(arg'.key), past'.trace.keys[1])
    BY <2>2, OppositeStart
  <2> QED BY <2>1, <2>3
<1>4. CASE KeyRound
  <2>1. past' = past /\ arg' = arg /\ des_pc' = "keys"
    BY <1>4 DEF KeyRound
  <2>2. GoesOpposite
    BY <2>1 DEF GoesOpposite
  <2>3. /\ \A n \in 1..(Len(rkey) + 1) : Opposites(trace.keys[n], past.trace.keys[n])
        /\ \A n \in 1..Len(rkey) : rkey[n] = Complement(past.rkey[n])
    BY <1>1, <2>2 DEF Opposite
  <2> DEFINE kn == Len(rkey) + 1
  <2>4. /\ Traced' /\ Len(rkey) \in 0..15 /\ Len(rkey') = kn
        /\ \A n \in 1..Len(rkey) : rkey'[n] = rkey[n]
        /\ \A n \in 1..kn : trace'.keys[n] = trace.keys[n]
    BY <1>1, <1>4, KeyRoundTraced
  <2>5. trace'.keys[kn + 1] = Turn(trace'.keys[kn], kn) /\ rkey'[kn] = PassKey(trace'.keys[kn + 1])
    BY <2>1, <2>4 DEF Traced, KeysOf
  <2>6. /\ past.trace.keys[kn + 1] = Turn(past.trace.keys[kn], kn)
        /\ past.rkey[kn] = PassKey(past.trace.keys[kn + 1])
        /\ past.trace.keys[kn] \in Halves(28) /\ past.trace.keys[kn + 1] \in Halves(28)
    <3>1. kn \in 1..16
      <4>1. \A m \in 0..15 : m + 1 \in 1..16
        OBVIOUS
      <4> QED BY <2>4, <4>1
    <3> HIDE DEF kn
    <3> QED BY <1>1, <2>2, <3>1, PastKeys DEF GoesOpposite
  <2>7. kn \in 1..16 /\ Opposites(trace'.keys[kn], past.trace.keys[kn])
    <3>1. kn \in 1..16 /\ kn \in 1..(Len(rkey) + 1)
      <4>1. \A m \in 0..15 : m + 1 \in 1..16 /\ m + 1 \in 1..(m + 1)
        OBVIOUS
      <4> QED BY <2>4, <4>1
    <3>2. trace'.keys[kn] = trace.keys[kn] /\ Opposites(trace.keys[kn], past.trace.keys[kn])
      <4> HIDE DEF kn
      <4> QED BY <2>3, <2>4, <3>1
    <3> QED BY <3>1, <3>2
  <2> HIDE DEF kn
  <2>8. Opposites(trace'.keys[kn + 1], past.trace.keys[kn + 1])
    BY <2>5, <2>6, <2>7, OppositeTurn
  <2>9. rkey'[kn] = Complement(past.rkey[kn])
    BY <2>5, <2>6, <2>8, OppositeRoundKey
  <2>10. \A n \in 1..(Len(rkey') + 1) : n \in 1..(Len(rkey) + 1) \/ n = kn + 1
    BY <2>4 DEF kn
  <2>11. \A n \in 1..Len(rkey') : n \in 1..Len(rkey) \/ n = kn
    BY <2>4 DEF kn
  <2> QED BY <2>1, <2>3, <2>4, <2>8, <2>9, <2>10, <2>11 DEF kn
<1>5. CASE InitialPermutation
  <2>1. past' = past /\ arg' = arg /\ rkey' = rkey /\ i' = 0
    BY <1>5 DEF InitialPermutation
  <2>2. GoesOpposite
    BY <2>1 DEF GoesOpposite
  <2>3. <<l', r'>> = Opening(arg.block) /\ trace'.keys = trace.keys
    BY <1>1, <1>5, PermutationTraced
  <2>4. /\ past.arg.block \in Bits(64) /\ arg.block = Complement(past.arg.block)
        /\ past.trace.halves[1] = Opening(past.arg.block)
    BY <1>1, <2>2 DEF Remembered, GoesOpposite, HalvesOf, Calls
  <2>5. Opposites(<<l', r'>>, past.trace.halves[1])
    BY <2>3, <2>4, OppositeOpening
  <2> QED BY <1>1, <2>1, <2>2, <2>3, <2>5 DEF Opposite
<1>6. CASE Round
  <2>1. /\ past' = past /\ arg' = arg /\ rkey' = rkey /\ i' = i + 1
        /\ des_pc = "rounds" /\ i \in 0..15
    BY <1>1, <1>6 DEF Round, DesTypeOK, FEISTEL_ROUNDS
  <2>2. GoesOpposite
    BY <2>1 DEF GoesOpposite
  <2>3. /\ <<l', r'>> = Pass(<<l, r>>, rkey[KeyNumber(arg, i + 1)])
        /\ trace'.keys = trace.keys
    BY <1>1, <1>6, RoundTraced
  <2> DEFINE n == i + 1
             h == past.trace.halves[n]
             key == past.rkey[KeyNumber(past.arg, n)]
  <2>4. /\ h \in Halves(32) /\ past.trace.halves[n + 1] = Pass(h, key)
    <3>1. n \in 1..16
      BY <2>1
    <3> HIDE DEF n
    <3> QED BY <1>1, <2>2, <3>1, PastHalves DEF GoesOpposite
  <2>5. Opposites(<<l, r>>, h)
    BY <1>1, <2>1, <2>2 DEF Opposite
  <2>6. KeyNumber(arg, n) = KeyNumber(past.arg, n) /\ KeyNumber(past.arg, n) \in 1..16
    BY <1>1, <2>1, <2>2 DEF KeyNumber, GoesOpposite, Remembered, Calls
  <2>7. rkey[KeyNumber(arg, n)] = Complement(key) /\ key \in Bits(48)
    <3>1. Len(rkey) = 16
      BY <1>1, <2>1 DEF DesTypeOK, FEISTEL_ROUNDS
    <3> DEFINE m == KeyNumber(past.arg, n)
    <3>2. m \in 1..16 /\ KeyNumber(arg, n) = m
      BY <2>6
    <3> HIDE DEF m
    <3>3. past.rkey[m] \in Bits(48)
      BY <1>1, <2>2, <3>2, PastKeys DEF GoesOpposite
    <3>4. rkey[m] = Complement(past.rkey[m])
      BY <1>1, <2>2, <3>1, <3>2 DEF Opposite
    <3> QED BY <3>2, <3>3, <3>4 DEF m
  <2> HIDE DEF h, key
  <2>8. Opposites(Pass(<<l, r>>, Complement(key)), Pass(h, key))
    BY <2>4, <2>5, <2>7, OppositePass
  <2>9. Opposites(<<l', r'>>, past.trace.halves[n + 1])
    BY <2>3, <2>4, <2>7, <2>8
  <2> QED BY <1>1, <2>1, <2>2, <2>3, <2>9 DEF Opposite
<1>7. CASE FinalPermutation
  BY <1>1, <1>7 DEF FinalPermutation, GoesOpposite, Opposite
<1> QED BY <1>2, <1>3, <1>4, <1>5, <1>6, <1>7 DEF DesNext

----------------------------------------------------------------------------
(* The theorems.                                                           *)

LEMMA DesInitInv == DesInit => DesIInv
BY DEF DesInit, DesIInv, DesTypeOK, Traced, Remembered, Mirror, GoesBack,
       Opposite, GoesOpposite, FEISTEL_ROUNDS

LEMMA DesStep == DesIInv /\ [DesNext]_des_vars => DesIInv'
<1>1. ASSUME DesIInv, [DesNext]_des_vars PROVE DesIInv'
  <2>1. CASE DesNext
    <3>1. DesTypeOK /\ Traced /\ Remembered
      BY <1>1 DEF DesIInv
    <3>2. DesTypeOK' /\ Traced'
      <4>1. CASE FirstCall
        <5>1. PICK key \in DesKeys, block \in DesBlocks, encrypt \in BOOLEAN :
                 Enter(key, block, encrypt)
          BY <4>1 DEF FirstCall
        <5>2. key \in Bits(64) /\ block \in Bits(64)
          BY DesInputsAssumption
        <5> QED BY <5>1, <5>2, EnterTraced
      <4> QED BY <2>1, <3>1, <4>1, SecondCallStarts, KeyRoundTraced, PermutationTraced,
                 RoundTraced, FinalTraced DEF DesNext
    <3>3. Remembered'
      BY <2>1, <3>1, RememberedStep
    <3> QED BY <1>1, <2>1, <3>2, <3>3, MirrorStep, OppositeStep DEF DesIInv
  <2>2. CASE UNCHANGED des_vars
    BY <1>1, <2>2 DEF des_vars, DesIInv, DesTypeOK, Traced, Remembered, Mirror, GoesBack,
       Opposite, GoesOpposite, KeysOf, HalvesOf, KeyNumber
  <2> QED BY <1>1, <2>1, <2>2
<1> QED BY <1>1

LEMMA DesInvariant == DesSpec => []DesIInv
BY DesInitInv, DesStep, PTL DEF DesSpec

\* Numbers have the widths of their tables, and every call makes sixteen
\* passes of both loops (des.c:246-290).
THEOREM DesTypeCorrect == DesSpec => []DesTypeOK
<1>1. DesIInv => DesTypeOK
  BY DEF DesIInv
<1> QED BY <1>1, DesInvariant, PTL

\* For every key and block, and any tables whose initial and final permutation
\* undo each other, a call in the other direction gives back the block: what
\* des promises of decryption (des.c:262-295).
THEOREM DecryptionInverts == DesSpec => []DesDecryptionInverts
<1>1. ASSUME DesIInv PROVE DesDecryptionInverts
  <2> SUFFICES ASSUME des_pc = "done", GoesBack
               PROVE  out = past.arg.block
    BY DEF DesDecryptionInverts, SecondDone, GoesBack
  <2> DEFINE h == past.trace.halves[1]
  <2>1. i = 16 /\ out = DesResult(<<l, r>>)
    BY <1>1 DEF DesIInv, DesTypeOK, Traced, FEISTEL_ROUNDS
  <2>2. 17 - i = 1
    BY <2>1
  <2>3. l = h[2] /\ r = h[1]
    BY <1>1, <2>2 DEF DesIInv, Mirror
  <2>4. h = Opening(past.arg.block) /\ past.arg.block \in Bits(64)
    BY <1>1 DEF DesIInv, Remembered, GoesBack, HalvesOf, Calls
  <2> QED BY <2>1, <2>3, <2>4, ResultOfOpening
<1> QED BY <1>1, DesInvariant, PTL

\* And the complements of key and block give the complement of the result, under
\* the same assumptions (des.c:214-295).
THEOREM ComplementsAreComplementary == DesSpec => []DesComplementation
<1>1. ASSUME DesIInv PROVE DesComplementation
  <2> SUFFICES ASSUME des_pc = "done", GoesOpposite
               PROVE  out = Complement(past.out)
    BY DEF DesComplementation, SecondDone, GoesOpposite
  <2> DEFINE h == past.trace.halves[17]
  <2>1. i = 16 /\ out = DesResult(<<l, r>>)
    BY <1>1 DEF DesIInv, DesTypeOK, Traced, FEISTEL_ROUNDS
  <2>2. i + 1 = 17
    BY <2>1
  <2>3. Opposites(<<l, r>>, h)
    BY <1>1, <2>2 DEF DesIInv, Opposite
  <2>4. h \in Halves(32) /\ past.out = DesResult(h)
    <3>1. /\ past.trace.halves \in Seq(Halves(32)) /\ Len(past.trace.halves) = 17
          /\ past.out = DesResult(h)
      BY <1>1 DEF DesIInv, Remembered, GoesOpposite, Traces
    <3>2. 17 \in 1..Len(past.trace.halves)
      BY <3>1
    <3> QED BY <3>1, <3>2, SeqElement
  <2> HIDE DEF h
  <2> QED BY <2>1, <2>3, <2>4, OppositeResult
<1> QED BY <1>1, DesInvariant, PTL

----------------------------------------------------------------------------
(* AES                                                                     *)

(* Sums.                                                                   *)

\* A sum of bytes is a byte, and its terms may be taken in any order.
LEMMA XorType ==
    ASSUME NEW x, NEW y
    PROVE  xor(x, y) \in Byte
BY DEF xor, Byte

LEMMA XorMember ==
    ASSUME NEW x, NEW y, NEW b
    PROVE  b \in xor(x, y) <=> b \in 0..7 /\ (b \in x <=> ~(b \in y))
BY DEF xor

LEMMA XorCommutes ==
    ASSUME NEW x, NEW y
    PROVE  xor(x, y) = xor(y, x)
BY DEF xor

LEMMA XorAssociates ==
    ASSUME NEW x, NEW y, NEW z
    PROVE  xor(xor(x, y), z) = xor(x, xor(y, z))
BY DEF xor

LEMMA XorZero ==
    ASSUME NEW x \in Byte
    PROVE  xor(x, {}) = x
<1>1. x \in SUBSET (0..7)
  BY DEF Byte
<1>2. \A b : b \in xor(x, {}) <=> b \in x
  BY <1>1, XorMember
<1> QED BY <1>2

LEMMA XorSelf ==
    ASSUME NEW x
    PROVE  xor(x, x) = {}
BY DEF xor

LEMMA XorTwice ==
    ASSUME NEW x \in Byte, NEW y
    PROVE  xor(xor(x, y), y) = x
<1>1. xor(xor(x, y), y) = xor(x, xor(y, y))
  BY XorAssociates
<1> QED BY <1>1, XorSelf, XorZero

LEMMA XorExchange ==
    ASSUME NEW x, NEW y, NEW z, NEW w
    PROVE  xor(xor(x, y), xor(z, w)) = xor(xor(x, z), xor(y, w))
BY XorAssociates, XorCommutes

\* The sum of four bytes, in the order of the code.
Sum4(x, y, z, w) == xor(xor(xor(x, y), z), w)

LEMMA Sum4Xor ==
    ASSUME NEW x, NEW y, NEW z, NEW w, NEW a, NEW b, NEW cs, NEW ds
    PROVE  xor(Sum4(x, y, z, w), Sum4(a, b, cs, ds))
              = Sum4(xor(x, a), xor(y, b), xor(z, cs), xor(w, ds))
<1>1. xor(Sum4(x, y, z, w), Sum4(a, b, cs, ds))
         = xor(xor(xor(xor(x, y), z), xor(xor(a, b), cs)), xor(w, ds))
  BY XorExchange DEF Sum4
<1>2. xor(xor(xor(x, y), z), xor(xor(a, b), cs))
         = xor(xor(xor(x, y), xor(a, b)), xor(z, cs))
  BY XorExchange
<1>3. xor(xor(x, y), xor(a, b)) = xor(xor(x, a), xor(y, b))
  BY XorExchange
<1> QED BY <1>1, <1>2, <1>3 DEF Sum4

LEMMA Sum4Rotates ==
    ASSUME NEW x, NEW y, NEW z, NEW w
    PROVE  Sum4(x, y, z, w) = Sum4(y, z, w, x)
BY XorAssociates, XorCommutes DEF Sum4

\* The sum of a square of bytes by rows is its sum by columns.
LEMMA SumOfSums ==
    ASSUME NEW p1, NEW p2, NEW p3, NEW p4, NEW y1, NEW y2, NEW y3, NEW y4,
           NEW z1, NEW z2, NEW z3, NEW z4, NEW w1, NEW w2, NEW w3, NEW w4
    PROVE  Sum4(Sum4(p1, p2, p3, p4), Sum4(y1, y2, y3, y4),
                Sum4(z1, z2, z3, z4), Sum4(w1, w2, w3, w4))
              = Sum4(Sum4(p1, y1, z1, w1), Sum4(p2, y2, z2, w2),
                     Sum4(p3, y3, z3, w3), Sum4(p4, y4, z4, w4))
<1> DEFINE A == Sum4(xor(p1, y1), xor(p2, y2), xor(p3, y3), xor(p4, y4))
           B == Sum4(xor(xor(p1, y1), z1), xor(xor(p2, y2), z2),
                     xor(xor(p3, y3), z3), xor(xor(p4, y4), z4))
<1>1. xor(Sum4(p1, p2, p3, p4), Sum4(y1, y2, y3, y4)) = A
  BY Sum4Xor
<1>2. xor(A, Sum4(z1, z2, z3, z4)) = B
  BY Sum4Xor
<1>3. xor(B, Sum4(w1, w2, w3, w4))
         = Sum4(Sum4(p1, y1, z1, w1), Sum4(p2, y2, z2, w2),
                Sum4(p3, y3, z3, w3), Sum4(p4, y4, z4, w4))
  <2>1. \A x, y, z, w, a, b, cs, ds :
          xor(Sum4(x, y, z, w), Sum4(a, b, cs, ds))
             = Sum4(xor(x, a), xor(y, b), xor(z, cs), xor(w, ds))
    BY Sum4Xor
  <2>2. xor(B, Sum4(w1, w2, w3, w4))
           = Sum4(xor(xor(xor(p1, y1), z1), w1), xor(xor(xor(p2, y2), z2), w2),
                  xor(xor(xor(p3, y3), z3), w3), xor(xor(xor(p4, y4), z4), w4))
    BY <2>1
  <2> QED BY <2>2 DEF Sum4
<1> QED BY <1>1, <1>2, <1>3 DEF Sum4

----------------------------------------------------------------------------
(* Products.                                                               *)

LEMMA ProductType ==
    ASSUME NEW a, NEW b
    PROVE  gf_mul(a, b) \in Byte
BY DEF gf_mul, Byte

\* How many of two sets an element is in, by parity.
LEMMA ParityOfXor ==
    ASSUME NEW A, NEW B, IsFiniteSet(A), IsFiniteSet(B)
    PROVE  LET C == (A \cup B) \ (A \cap B)
           IN  (Cardinality(C) % 2 = 1)
                  <=> ((Cardinality(A) % 2 = 1) # (Cardinality(B) % 2 = 1))
<1> DEFINE C == (A \cup B) \ (A \cap B)
           a == Cardinality(A)
           b == Cardinality(B)
           both == Cardinality(A \cap B)
<1>1. IsFiniteSet(A \cup B) /\ Cardinality(A \cup B) = a + b - both
  BY FS_Union
<1>2. Cardinality(C) = Cardinality(A \cup B) - Cardinality((A \cup B) \cap (A \cap B))
  BY <1>1, FS_Difference
<1>3. (A \cup B) \cap (A \cap B) = A \cap B
  OBVIOUS
<1>4. Cardinality(C) = a + b - 2 * both
  <2>1. a \in Nat /\ b \in Nat
    BY FS_CardinalityType
  <2>2. IsFiniteSet(A \cap B)
    BY FS_Subset, A \cap B \in SUBSET A
  <2>3. both \in Nat
    BY <2>2, FS_CardinalityType
  <2> HIDE DEF C, a, b, both
  <2>4. Cardinality(A \cap B) = both
    BY DEF both
  <2>5. Cardinality(C) = Cardinality(A \cup B) - both
    BY <1>2, <1>3, <2>4
  <2>6. Cardinality(A \cup B) = a + b - both
    BY <1>1
  <2> QED BY <2>1, <2>3, <2>5, <2>6
<1>5. a \in Nat /\ b \in Nat /\ both \in Nat
  BY FS_CardinalityType, FS_Subset, A \cap B \in SUBSET A
<1>6. \A p, q, rd \in Nat : (p + q - 2 * rd) % 2 = 1 <=> ((p % 2 = 1) # (q % 2 = 1))
  OBVIOUS
<1> HIDE DEF C, a, b, both
<1>7. (Cardinality(C) % 2 = 1) <=> ((a % 2 = 1) # (b % 2 = 1))
  BY <1>4, <1>5, <1>6
<1> QED BY <1>7 DEF C, a, b

\* A product is linear in the byte whose bits select the multiples.
LEMMA ProductOfSum ==
    ASSUME NEW a, NEW x \in Byte, NEW y \in Byte
    PROVE  gf_mul(a, xor(x, y)) = xor(gf_mul(a, x), gf_mul(a, y))
<1> DEFINE M == multiples(a)
           Selected(b, bit) == {n \in b : bit \in M[n]}
<1>1. ASSUME NEW bit \in 0..7
      PROVE  (Cardinality(Selected(xor(x, y), bit)) % 2 = 1)
                <=> ((Cardinality(Selected(x, bit)) % 2 = 1)
                        # (Cardinality(Selected(y, bit)) % 2 = 1))
  <2> DEFINE A == Selected(x, bit)
             B == Selected(y, bit)
  <2>1. IsFiniteSet(0..7)
    BY FS_Interval, 0 \in Int, 7 \in Int
  <2>2. IsFiniteSet(A) /\ IsFiniteSet(B)
    <3>1. A \in SUBSET (0..7) /\ B \in SUBSET (0..7)
      BY DEF Byte
    <3> QED BY <2>1, <3>1, FS_Subset
  <2>3. Selected(xor(x, y), bit) = (A \cup B) \ (A \cap B)
    <3>1. x \in SUBSET (0..7) /\ y \in SUBSET (0..7)
      BY DEF Byte
    <3>2. \A n : n \in Selected(xor(x, y), bit) <=> n \in (A \cup B) \ (A \cap B)
      BY <3>1, XorMember
    <3> HIDE DEF A, B, Selected
    <3> QED BY <3>2
  <2> HIDE DEF A, B
  <2>4. (Cardinality((A \cup B) \ (A \cap B)) % 2 = 1)
           <=> ((Cardinality(A) % 2 = 1) # (Cardinality(B) % 2 = 1))
    BY <2>2, ParityOfXor
  <2> QED BY <2>3, <2>4 DEF A, B
<1>2. \A b : gf_mul(a, b) = {bit \in 0..7 : Cardinality(Selected(b, bit)) % 2 = 1}
  BY DEF gf_mul
<1> HIDE DEF Selected
<1>3. gf_mul(a, xor(x, y)) = {bit \in 0..7 : Cardinality(Selected(xor(x, y), bit)) % 2 = 1}
  BY <1>2
<1>4. xor(gf_mul(a, x), gf_mul(a, y))
         = {bit \in 0..7 : (Cardinality(Selected(x, bit)) % 2 = 1)
                              # (Cardinality(Selected(y, bit)) % 2 = 1)}
  BY <1>2 DEF xor
<1> QED BY <1>1, <1>3, <1>4

LEMMA ProductOfSum4 ==
    ASSUME NEW a, NEW x \in Byte, NEW y \in Byte, NEW z \in Byte, NEW w \in Byte
    PROVE  gf_mul(a, Sum4(x, y, z, w))
              = Sum4(gf_mul(a, x), gf_mul(a, y), gf_mul(a, z), gf_mul(a, w))
<1>1. xor(x, y) \in Byte /\ xor(xor(x, y), z) \in Byte
  BY XorType
<1> QED BY <1>1, ProductOfSum DEF Sum4

----------------------------------------------------------------------------
(* Columns.                                                                *)

LEMMA WordEqual ==
    ASSUME NEW v \in Word, NEW u \in Word,
           v[0] = u[0], v[1] = u[1], v[2] = u[2], v[3] = u[3]
    PROVE  v = u
<1>1. \A n \in 0..3 : v[n] = u[n]
  OBVIOUS
<1> QED BY <1>1 DEF Word

LEMMA WordBytes ==
    ASSUME NEW b0 \in Byte, NEW b1 \in Byte, NEW b2 \in Byte, NEW b3 \in Byte
    PROVE  /\ word(b0, b1, b2, b3) \in Word
           /\ word(b0, b1, b2, b3)[0] = b0 /\ word(b0, b1, b2, b3)[1] = b1
           /\ word(b0, b1, b2, b3)[2] = b2 /\ word(b0, b1, b2, b3)[3] = b3
<1>1. \A n \in 0..3 : <<b0, b1, b2, b3>>[n + 1] \in Byte
  OBVIOUS
<1> QED BY <1>1 DEF word, Word

LEMMA WordIs ==
    ASSUME NEW b0, NEW b1, NEW b2, NEW b3
    PROVE  /\ word(b0, b1, b2, b3)[0] = b0 /\ word(b0, b1, b2, b3)[1] = b1
           /\ word(b0, b1, b2, b3)[2] = b2 /\ word(b0, b1, b2, b3)[3] = b3
BY DEF word

LEMMA XorWordsType ==
    ASSUME NEW v, NEW u
    PROVE  /\ xor_words(v, u) \in Word
           /\ \A n \in 0..3 : xor_words(v, u)[n] = xor(v[n], u[n])
BY XorType DEF xor_words, Word

LEMMA XorWordsTwice ==
    ASSUME NEW v \in Word, NEW u
    PROVE  xor_words(xor_words(v, u), u) = v
<1>1. \A n \in 0..3 : v[n] \in Byte
  BY DEF Word
<1>2. \A n \in 0..3 : xor_words(xor_words(v, u), u)[n] = xor(xor(v[n], u[n]), u[n])
  BY XorWordsType
<1>3. \A n \in 0..3 : xor_words(xor_words(v, u), u)[n] = v[n]
  BY <1>1, <1>2, XorTwice
<1>4. xor_words(xor_words(v, u), u) \in Word
  BY XorWordsType
<1> QED BY <1>3, <1>4, WordEqual

\* A row of inv_mix_columns.
Row(p, q, u, z, v) ==
    Sum4(gf_mul(p, v[0]), gf_mul(q, v[1]), gf_mul(u, v[2]), gf_mul(z, v[3]))

LEMMA SumType ==
    ASSUME NEW x, NEW y, NEW z, NEW w
    PROVE  Sum4(x, y, z, w) \in Byte
BY XorType DEF Sum4

LEMMA InverseMixRows ==
    ASSUME NEW v
    PROVE  /\ inv_mix_columns(v) \in Word
           /\ inv_mix_columns(v)[0] = Row(xe, xb, xd, x9, v)
           /\ inv_mix_columns(v)[1] = Row(x9, xe, xb, xd, v)
           /\ inv_mix_columns(v)[2] = Row(xd, x9, xe, xb, v)
           /\ inv_mix_columns(v)[3] = Row(xb, xd, x9, xe, v)
<1>1. inv_mix_columns(v)
         = word(Row(xe, xb, xd, x9, v), Row(x9, xe, xb, xd, v),
                Row(xd, x9, xe, xb, v), Row(xb, xd, x9, xe, v))
  BY DEF inv_mix_columns, Row, Sum4
<1>2. \A p, q, u, z : Row(p, q, u, z, v) \in Byte
  BY SumType DEF Row
<1> HIDE DEF Row
<1> QED BY <1>1, <1>2, WordBytes

\* Mixing is linear, row by row.
LEMMA RowOfSum ==
    ASSUME NEW v \in Word, NEW w \in Word, NEW p, NEW q, NEW u, NEW z
    PROVE  Row(p, q, u, z, xor_words(v, w)) = xor(Row(p, q, u, z, v), Row(p, q, u, z, w))
<1>1. \A n \in 0..3 : v[n] \in Byte /\ w[n] \in Byte
  BY DEF Word
<1>2. \A a : \A n \in 0..3 :
         gf_mul(a, xor_words(v, w)[n]) = xor(gf_mul(a, v[n]), gf_mul(a, w[n]))
  BY <1>1, XorWordsType, ProductOfSum
<1>3. Row(p, q, u, z, xor_words(v, w))
         = Sum4(xor(gf_mul(p, v[0]), gf_mul(p, w[0])), xor(gf_mul(q, v[1]), gf_mul(q, w[1])),
                xor(gf_mul(u, v[2]), gf_mul(u, w[2])), xor(gf_mul(z, v[3]), gf_mul(z, w[3])))
  BY <1>2 DEF Row
<1> QED BY <1>3, Sum4Xor DEF Row

LEMMA InverseMixOfSum ==
    ASSUME NEW v \in Word, NEW w \in Word
    PROVE  inv_mix_columns(xor_words(v, w))
              = xor_words(inv_mix_columns(v), inv_mix_columns(w))
<1> DEFINE m == inv_mix_columns(xor_words(v, w))
           sum == xor_words(inv_mix_columns(v), inv_mix_columns(w))
<1>1. m \in Word /\ sum \in Word
  BY InverseMixRows, XorWordsType
<1>2. sum[0] = xor(inv_mix_columns(v)[0], inv_mix_columns(w)[0])
  BY XorWordsType
<1>3. sum[1] = xor(inv_mix_columns(v)[1], inv_mix_columns(w)[1])
  BY XorWordsType
<1>4. sum[2] = xor(inv_mix_columns(v)[2], inv_mix_columns(w)[2])
  BY XorWordsType
<1>5. sum[3] = xor(inv_mix_columns(v)[3], inv_mix_columns(w)[3])
  BY XorWordsType
<1> HIDE DEF sum
<1>6. \A p, q, u, z :
         Row(p, q, u, z, xor_words(v, w)) = xor(Row(p, q, u, z, v), Row(p, q, u, z, w))
  BY RowOfSum
<1>7. m[0] = sum[0] /\ m[1] = sum[1] /\ m[2] = sum[2] /\ m[3] = sum[3]
  <2> DEFINE x == xor_words(v, w)
  <2> HIDE DEF x, Row
  <2>1. m[0] = Row(xe, xb, xd, x9, x) /\ m[1] = Row(x9, xe, xb, xd, x)
    BY InverseMixRows DEF x
  <2>2. m[2] = Row(xd, x9, xe, xb, x) /\ m[3] = Row(xb, xd, x9, xe, x)
    BY InverseMixRows DEF x
  <2>3. sum[0] = xor(Row(xe, xb, xd, x9, v), Row(xe, xb, xd, x9, w))
    BY <1>2, InverseMixRows
  <2>4. sum[1] = xor(Row(x9, xe, xb, xd, v), Row(x9, xe, xb, xd, w))
    BY <1>3, InverseMixRows
  <2>5. sum[2] = xor(Row(xd, x9, xe, xb, v), Row(xd, x9, xe, xb, w))
    BY <1>4, InverseMixRows
  <2>6. sum[3] = xor(Row(xb, xd, x9, xe, v), Row(xb, xd, x9, xe, w))
    BY <1>5, InverseMixRows
  <2> HIDE DEF m
  <2> QED BY <1>6, <2>1, <2>2, <2>3, <2>4, <2>5, <2>6 DEF x
<1> HIDE DEF m
<1>8. m = sum
  BY <1>1, <1>6, <1>7, WordEqual
<1> QED BY <1>8 DEF m, sum

\* A byte of MixColumn.
Mixed(b0, b1, b2, b3) == Sum4(gf_mul(x2, b0), gf_mul(x3, b1), b2, b3)

\* A row of the inverse of the mixing, of a column that has been mixed: only
\* the first byte is left, the products of the others cancel.
LEMMA RowInverts ==
    ASSUME NEW b0 \in Byte, NEW b1 \in Byte, NEW b2 \in Byte, NEW b3 \in Byte
    PROVE  Sum4(gf_mul(xe, Mixed(b0, b1, b2, b3)), gf_mul(xb, Mixed(b1, b2, b3, b0)),
                gf_mul(xd, Mixed(b2, b3, b0, b1)), gf_mul(x9, Mixed(b3, b0, b1, b2))) = b0
<1> DEFINE two(b) == gf_mul(x2, b)
           three(b) == gf_mul(x3, b)
<1>0. \A b : two(b) \in Byte /\ three(b) \in Byte
  BY ProductType
<1>1. gf_mul(xe, Mixed(b0, b1, b2, b3))
         = Sum4(gf_mul(xe, two(b0)), gf_mul(xe, three(b1)), gf_mul(xe, b2), gf_mul(xe, b3))
  BY <1>0, ProductOfSum4 DEF Mixed
<1>2. gf_mul(xb, Mixed(b1, b2, b3, b0))
         = Sum4(gf_mul(xb, b0), gf_mul(xb, two(b1)), gf_mul(xb, three(b2)), gf_mul(xb, b3))
  <2>1. Mixed(b1, b2, b3, b0) = Sum4(b0, two(b1), three(b2), b3)
    BY Sum4Rotates DEF Mixed
  <2> HIDE DEF two, three
  <2> QED BY <1>0, <2>1, ProductOfSum4
<1>3. gf_mul(xd, Mixed(b2, b3, b0, b1))
         = Sum4(gf_mul(xd, b0), gf_mul(xd, b1), gf_mul(xd, two(b2)), gf_mul(xd, three(b3)))
  <2>1. Mixed(b2, b3, b0, b1) = Sum4(b1, two(b2), three(b3), b0)
    BY Sum4Rotates DEF Mixed
  <2>2. Mixed(b2, b3, b0, b1) = Sum4(b0, b1, two(b2), three(b3))
    BY <2>1, Sum4Rotates
  <2> HIDE DEF two, three
  <2> QED BY <1>0, <2>2, ProductOfSum4
<1>4. gf_mul(x9, Mixed(b3, b0, b1, b2))
         = Sum4(gf_mul(x9, three(b0)), gf_mul(x9, b1), gf_mul(x9, b2), gf_mul(x9, two(b3)))
  <2>1. Mixed(b3, b0, b1, b2) = Sum4(three(b0), b1, b2, two(b3))
    BY Sum4Rotates DEF Mixed
  <2> HIDE DEF two, three
  <2> QED BY <1>0, <2>1, ProductOfSum4
<1> DEFINE column0 == Sum4(gf_mul(xe, two(b0)), gf_mul(xb, b0), gf_mul(xd, b0),
                           gf_mul(x9, three(b0)))
           column1 == Sum4(gf_mul(xe, three(b1)), gf_mul(xb, two(b1)), gf_mul(xd, b1),
                           gf_mul(x9, b1))
           column2 == Sum4(gf_mul(xe, b2), gf_mul(xb, three(b2)), gf_mul(xd, two(b2)),
                           gf_mul(x9, b2))
           column3 == Sum4(gf_mul(xe, b3), gf_mul(xb, b3), gf_mul(xd, three(b3)),
                           gf_mul(x9, two(b3)))
<1>5. \A b \in Byte :
         /\ Sum4(gf_mul(xe, two(b)), gf_mul(xb, b), gf_mul(xd, b), gf_mul(x9, three(b))) = b
         /\ Sum4(gf_mul(x9, two(b)), gf_mul(xe, b), gf_mul(xb, b), gf_mul(xd, three(b))) = {}
         /\ Sum4(gf_mul(xd, two(b)), gf_mul(x9, b), gf_mul(xe, b), gf_mul(xb, three(b))) = {}
         /\ Sum4(gf_mul(xb, two(b)), gf_mul(xd, b), gf_mul(x9, b), gf_mul(xe, three(b))) = {}
  BY FieldAssumption DEF Sum4
<1> HIDE DEF two, three
<1>6. column0 = b0
  BY <1>5
<1>7. column1 = {}
  BY <1>5, Sum4Rotates
<1>8. column2 = {}
  <2>1. column2 = Sum4(gf_mul(xb, three(b2)), gf_mul(xd, two(b2)), gf_mul(x9, b2),
                       gf_mul(xe, b2))
    BY Sum4Rotates
  <2> HIDE DEF column2
  <2> QED BY <1>5, <2>1, Sum4Rotates
<1>9. column3 = {}
  <2>1. column3 = Sum4(gf_mul(x9, two(b3)), gf_mul(xe, b3), gf_mul(xb, b3),
                       gf_mul(xd, three(b3)))
    BY Sum4Rotates
  <2> HIDE DEF column3
  <2> QED BY <1>5, <2>1
<1>10. Sum4(gf_mul(xe, Mixed(b0, b1, b2, b3)), gf_mul(xb, Mixed(b1, b2, b3, b0)),
            gf_mul(xd, Mixed(b2, b3, b0, b1)), gf_mul(x9, Mixed(b3, b0, b1, b2)))
         = Sum4(column0, column1, column2, column3)
  BY <1>1, <1>2, <1>3, <1>4, SumOfSums
<1> HIDE DEF column0, column1, column2, column3
<1>11. Sum4(b0, {}, {}, {}) = b0
  BY XorZero DEF Sum4
<1> QED BY <1>6, <1>7, <1>8, <1>9, <1>10, <1>11

LEMMA MixedColumn ==
    ASSUME NEW v \in Word
    PROVE  /\ MixColumn(v) \in Word
           /\ MixColumn(v)[0] = Mixed(v[0], v[1], v[2], v[3])
           /\ MixColumn(v)[1] = Mixed(v[1], v[2], v[3], v[0])
           /\ MixColumn(v)[2] = Mixed(v[2], v[3], v[0], v[1])
           /\ MixColumn(v)[3] = Mixed(v[3], v[0], v[1], v[2])
<1>1. MixColumn(v) \in Word
  BY XorType DEF MixColumn, Word
<1>2. \A n \in 0..3 : MixColumn(v)[n]
         = Mixed(v[n], v[(n + 1) % 4], v[(n + 2) % 4], v[(n + 3) % 4])
  BY XorAssociates DEF MixColumn, Mixed, Sum4
<1>3. 0 \in 0..3 /\ 1 \in 0..3 /\ 2 \in 0..3 /\ 3 \in 0..3
  OBVIOUS
<1> HIDE DEF Mixed
<1>4. /\ (0 + 1) % 4 = 1 /\ (0 + 2) % 4 = 2 /\ (0 + 3) % 4 = 3
      /\ (1 + 1) % 4 = 2 /\ (1 + 2) % 4 = 3 /\ (1 + 3) % 4 = 0
      /\ (2 + 1) % 4 = 3 /\ (2 + 2) % 4 = 0 /\ (2 + 3) % 4 = 1
      /\ (3 + 1) % 4 = 0 /\ (3 + 2) % 4 = 1 /\ (3 + 3) % 4 = 2
  OBVIOUS
<1> QED BY <1>1, <1>2, <1>3, <1>4

\* inv_mix_columns undoes MixColumns.
LEMMA MixingInverts ==
    ASSUME NEW v \in Word
    PROVE  inv_mix_columns(MixColumn(v)) = v
<1> DEFINE m == MixColumn(v)
<1>0. v[0] \in Byte /\ v[1] \in Byte /\ v[2] \in Byte /\ v[3] \in Byte
  BY DEF Word
<1>1. /\ m[0] = Mixed(v[0], v[1], v[2], v[3]) /\ m[1] = Mixed(v[1], v[2], v[3], v[0])
      /\ m[2] = Mixed(v[2], v[3], v[0], v[1]) /\ m[3] = Mixed(v[3], v[0], v[1], v[2])
  BY MixedColumn
<1> HIDE DEF m
<1>2. Row(xe, xb, xd, x9, m) = v[0]
  BY <1>0, <1>1, RowInverts DEF Row
<1>3. Row(x9, xe, xb, xd, m) = v[1]
  <2>1. Row(x9, xe, xb, xd, m)
          = Sum4(gf_mul(xe, m[1]), gf_mul(xb, m[2]), gf_mul(xd, m[3]), gf_mul(x9, m[0]))
    BY Sum4Rotates DEF Row
  <2> QED BY <1>0, <1>1, <2>1, RowInverts
<1>4. Row(xd, x9, xe, xb, m) = v[2]
  <2>1. Row(xd, x9, xe, xb, m)
          = Sum4(gf_mul(x9, m[1]), gf_mul(xe, m[2]), gf_mul(xb, m[3]), gf_mul(xd, m[0]))
    BY Sum4Rotates DEF Row
  <2>2. Row(xd, x9, xe, xb, m)
          = Sum4(gf_mul(xe, m[2]), gf_mul(xb, m[3]), gf_mul(xd, m[0]), gf_mul(x9, m[1]))
    BY <2>1, Sum4Rotates
  <2> QED BY <1>0, <1>1, <2>2, RowInverts
<1>5. Row(xb, xd, x9, xe, m) = v[3]
  <2>1. Sum4(gf_mul(xe, m[3]), gf_mul(xb, m[0]), gf_mul(xd, m[1]), gf_mul(x9, m[2]))
          = Row(xb, xd, x9, xe, m)
    BY Sum4Rotates DEF Row
  <2> QED BY <1>0, <1>1, <2>1, RowInverts
<1>6. inv_mix_columns(m) = v
  BY <1>2, <1>3, <1>4, <1>5, InverseMixRows, WordEqual
<1> QED BY <1>6 DEF m

----------------------------------------------------------------------------
(* The tables.                                                             *)

LEMMA Sum4Words ==
    ASSUME NEW v, NEW u, NEW w, NEW x
    PROVE  /\ xor4(v, u, w, x) \in Word
           /\ \A n \in 0..3 : xor4(v, u, w, x)[n] = Sum4(v[n], u[n], w[n], x[n])
BY XorWordsType DEF xor4, Sum4

\* Four lookups are a column of MixColumns after SubBytes.
LEMMA TablesMix ==
    ASSUME NEW x0 \in Byte, NEW x1 \in Byte, NEW xx \in Byte, NEW xy \in Byte,
           NEW w \in Word,
           w[0] = sbox[x0], w[1] = sbox[x1], w[2] = sbox[xx], w[3] = sbox[xy]
    PROVE  xor4(t0[x0], t1[x1], t2[xx], t3[xy]) = MixColumn(w)
<1> DEFINE sum == xor4(t0[x0], t1[x1], t2[xx], t3[xy])
           two(b) == gf_mul(x2, b)
           three(b) == gf_mul(x3, b)
<1>1. w[0] \in Byte /\ w[1] \in Byte /\ w[2] \in Byte /\ w[3] \in Byte
  BY DEF Word
<1>2. \A b : two(b) \in Byte /\ three(b) \in Byte
  BY ProductType
<1>3. /\ t0[x0] = word(two(w[0]), w[0], w[0], three(w[0]))
      /\ t1[x1] = word(three(w[1]), two(w[1]), w[1], w[1])
      /\ t2[xx] = word(w[2], three(w[2]), two(w[2]), w[2])
      /\ t3[xy] = word(w[3], w[3], three(w[3]), two(w[3]))
  BY DEF t0, t1, t2, t3
<1> HIDE DEF two, three
<1>4. /\ t0[x0][0] = two(w[0]) /\ t0[x0][1] = w[0] /\ t0[x0][2] = w[0] /\ t0[x0][3] = three(w[0])
  BY <1>3, WordIs
<1>5. /\ t1[x1][0] = three(w[1]) /\ t1[x1][1] = two(w[1]) /\ t1[x1][2] = w[1] /\ t1[x1][3] = w[1]
  BY <1>3, WordIs
<1>6. /\ t2[xx][0] = w[2] /\ t2[xx][1] = three(w[2]) /\ t2[xx][2] = two(w[2]) /\ t2[xx][3] = w[2]
  BY <1>3, WordIs
<1>7. /\ t3[xy][0] = w[3] /\ t3[xy][1] = w[3] /\ t3[xy][2] = three(w[3]) /\ t3[xy][3] = two(w[3])
  BY <1>3, WordIs
<1>8. /\ sum \in Word
      /\ sum[0] = Sum4(t0[x0][0], t1[x1][0], t2[xx][0], t3[xy][0])
      /\ sum[1] = Sum4(t0[x0][1], t1[x1][1], t2[xx][1], t3[xy][1])
      /\ sum[2] = Sum4(t0[x0][2], t1[x1][2], t2[xx][2], t3[xy][2])
      /\ sum[3] = Sum4(t0[x0][3], t1[x1][3], t2[xx][3], t3[xy][3])
  BY Sum4Words
<1> HIDE DEF sum
<1>9. sum[0] = Sum4(two(w[0]), three(w[1]), w[2], w[3])
  BY <1>4, <1>5, <1>6, <1>7, <1>8
<1>10. sum[1] = Sum4(two(w[1]), three(w[2]), w[3], w[0])
  BY <1>4, <1>5, <1>6, <1>7, <1>8, Sum4Rotates
<1>11. sum[2] = Sum4(two(w[2]), three(w[3]), w[0], w[1])
  BY <1>4, <1>5, <1>6, <1>7, <1>8, Sum4Rotates
<1>12. sum[3] = Sum4(two(w[3]), three(w[0]), w[1], w[2])
  <2>1. sum[3] = Sum4(three(w[0]), w[1], w[2], two(w[3]))
    BY <1>4, <1>5, <1>6, <1>7, <1>8
  <2> QED BY <2>1, Sum4Rotates
<1>13. sum = MixColumn(w)
  <2>1. sum[0] = MixColumn(w)[0] /\ sum[1] = MixColumn(w)[1]
    BY <1>9, <1>10, MixedColumn DEF Mixed, two, three
  <2>2. sum[2] = MixColumn(w)[2] /\ sum[3] = MixColumn(w)[3]
    BY <1>11, <1>12, MixedColumn DEF Mixed, two, three
  <2> QED BY <1>8, <2>1, <2>2, MixedColumn, WordEqual
<1> QED BY <1>13 DEF sum

\* Four lookups of the inverse are a column mixed back, after InvSubBytes.
LEMMA TablesMixBack ==
    ASSUME NEW x0 \in Byte, NEW x1 \in Byte, NEW xx \in Byte, NEW xy \in Byte,
           NEW w \in Word,
           w[0] = inv_sbox[x0], w[1] = inv_sbox[x1],
           w[2] = inv_sbox[xx], w[3] = inv_sbox[xy]
    PROVE  xor4(t4[x0], t5[x1], t6[xx], t7[xy]) = inv_mix_columns(w)
<1> DEFINE sum == xor4(t4[x0], t5[x1], t6[xx], t7[xy])
<1>1. \A p, b : gf_mul(p, b) \in Byte
  BY ProductType
<1>2. /\ t4[x0] = word(gf_mul(xe, w[0]), gf_mul(x9, w[0]), gf_mul(xd, w[0]), gf_mul(xb, w[0]))
      /\ t5[x1] = word(gf_mul(xb, w[1]), gf_mul(xe, w[1]), gf_mul(x9, w[1]), gf_mul(xd, w[1]))
      /\ t6[xx] = word(gf_mul(xd, w[2]), gf_mul(xb, w[2]), gf_mul(xe, w[2]), gf_mul(x9, w[2]))
      /\ t7[xy] = word(gf_mul(x9, w[3]), gf_mul(xd, w[3]), gf_mul(xb, w[3]), gf_mul(xe, w[3]))
  BY DEF t4, t5, t6, t7, inverse_table
<1>3. /\ t4[x0][0] = gf_mul(xe, w[0]) /\ t4[x0][1] = gf_mul(x9, w[0])
      /\ t4[x0][2] = gf_mul(xd, w[0]) /\ t4[x0][3] = gf_mul(xb, w[0])
  BY <1>2, WordIs
<1>4. /\ t5[x1][0] = gf_mul(xb, w[1]) /\ t5[x1][1] = gf_mul(xe, w[1])
      /\ t5[x1][2] = gf_mul(x9, w[1]) /\ t5[x1][3] = gf_mul(xd, w[1])
  BY <1>2, WordIs
<1>5. /\ t6[xx][0] = gf_mul(xd, w[2]) /\ t6[xx][1] = gf_mul(xb, w[2])
      /\ t6[xx][2] = gf_mul(xe, w[2]) /\ t6[xx][3] = gf_mul(x9, w[2])
  BY <1>2, WordIs
<1>6. /\ t7[xy][0] = gf_mul(x9, w[3]) /\ t7[xy][1] = gf_mul(xd, w[3])
      /\ t7[xy][2] = gf_mul(xb, w[3]) /\ t7[xy][3] = gf_mul(xe, w[3])
  BY <1>2, WordIs
<1>7. /\ sum \in Word
      /\ sum[0] = Sum4(t4[x0][0], t5[x1][0], t6[xx][0], t7[xy][0])
      /\ sum[1] = Sum4(t4[x0][1], t5[x1][1], t6[xx][1], t7[xy][1])
      /\ sum[2] = Sum4(t4[x0][2], t5[x1][2], t6[xx][2], t7[xy][2])
      /\ sum[3] = Sum4(t4[x0][3], t5[x1][3], t6[xx][3], t7[xy][3])
  BY Sum4Words
<1> HIDE DEF sum
<1>8. /\ sum[0] = Row(xe, xb, xd, x9, w) /\ sum[1] = Row(x9, xe, xb, xd, w)
      /\ sum[2] = Row(xd, x9, xe, xb, w) /\ sum[3] = Row(xb, xd, x9, xe, w)
  BY <1>3, <1>4, <1>5, <1>6, <1>7 DEF Row
<1> HIDE DEF Row
<1>9. sum = inv_mix_columns(w)
  BY <1>7, <1>8, InverseMixRows, WordEqual
<1> QED BY <1>9 DEF sum

----------------------------------------------------------------------------
(* Blocks.                                                                 *)

LEMMA BlockEqual ==
    ASSUME NEW v \in Block, NEW u \in Block,
           \A j, n \in 0..3 : v[j][n] = u[j][n]
    PROVE  v = u
<1>1. ASSUME NEW j \in 0..3
      PROVE  v[j] = u[j]
  <2>1. v[j] \in Word /\ u[j] \in Word
    BY DEF Block
  <2>2. \A n \in 0..3 : v[j][n] = u[j][n]
    OBVIOUS
  <2> QED BY <2>1, <2>2 DEF Word
<1> QED BY <1>1 DEF Block

LEMMA AddKeyType ==
    ASSUME NEW v, NEW key
    PROVE  AddRoundKey(v, key) \in Block
BY XorWordsType DEF AddRoundKey, Block

LEMMA AddKeyTwice ==
    ASSUME NEW v \in Block, NEW key
    PROVE  AddRoundKey(AddRoundKey(v, key), key) = v
<1>1. \A j \in 0..3 : v[j] \in Word
  BY DEF Block
<1>2. \A j \in 0..3 : xor_words(xor_words(v[j], key[j]), key[j]) = v[j]
  BY <1>1, XorWordsTwice
<1> QED BY <1>2 DEF AddRoundKey, Block

\* SubBytes and ShiftRows together, byte by byte.
Shifted(v) == ShiftRows(SubBytes(v))

LEMMA ShiftedBytes ==
    ASSUME NEW v \in Block
    PROVE  /\ Shifted(v) \in Block
           /\ \A j, n \in 0..3 : /\ (j + n) % 4 \in 0..3
                                 /\ Shifted(v)[j][n] = sbox[v[(j + n) % 4][n]]
<1>1. \A j, n \in 0..3 : (j + n) % 4 \in 0..3
  OBVIOUS
<1>2. \A j, n \in 0..3 : v[j][n] \in Byte
  BY DEF Block, Word
<1>3. \A j, n \in 0..3 : sbox[v[(j + n) % 4][n]] \in Byte
  BY <1>1, <1>2, SboxAssumption
<1>4. Shifted(v) = [j \in 0..3 |-> [n \in 0..3 |-> sbox[v[(j + n) % 4][n]]]]
  <2>1. \A j, n \in 0..3 : SubBytes(v)[(j + n) % 4][n] = sbox[v[(j + n) % 4][n]]
    BY <1>1 DEF SubBytes
  <2> QED BY <2>1 DEF Shifted, ShiftRows
<1> HIDE DEF Shifted
<1>5. Shifted(v) \in Block
  BY <1>3, <1>4 DEF Block, Word
<1> QED BY <1>1, <1>4, <1>5

\* What the rounds of the two ciphers look up.
Lookups(v) ==
    [j \in 0..3 |-> xor4(t0[v[j][0]], t1[v[(j + 1) % 4][1]],
                         t2[v[(j + 2) % 4][2]], t3[v[(j + 3) % 4][3]])]
LastLookups(v) == [j \in 0..3 |-> [n \in 0..3 |-> sbox[v[(j + n) % 4][n]]]]
InverseLookups(v) ==
    [j \in 0..3 |-> xor4(t4[v[j][0]], t5[v[(j + 3) % 4][1]],
                         t6[v[(j + 2) % 4][2]], t7[v[(j + 1) % 4][3]])]
LastInverseLookups(v) ==
    [j \in 0..3 |-> [n \in 0..3 |-> inv_sbox[v[(j + 4 - n) % 4][n]]]]

\* A round of cipher is a round of FIPS 197.
LEMMA LookupsAreFips ==
    ASSUME NEW v \in Block
    PROVE  Lookups(v) = MixColumns(Shifted(v)) /\ LastLookups(v) = Shifted(v)
<1>1. ASSUME NEW j \in 0..3
      PROVE  xor4(t0[v[j][0]], t1[v[(j + 1) % 4][1]], t2[v[(j + 2) % 4][2]],
                  t3[v[(j + 3) % 4][3]]) = MixColumn(Shifted(v)[j])
  <2> DEFINE w == Shifted(v)[j]
             b0 == v[j][0]
             b1 == v[(j + 1) % 4][1]
             b2 == v[(j + 2) % 4][2]
             b3 == v[(j + 3) % 4][3]
  <2>1. w \in Word
    BY ShiftedBytes DEF Block
  <2>2. \A n \in 0..3 : w[n] = sbox[v[(j + n) % 4][n]]
    BY ShiftedBytes
  <2>3. \A m, n \in 0..3 : v[m][n] \in Byte
    BY DEF Block, Word
  <2>4. /\ (j + 0) % 4 = j /\ (j + 1) % 4 \in 0..3 /\ (j + 2) % 4 \in 0..3
        /\ (j + 3) % 4 \in 0..3
    OBVIOUS
  <2>5. b0 \in Byte /\ b1 \in Byte /\ b2 \in Byte /\ b3 \in Byte
    BY <2>3, <2>4
  <2> HIDE DEF w
  <2>6. w[0] = sbox[b0]
    BY <2>2, <2>4
  <2>7. w[1] = sbox[b1] /\ w[2] = sbox[b2] /\ w[3] = sbox[b3]
    BY <2>2
  <2> HIDE DEF b0, b1, b2, b3
  <2>8. xor4(t0[b0], t1[b1], t2[b2], t3[b3]) = MixColumn(w)
    BY <2>1, <2>5, <2>6, <2>7, TablesMix
  <2> QED BY <2>8 DEF w, b0, b1, b2, b3
<1>2. Lookups(v) = MixColumns(Shifted(v))
  BY <1>1 DEF Lookups, MixColumns
<1>3. LastLookups(v) = Shifted(v)
  <2>1. \A j, n \in 0..3 : SubBytes(v)[(j + n) % 4][n] = sbox[v[(j + n) % 4][n]]
    <3>1. \A j, n \in 0..3 : (j + n) % 4 \in 0..3
      OBVIOUS
    <3> QED BY <3>1 DEF SubBytes
  <2> QED BY <2>1 DEF LastLookups, Shifted, ShiftRows
<1> QED BY <1>2, <1>3

\* The inverse lookups undo SubBytes and ShiftRows.
LEMMA InverseLookupsUndo ==
    ASSUME NEW v \in Block
    PROVE  /\ InverseLookups(Shifted(v)) = [j \in 0..3 |-> inv_mix_columns(v[j])]
           /\ LastInverseLookups(Shifted(v)) = v
<1> DEFINE u == Shifted(v)
<1>0. \A m, n \in 0..3 : v[m][n] \in Byte
  BY DEF Block, Word
<1>1. \A j, n \in 0..3 : (j + 4 - n) % 4 \in 0..3 /\ (((j + 4 - n) % 4) + n) % 4 = j
  OBVIOUS
<1>2. \A j, n \in 0..3 : u[(j + 4 - n) % 4][n] = sbox[v[j][n]]
  <2>1. \A m, n \in 0..3 : u[m][n] = sbox[v[(m + n) % 4][n]]
    BY ShiftedBytes
  <2> HIDE DEF u
  <2> QED BY <1>1, <2>1
<1>3. \A m, n \in 0..3 : u[m][n] \in Byte
  BY ShiftedBytes DEF Block, Word
<1> HIDE DEF u
<1>4. \A j, n \in 0..3 : inv_sbox[u[(j + 4 - n) % 4][n]] = v[j][n]
  BY <1>0, <1>2, SboxAssumption
<1>5. LastInverseLookups(u) = v
  <2>1. LastInverseLookups(u) = [j \in 0..3 |-> [n \in 0..3 |-> v[j][n]]]
    BY <1>4 DEF LastInverseLookups
  <2>2. \A j \in 0..3 : [n \in 0..3 |-> v[j][n]] = v[j]
    BY DEF Block, Word
  <2>3. [j \in 0..3 |-> v[j]] = v
    BY DEF Block
  <2> QED BY <2>1, <2>2, <2>3
<1>6. ASSUME NEW j \in 0..3
      PROVE  xor4(t4[u[j][0]], t5[u[(j + 3) % 4][1]], t6[u[(j + 2) % 4][2]],
                  t7[u[(j + 1) % 4][3]]) = inv_mix_columns(v[j])
  <2> DEFINE w == v[j]
             b0 == u[j][0]
             b1 == u[(j + 3) % 4][1]
             b2 == u[(j + 2) % 4][2]
             b3 == u[(j + 1) % 4][3]
  <2>1. w \in Word
    BY DEF Block
  <2>2. /\ (j + 4 - 0) % 4 = j /\ (j + 4 - 1) % 4 = (j + 3) % 4
        /\ (j + 4 - 2) % 4 = (j + 2) % 4 /\ (j + 4 - 3) % 4 = (j + 1) % 4
    OBVIOUS
  <2>3. /\ inv_sbox[u[(j + 4 - 0) % 4][0]] = v[j][0] /\ inv_sbox[u[(j + 4 - 1) % 4][1]] = v[j][1]
        /\ inv_sbox[u[(j + 4 - 2) % 4][2]] = v[j][2] /\ inv_sbox[u[(j + 4 - 3) % 4][3]] = v[j][3]
    BY <1>4
  <2>4. /\ w[0] = inv_sbox[b0] /\ w[1] = inv_sbox[b1]
        /\ w[2] = inv_sbox[b2] /\ w[3] = inv_sbox[b3]
    BY <2>2, <2>3
  <2>5. b0 \in Byte /\ b1 \in Byte /\ b2 \in Byte /\ b3 \in Byte
    <3>1. (j + 1) % 4 \in 0..3 /\ (j + 2) % 4 \in 0..3 /\ (j + 3) % 4 \in 0..3
      OBVIOUS
    <3> QED BY <1>3, <3>1
  <2> HIDE DEF w, b0, b1, b2, b3
  <2>6. xor4(t4[b0], t5[b1], t6[b2], t7[b3]) = inv_mix_columns(w)
    BY <2>1, <2>4, <2>5, TablesMixBack
  <2> QED BY <2>6 DEF w, b0, b1, b2, b3
<1>7. InverseLookups(u) = [j \in 0..3 |-> inv_mix_columns(v[j])]
  BY <1>6 DEF InverseLookups
<1> QED BY <1>5, <1>7 DEF u

\* A round of eq_inv_cipher takes the state back over a round of FIPS 197.
LEMMA InverseRoundUndoes ==
    ASSUME NEW v \in Block, NEW key \in Block
    PROVE  AddRoundKey(InverseLookups(Shifted(FipsRound(v, key))),
                       [j \in 0..3 |-> inv_mix_columns(key[j])]) = Shifted(v)
<1> DEFINE u == Shifted(v)
           f == FipsRound(v, key)
           mixed == [j \in 0..3 |-> inv_mix_columns(key[j])]
<1>1. u \in Block
  BY ShiftedBytes
<1>2. f \in Block
  BY AddKeyType DEF FipsRound
<1>3. f = AddRoundKey(MixColumns(u), key)
  BY DEF FipsRound, Shifted
<1> HIDE DEF u, f
<1>4. ASSUME NEW j \in 0..3
      PROVE  xor_words(inv_mix_columns(f[j]), inv_mix_columns(key[j])) = u[j]
  <2>1. u[j] \in Word /\ key[j] \in Word
    BY <1>1 DEF Block
  <2>2. f[j] = xor_words(MixColumn(u[j]), key[j])
    BY <1>3 DEF AddRoundKey, MixColumns
  <2>3. MixColumn(u[j]) \in Word
    BY <2>1, MixedColumn
  <2>4. inv_mix_columns(f[j]) = xor_words(u[j], inv_mix_columns(key[j]))
    BY <2>1, <2>2, <2>3, InverseMixOfSum, MixingInverts
  <2> QED BY <2>1, <2>4, XorWordsTwice
<1>5. InverseLookups(Shifted(f)) = [j \in 0..3 |-> inv_mix_columns(f[j])]
  BY <1>2, InverseLookupsUndo
<1>6. AddRoundKey(InverseLookups(Shifted(f)), mixed)
         = [j \in 0..3 |-> xor_words(inv_mix_columns(f[j]), inv_mix_columns(key[j]))]
  BY <1>5 DEF AddRoundKey
<1>7. AddRoundKey(InverseLookups(Shifted(f)), mixed) = u
  BY <1>1, <1>4, <1>6 DEF Block
<1> QED BY <1>7 DEF u, f

----------------------------------------------------------------------------
(* Types.                                                                  *)

Top == Nb * (Nr + 1)

\* AesTypeOK, with what the other parts need of the loops and the histories.
Types ==
    aes_pc # "call" =>
       /\ aes_pc \in {"expand", "eic", "start", "cipher", "inverse", "done"}
       /\ op \in {"encrypt", "decrypt"}
       /\ in \in Block /\ k.Nk \in Nat /\ k.words \in [0..7 -> Word]
       /\ err \in {0, EINVAL} /\ rcon \in Byte
       /\ err = 0 <=> k.Nk \in AES_LENGTHS
       /\ err # 0 => aes_pc = "done" /\ res = <<>>
       /\ err = 0 =>
             /\ rk \in [0..59 -> Word] /\ rcons \in [0..60 -> Byte]
             /\ kw \in k.Nk .. Top
             /\ aes_pc # "expand" => kw = Top
             /\ aes_pc = "eic" => op = "decrypt"
             /\ aes_pc = "cipher" => op = "encrypt" /\ s \in Block /\ rnd \in 1..Nr
             /\ aes_pc = "inverse" => op = "decrypt" /\ s \in Block /\ rnd \in 0..(Nr - 1)
             /\ aes_pc = "done" => res \in Block /\ rnd \in 0..Nr
             /\ aes_pc \in {"expand", "eic", "start"} => rnd = 0
             /\ aes_pc = "done" /\ op = "encrypt" => rnd = Nr
             /\ aes_pc \in {"cipher", "done"} /\ op = "encrypt" =>
                   rounds \in [0..13 -> Block]

LEMMA Lengths ==
    ASSUME k.Nk \in AES_LENGTHS
    PROVE  /\ Nr \in {10, 12, 14} /\ Top \in {44, 52, 60} /\ k.Nk \in {4, 6, 8}
           /\ k.Nk <= Top
BY DEF AES_LENGTHS, Nr, Top, Nb

LEMMA XTimesType ==
    ASSUME NEW a \in Byte
    PROVE  x_times(a) \in Byte
<1>1. a \in SUBSET (0..7)
  BY DEF Byte
<1>2. {b + 1 : b \in a} \ {8} \in SUBSET (0..7)
  BY <1>1
<1> QED BY <1>2, XorType DEF x_times, Byte

LEMMA SubWordType ==
    ASSUME NEW v \in Word
    PROVE  SubWord(v) \in Word
BY SboxAssumption DEF SubWord, Word

LEMMA RotWordType ==
    ASSUME NEW v \in Word
    PROVE  RotWord(v) \in Word
<1>1. \A n \in 0..3 : (n + 1) % 4 \in 0..3
  OBVIOUS
<1> QED BY <1>1 DEF RotWord, Word

\* The word key_expansion writes next, and the constant it goes on with.
NextWord(key, w, n, cs) ==
    xor_words(w[n - key.Nk],
              IF n % key.Nk = 0
              THEN xor_words(SubWord(RotWord(w[n - 1])), word(cs, {}, {}, {}))
              ELSE IF key.Nk = 8 /\ n % key.Nk = 4 THEN SubWord(w[n - 1]) ELSE w[n - 1])
NextConstant(key, n, cs) == IF n % key.Nk = 0 THEN x_times(cs) ELSE cs

LEMMA ExpandWordWrites ==
    ASSUME ExpandWord
    PROVE  /\ rk' = [rk EXCEPT ![kw] = NextWord(k, rk, kw, rcon)]
           /\ rcon' = NextConstant(k, kw, rcon)
BY DEF ExpandWord, NextWord, NextConstant

LEMMA NextConstantType ==
    ASSUME NEW key, NEW n, NEW cs \in Byte
    PROVE  NextConstant(key, n, cs) \in Byte
BY XTimesType DEF NextConstant

LEMMA NextWordType ==
    ASSUME NEW key, NEW w, NEW n, NEW cs
    PROVE  NextWord(key, w, n, cs) \in Word
BY XorWordsType DEF NextWord

LEMMA ZeroType == Zero \in Word
<1>1. {} \in Byte
  BY DEF Byte
<1> QED BY <1>1 DEF Zero, Word

\* What Begin establishes, for the call of a client with one of its keys.
LEMMA BeginTypes ==
    ASSUME NEW function \in {"encrypt", "decrypt"}, NEW block \in Block, NEW key,
           key.Nk \in Nat, key.words \in [0..7 -> Word],
           Begin(function, block, key)
    PROVE  Types'
<1>1. {0} \in Byte
  BY DEF Byte
<1>2. k' = key /\ k'.Nk \in Nat /\ k'.words \in [0..7 -> Word]
  BY DEF Begin, Accepted
<1>3. CASE key.Nk \in AES_LENGTHS
  <2>0. key.Nk \in {4, 6, 8}
    BY <1>3 DEF AES_LENGTHS
  <2>1. k'.Nk \in {4, 6, 8} /\ Top' \in {44, 52, 60} /\ k'.Nk <= Top'
    <3>1. Nr' = IF key.Nk = 4 THEN 10 ELSE IF key.Nk = 6 THEN 12 ELSE 14
      BY <1>2 DEF Nr
    <3>2. Nr' \in {10, 12, 14}
      BY <3>1
    <3>3. Top' \in {44, 52, 60}
      <4>1. Top' = 4 * (Nr' + 1)
        BY DEF Top, Nb
      <4>2. CASE Nr' = 10
        BY <4>1, <4>2
      <4>3. CASE Nr' = 12
        BY <4>1, <4>3
      <4>4. CASE Nr' = 14
        BY <4>1, <4>4
      <4> QED BY <3>2, <4>2, <4>3, <4>4
    <3> QED BY <1>2, <2>0, <3>3
  <2>2. rk' \in [0..59 -> Word]
    <3>1. \A n \in 0..59 : n < key.Nk => n \in 0..7
      BY <2>0
    <3> QED BY <1>2, <3>1, ZeroType DEF Begin, Accepted
  <2>3. rcons' \in [0..60 -> Byte] /\ rcon' \in Byte
    BY <1>1 DEF Begin, Accepted
  <2>4. kw' \in k'.Nk .. Top'
    <3>1. kw' = key.Nk
      BY DEF Begin, Accepted
    <3> QED BY <1>2, <2>0, <2>1, <3>1
  <2>5. aes_pc' = "expand" /\ err' = 0 /\ op' = function /\ in' = block /\ rnd' = 0
    BY <1>3 DEF Begin, Accepted
  <2> QED BY <1>2, <1>3, <2>2, <2>3, <2>4, <2>5 DEF Types
<1>4. CASE key.Nk \notin AES_LENGTHS
  BY <1>1, <1>2, <1>4 DEF Begin, Accepted, Types, EINVAL
<1> QED BY <1>3, <1>4

LEMMA NrStays ==
    ASSUME k' = k
    PROVE  Nr' = Nr /\ Top' = Top
BY DEF Nr, Top

LEMMA InitTypes == AesInit => Types
BY DEF AesInit, Types

LEMMA StepTypes ==
    ASSUME Types, [AesNext]_aes_vars
    PROVE  Types'
<1>1. CASE aes_encrypt
  <2>1. PICK block \in AesBlocks, key \in AesKeys : Begin("encrypt", block, key)
    BY <1>1 DEF aes_encrypt
  <2> QED BY <2>1, AesInputsAssumption, BeginTypes
<1>2. CASE aes_decrypt
  <2>1. /\ Begin("decrypt", res, k) /\ res \in Block /\ k.Nk \in Nat
        /\ k.words \in [0..7 -> Word]
    BY <1>2 DEF aes_decrypt, Types
  <2> QED BY <2>1, BeginTypes
<1>3. CASE ExpandWord
  <2>1. /\ aes_pc = "expand" /\ kw < Top /\ kw' = kw + 1 /\ err = 0 /\ rnd = 0
        /\ rk \in [0..59 -> Word] /\ rcons \in [0..60 -> Byte] /\ rcon \in Byte
        /\ kw \in k.Nk .. Top /\ k.Nk \in AES_LENGTHS
        /\ op \in {"encrypt", "decrypt"}
    BY <1>3 DEF ExpandWord, Types, Top, EINVAL
  <2>2. rk' \in [0..59 -> Word]
    BY <1>3, <2>1, ExpandWordWrites, NextWordType
  <2>3. rcon' \in Byte
    BY <1>3, <2>1, ExpandWordWrites, NextConstantType
  <2>4. rcons' \in [0..60 -> Byte]
    BY <1>3, <2>1, <2>3 DEF ExpandWord
  <2>5. k' = k /\ Nr' = Nr /\ Top' = Top
    BY <1>3, NrStays DEF ExpandWord
  <2>6. kw' \in k'.Nk .. Top'
    BY <2>1, <2>5, Lengths
  <2> QED BY <1>3, <2>1, <2>2, <2>3, <2>4, <2>5, <2>6 DEF ExpandWord, Types
<1>4. CASE EndExpansion
  <2>1. k' = k /\ Nr' = Nr /\ Top' = Top
    BY <1>4, NrStays DEF EndExpansion
  <2> QED BY <1>4, <2>1 DEF EndExpansion, Types, Top, EINVAL
<1>5. CASE MixKeys
  <2>1. k' = k /\ Nr' = Nr /\ Top' = Top
    BY <1>5, NrStays DEF MixKeys
  <2>2. rk \in [0..59 -> Word] /\ err = 0
    BY <1>5 DEF MixKeys, Types, EINVAL
  <2>3. rk' \in [0..59 -> Word]
    BY <1>5, <2>2, InverseMixRows DEF MixKeys
  <2> QED BY <1>5, <2>1, <2>2, <2>3 DEF MixKeys, Types
<1>6. CASE Start
  <2>1. k' = k /\ Nr' = Nr /\ Top' = Top
    BY <1>6, NrStays DEF Start
  <2>2. err = 0 /\ k.Nk \in AES_LENGTHS /\ aes_pc = "start"
    BY <1>6 DEF Start, Types, EINVAL
  <2>3. Nr \in {10, 12, 14}
    BY <2>2, Lengths
  <2>4. s' \in Block
    BY <1>6, AddKeyType DEF Start
  <2>5. CASE op = "encrypt"
    <3>1. rounds' \in [0..13 -> Block] /\ rnd' = 1 /\ aes_pc' = "cipher"
      BY <1>6, <2>4, <2>5 DEF Start
    <3> QED BY <1>6, <2>1, <2>2, <2>3, <2>4, <2>5, <3>1 DEF Start, Types
  <2>6. CASE op = "decrypt"
    <3>1. rnd' = Nr - 1 /\ aes_pc' = "inverse"
      BY <1>6, <2>6 DEF Start
    <3> QED BY <1>6, <2>1, <2>2, <2>3, <2>4, <2>6, <3>1 DEF Start, Types
  <2> QED BY <1>6, <2>5, <2>6 DEF Start
<1>7. CASE CipherRound
  <2>1. k' = k /\ Nr' = Nr /\ Top' = Top
    BY <1>7, NrStays DEF CipherRound
  <2>2. err = 0 /\ k.Nk \in AES_LENGTHS /\ rnd \in 1..Nr /\ rnd < Nr /\ rnd' = rnd + 1
        /\ rounds \in [0..13 -> Block] /\ op = "encrypt"
    BY <1>7 DEF CipherRound, Types, EINVAL
  <2>3. Nr \in {10, 12, 14}
    BY <2>2, Lengths
  <2>4. s' \in Block
    BY <1>7, AddKeyType DEF CipherRound
  <2>5. rounds' \in [0..13 -> Block] /\ rnd' \in 1..Nr
    BY <1>7, <2>2, <2>3, <2>4 DEF CipherRound
  <2> QED BY <1>7, <2>1, <2>2, <2>4, <2>5 DEF CipherRound, Types
<1>8. CASE CipherEnd
  <2>1. k' = k /\ Nr' = Nr /\ Top' = Top
    BY <1>8, NrStays DEF CipherEnd
  <2>2. err = 0 /\ k.Nk \in AES_LENGTHS
    BY <1>8 DEF CipherEnd, Types, EINVAL
  <2>3. Nr \in {10, 12, 14}
    BY <2>2, Lengths
  <2>4. res' \in Block
    BY <1>8, AddKeyType DEF CipherEnd
  <2> QED BY <1>8, <2>1, <2>2, <2>3, <2>4 DEF CipherEnd, Types
<1>9. CASE InverseRound
  <2>1. k' = k /\ Nr' = Nr /\ Top' = Top
    BY <1>9, NrStays DEF InverseRound
  <2>2. err = 0 /\ k.Nk \in AES_LENGTHS /\ rnd \in 0..(Nr - 1) /\ rnd > 0 /\ rnd' = rnd - 1
    BY <1>9 DEF InverseRound, Types, EINVAL
  <2>3. Nr \in {10, 12, 14}
    BY <2>2, Lengths
  <2>4. s' \in Block
    BY <1>9, AddKeyType DEF InverseRound
  <2>5. rnd' \in 0..(Nr - 1)
    BY <2>2, <2>3
  <2> QED BY <1>9, <2>1, <2>2, <2>4, <2>5 DEF InverseRound, Types
<1>10. CASE InverseEnd
  <2>1. k' = k /\ Nr' = Nr /\ Top' = Top
    BY <1>10, NrStays DEF InverseEnd
  <2>2. err = 0 /\ k.Nk \in AES_LENGTHS /\ rnd = 0 /\ op = "decrypt"
    BY <1>10 DEF InverseEnd, Types, EINVAL
  <2>3. Nr \in {10, 12, 14}
    BY <2>2, Lengths
  <2>4. res' \in Block
    BY <1>10, AddKeyType DEF InverseEnd
  <2> QED BY <1>10, <2>1, <2>2, <2>3, <2>4 DEF InverseEnd, Types
<1>11. CASE UNCHANGED aes_vars
  BY <1>11 DEF aes_vars, Types, Top, Nr
<1> QED BY <1>1, <1>2, <1>3, <1>4, <1>5, <1>6, <1>7, <1>8, <1>9, <1>10, <1>11 DEF AesNext

----------------------------------------------------------------------------
(* The invariant.                                                          *)

\* The words w and the constants cs are those of key_expansion, up to top.
Schedule(key, w, cs, top) ==
    /\ \A n \in 0..(key.Nk - 1) : w[n] = key.words[n]
    /\ cs[key.Nk] = {0}
    /\ \A n \in key.Nk .. (top - 1) :
          w[n] = NextWord(key, w, n, cs[n]) /\ cs[n + 1] = NextConstant(key, n, cs[n])

KeyOfRound(w, rd) == [j \in 0..3 |-> w[Nb * rd + j]]

\* The rounds of a call with the round keys w, up to the last one done.
Rounds(block, w, v, last) ==
    /\ v[0] = AddRoundKey(block, KeyOfRound(w, 0))
    /\ \A rd \in 1..last : v[rd] = FipsRound(v[rd - 1], KeyOfRound(w, rd))
AesResult(w, v) == AddRoundKey(Shifted(v[Nr - 1]), KeyOfRound(w, Nr))

\* An encryption has expanded its key up to kw and done the rounds up to rnd.
FirstKeys ==
    aes_pc # "call" /\ err = 0 /\ op = "encrypt" =>
       Schedule(k, rk, rcons, kw) /\ rcon = rcons[kw]
FirstRounds ==
    aes_pc \in {"cipher", "done"} /\ err = 0 /\ op = "encrypt" =>
       /\ Rounds(in, rk, rounds, rnd - 1)
       /\ aes_pc = "cipher" => s = rounds[rnd - 1]
       /\ aes_pc = "done" => res = AesResult(rk, rounds)

\* A decryption is given the result of the encryption, and what that one did is
\* on record.
Recorded ==
    aes_pc # "call" /\ op = "decrypt" =>
       /\ err = 0
       /\ encrypted.in \in Block /\ encrypted.rk \in [0..59 -> Word]
       /\ encrypted.rounds \in [0..13 -> Block]
       /\ Schedule(k, encrypted.rk, encrypted.rcons, Top)
       /\ Rounds(encrypted.in, encrypted.rk, encrypted.rounds, Nr - 1)
       /\ in = AesResult(encrypted.rk, encrypted.rounds)

\* It expands the same key, and mixes the inner round keys.
SecondKeys ==
    aes_pc # "call" /\ op = "decrypt" =>
       /\ aes_pc \in {"expand", "eic"} =>
             /\ \A n \in 0..(kw - 1) : rk[n] = encrypted.rk[n]
             /\ rcon = encrypted.rcons[kw]
       /\ aes_pc \in {"start", "inverse", "done"} =>
             \A n \in 0..(Top - 1) :
                rk[n] = IF n \in MixedKeys THEN inv_mix_columns(encrypted.rk[n])
                        ELSE encrypted.rk[n]

\* It goes back through the states of the encryption, each after SubBytes and
\* ShiftRows.
SecondRounds ==
    op = "decrypt" =>
       /\ aes_pc = "inverse" => s = Shifted(encrypted.rounds[rnd])
       /\ aes_pc = "done" => res = encrypted.in

AesIInv == Types /\ FirstKeys /\ FirstRounds /\ Recorded /\ SecondKeys /\ SecondRounds

LEMMA AesInitInv == AesInit => AesIInv
BY InitTypes DEF AesInit, AesIInv, FirstKeys, FirstRounds, Recorded, SecondKeys, SecondRounds

\* A word of the schedule depends on earlier words only.
LEMMA NextWordDepends ==
    ASSUME NEW key, NEW w, NEW v, NEW n, NEW cs,
           w[n - key.Nk] = v[n - key.Nk], w[n - 1] = v[n - 1]
    PROVE  NextWord(key, w, n, cs) = NextWord(key, v, n, cs)
BY DEF NextWord

\* The first top values of two arrays are the same.
Agree(v, w, top) == \A n \in 0..(top - 1) : v[n] = w[n]

LEMMA ScheduleGrows ==
    ASSUME NEW key, key.Nk \in {4, 6, 8}, NEW w, NEW cs, NEW top \in key.Nk .. 59,
           Schedule(key, w, cs, top), NEW v, NEW ds,
           Agree(v, w, top), v[top] = NextWord(key, w, top, cs[top]),
           Agree(ds, cs, top + 1),
           ds[top + 1] = NextConstant(key, top, cs[top])
    PROVE  Schedule(key, v, ds, top + 1)
<1>1. \A n \in 0..(top - 1) : v[n] = w[n]
  BY DEF Agree
<1>2. \A n \in 0..top : ds[n] = cs[n]
  BY DEF Agree
<1>3. v[top] = NextWord(key, w, top, cs[top]) /\ ds[top + 1] = NextConstant(key, top, cs[top])
  OBVIOUS
<1>4. \A n \in 0..(key.Nk - 1) : v[n] = key.words[n]
  <2>1. \A n \in 0..(key.Nk - 1) : n \in 0..(top - 1)
    OBVIOUS
  <2> QED BY <1>1, <2>1 DEF Schedule
<1>5. ds[key.Nk] = {0}
  <2>1. key.Nk \in 0..top
    OBVIOUS
  <2> QED BY <1>2, <2>1 DEF Schedule
<1>6. ASSUME NEW n \in key.Nk .. (top + 1 - 1)
      PROVE  v[n] = NextWord(key, v, n, ds[n]) /\ ds[n + 1] = NextConstant(key, n, ds[n])
  <2>1. n - key.Nk \in 0..(top - 1) /\ n - 1 \in 0..(top - 1) /\ n \in 0..top
    OBVIOUS
  <2>2. NextWord(key, v, n, ds[n]) = NextWord(key, w, n, cs[n])
    BY <1>1, <1>2, <2>1, NextWordDepends
  <2>3. CASE n = top
    BY <1>2, <1>3, <2>1, <2>2, <2>3
  <2>4. CASE n \in key.Nk .. (top - 1)
    <3>1. n \in 0..(top - 1) /\ n + 1 \in 0..top
      BY <2>4
    <3>2. w[n] = NextWord(key, w, n, cs[n]) /\ cs[n + 1] = NextConstant(key, n, cs[n])
      BY <2>4 DEF Schedule
    <3> QED BY <1>1, <1>2, <2>1, <2>2, <3>1, <3>2
  <2> QED BY <2>3, <2>4
<1> QED BY <1>4, <1>5, <1>6 DEF Schedule

\* The words of a round key are among the words of the expanded key.
LEMMA KeyIndices ==
    ASSUME k.Nk \in AES_LENGTHS, NEW rd \in 0..Nr, NEW j \in 0..3
    PROVE  /\ Nb * rd + j \in 0..(Top - 1) /\ Nb * rd + j \in 0..59
           /\ Nb * rd + j \in MixedKeys <=> rd \in 1..(Nr - 1)
<1>1. Nr \in {10, 12, 14} /\ Nr \in Nat /\ Top = 4 * Nr + 4
  BY Lengths DEF Top, Nb
<1>2. Nb * rd + j = 4 * rd + j /\ MixedKeys = 4..(4 * Nr - 1)
  BY <1>1 DEF Nb, MixedKeys
<1>3. rd \in 0..Nr /\ rd \in Nat /\ j \in 0..3
  BY <1>1
<1>4. 4 * rd + j \in 0..(4 * Nr + 3)
  BY <1>1, <1>3
<1>5. 4 * rd + j \in 4..(4 * Nr - 1) <=> rd \in 1..(Nr - 1)
  BY <1>1, <1>3
<1>6. 0..(4 * Nr + 3) = 0..(Top - 1) /\ 0..(4 * Nr + 3) \subseteq 0..59
  <2>1. Top - 1 = 4 * Nr + 3
    BY <1>1
  <2>2. 4 * Nr + 3 <= 59
    BY <1>1
  <2> QED BY <1>1, <2>1, <2>2
<1>7. 4 * rd + j \in 0..(Top - 1) /\ 4 * rd + j \in 0..59
  BY <1>4, <1>6
<1> QED BY <1>2, <1>5, <1>7

LEMMA KeyOfType ==
    ASSUME k.Nk \in AES_LENGTHS, NEW rd \in 0..Nr, NEW w \in [0..59 -> Word]
    PROVE  KeyOfRound(w, rd) \in Block
BY KeyIndices DEF KeyOfRound, Block

LEMMA KeysOfRounds ==
    ASSUME NEW rd
    PROVE  RoundKey(rd) = KeyOfRound(rk, rd)
BY DEF RoundKey, KeyOfRound

LEMMA BeginSchedule ==
    ASSUME NEW function, NEW block, NEW key, key.Nk \in {4, 6, 8},
           Begin(function, block, key)
    PROVE  Schedule(k', rk', rcons', kw') /\ rcon' = rcons'[kw'] /\ rcon' = {0}
<1>1. k' = key /\ kw' = key.Nk /\ rcon' = {0}
  BY DEF Begin, Accepted
<1>2. rk' = [n \in 0..59 |-> IF n < key.Nk THEN key.words[n] ELSE Zero]
  BY DEF Begin, Accepted
<1>3. rcons' = [n \in 0..60 |-> {0}]
  BY DEF Begin, Accepted
<1>4. \A n \in 0..(key.Nk - 1) : n \in 0..59 /\ n < key.Nk
  OBVIOUS
<1>5. \A n \in 0..(key.Nk - 1) : rk'[n] = key.words[n]
  BY <1>2, <1>4
<1>6. rcons'[key.Nk] = {0}
  BY <1>3
<1>7. key.Nk .. (key.Nk - 1) = {}
  OBVIOUS
<1> QED BY <1>1, <1>5, <1>6, <1>7 DEF Schedule

\* What AesIInv and a step of the loops give.
LEMMA Facts ==
    ASSUME Types, aes_pc # "call", err = 0
    PROVE  /\ k.Nk \in AES_LENGTHS /\ k.Nk \in {4, 6, 8} /\ Nr \in {10, 12, 14}
           /\ Top \in {44, 52, 60} /\ kw \in k.Nk .. Top
           /\ rk \in [0..59 -> Word] /\ rcons \in [0..60 -> Byte]
BY Lengths DEF Types

LEMMA StepFirst ==
    ASSUME AesIInv, [AesNext]_aes_vars
    PROVE  FirstKeys' /\ FirstRounds'
<1> USE DEF AesIInv
<1>1. CASE aes_encrypt
  <2>1. PICK block \in AesBlocks, key \in AesKeys : Begin("encrypt", block, key)
    BY <1>1 DEF aes_encrypt
  <2>2. CASE key.Nk \in AES_LENGTHS
    <3>1. aes_pc' = "expand" /\ key.Nk \in {4, 6, 8}
      BY <2>1, <2>2 DEF Begin, Accepted, AES_LENGTHS
    <3> QED BY <2>1, <3>1, BeginSchedule DEF FirstKeys, FirstRounds
  <2>3. CASE key.Nk \notin AES_LENGTHS
    <3>1. err' = EINVAL
      BY <2>1, <2>3 DEF Begin, Accepted
    <3> QED BY <3>1 DEF FirstKeys, FirstRounds, EINVAL
  <2> QED BY <2>2, <2>3
<1>2. CASE aes_decrypt
  <2>1. op' = "decrypt"
    BY <1>2 DEF aes_decrypt, Begin, Accepted
  <2> QED BY <2>1 DEF FirstKeys, FirstRounds
<1>3. CASE ExpandWord
  <2>1. /\ aes_pc = "expand" /\ kw < Top /\ kw' = kw + 1 /\ err = 0 /\ k' = k
        /\ rcons' = [rcons EXCEPT ![kw + 1] = rcon']
        /\ aes_pc' = "expand" /\ op' = op /\ err' = err
    BY <1>3 DEF ExpandWord, Types, Top, EINVAL
  <2>2. CASE op = "encrypt"
    <3>1. /\ k.Nk \in {4, 6, 8} /\ rk \in [0..59 -> Word] /\ rcons \in [0..60 -> Byte]
          /\ kw \in k.Nk .. 59
      BY <2>1, Facts
    <3>2. Schedule(k, rk, rcons, kw) /\ rcon = rcons[kw]
      BY <2>1, <2>2 DEF FirstKeys
    <3>3. /\ rk' = [rk EXCEPT ![kw] = NextWord(k, rk, kw, rcons[kw])]
          /\ rcon' = NextConstant(k, kw, rcons[kw])
      BY <1>3, <3>2, ExpandWordWrites
    <3>4. rcons' = [rcons EXCEPT ![kw + 1] = NextConstant(k, kw, rcons[kw])]
      BY <2>1, <3>3
    <3>5. Schedule(k, rk', rcons', kw + 1)
      <4>1. Agree(rk', rk, kw)
        <5>1. \A n \in 0..(kw - 1) : n \in 0..59 /\ n # kw
          BY <3>1
        <5> QED BY <3>1, <3>3, <5>1 DEF Agree
      <4>2. rk'[kw] = NextWord(k, rk, kw, rcons[kw])
        BY <3>1, <3>3
      <4>3. Agree(rcons', rcons, kw + 1)
        <5>1. \A n \in 0..(kw + 1 - 1) : n \in 0..60 /\ n # kw + 1
          BY <3>1
        <5> QED BY <3>1, <3>4, <5>1 DEF Agree
      <4>4. rcons'[kw + 1] = NextConstant(k, kw, rcons[kw])
        BY <3>1, <3>4
      <4> QED BY <3>1, <3>2, <4>1, <4>2, <4>3, <4>4, ScheduleGrows
    <3>6. rcon' = rcons'[kw + 1]
      BY <2>1, <3>1
    <3> QED BY <2>1, <3>5, <3>6 DEF FirstKeys, FirstRounds
  <2>3. CASE op # "encrypt"
    BY <2>1, <2>3 DEF FirstKeys, FirstRounds
  <2> QED BY <2>2, <2>3
<1>4. CASE EndExpansion
  BY <1>4 DEF EndExpansion, FirstKeys, FirstRounds
<1>5. CASE MixKeys
  <2>1. op = "decrypt" /\ op' = op
    BY <1>5 DEF MixKeys, Types, EINVAL
  <2> QED BY <2>1 DEF FirstKeys, FirstRounds
<1>6. CASE Start
  <2>1. CASE op = "encrypt"
    <3>1. /\ s' = AddRoundKey(in, KeyOfRound(rk, 0)) /\ rounds' = [n \in 0..13 |-> s']
          /\ rnd' = 1 /\ aes_pc' = "cipher" /\ in' = in /\ rk' = rk
      BY <1>6, <2>1, KeysOfRounds DEF Start
    <3>2. Rounds(in, rk, rounds', 0) /\ s' = rounds'[0]
      BY <3>1 DEF Rounds
    <3>3. FirstRounds'
      BY <3>1, <3>2 DEF FirstRounds
    <3>4. FirstKeys'
      BY <1>6 DEF Start, FirstKeys
    <3> QED BY <3>3, <3>4
  <2>2. CASE op # "encrypt"
    <3>1. op' = op
      BY <1>6 DEF Start
    <3> QED BY <2>2, <3>1 DEF FirstKeys, FirstRounds
  <2> QED BY <2>1, <2>2
<1>7. CASE CipherRound
  <2>1. /\ aes_pc = "cipher" /\ err = 0 /\ op = "encrypt" /\ rnd \in 1..Nr /\ rnd < Nr
        /\ rounds \in [0..13 -> Block] /\ rnd' = rnd + 1 /\ aes_pc' = "cipher"
    BY <1>7 DEF CipherRound, Types, EINVAL
  <2>2. Nr \in {10, 12, 14}
    BY <2>1, Facts
  <2>3. Rounds(in, rk, rounds, rnd - 1) /\ s = rounds[rnd - 1]
    BY <2>1 DEF FirstRounds
  <2>4. s \in Block
    BY <2>1 DEF Types
  <2>5. s' = FipsRound(rounds[rnd - 1], KeyOfRound(rk, rnd))
    <3>1. s' = AddRoundKey(Lookups(s), RoundKey(rnd))
      BY <1>7 DEF CipherRound, Lookups
    <3> QED BY <2>3, <2>4, <3>1, KeysOfRounds, LookupsAreFips DEF FipsRound, Shifted
  <2>6. rounds' = [rounds EXCEPT ![rnd] = s']
    BY <1>7 DEF CipherRound
  <2>7. \A rd \in 0..(rnd - 1) : rounds'[rd] = rounds[rd]
    <3>1. \A rd \in 0..(rnd - 1) : rd \in 0..13 /\ rd # rnd
      BY <2>1, <2>2
    <3> QED BY <2>1, <2>6, <3>1
  <2>8. rounds'[rnd] = s'
    <3>1. rnd \in 0..13
      BY <2>1, <2>2
    <3> QED BY <2>1, <2>6, <3>1
  <2>9. ASSUME NEW rd \in 1..rnd
        PROVE  rounds'[rd] = FipsRound(rounds'[rd - 1], KeyOfRound(rk, rd))
    <3>1. rd - 1 \in 0..(rnd - 1)
      BY <2>1, <2>2
    <3>2. CASE rd = rnd
      BY <2>5, <2>7, <2>8, <3>1, <3>2
    <3>3. CASE rd \in 1..(rnd - 1)
      BY <2>3, <2>7, <3>1, <3>3 DEF Rounds
    <3> QED BY <2>1, <2>2, <3>2, <3>3
  <2>10. rounds'[0] = AddRoundKey(in, KeyOfRound(rk, 0))
    <3>1. 0 \in 0..(rnd - 1)
      BY <2>1, <2>2
    <3> QED BY <2>3, <2>7, <3>1 DEF Rounds
  <2>11. Rounds(in, rk, rounds', rnd) /\ rnd' - 1 = rnd
    BY <2>1, <2>2, <2>9, <2>10 DEF Rounds
  <2>12. FirstRounds'
    BY <1>7, <2>1, <2>8, <2>11 DEF CipherRound, FirstRounds
  <2> QED BY <1>7, <2>12 DEF CipherRound, FirstKeys
<1>8. CASE CipherEnd
  <2>1. /\ aes_pc = "cipher" /\ err = 0 /\ op = "encrypt" /\ rnd = Nr /\ s \in Block
    BY <1>8 DEF CipherEnd, Types, EINVAL
  <2>2. Rounds(in, rk, rounds, rnd - 1) /\ s = rounds[rnd - 1]
    BY <2>1 DEF FirstRounds
  <2>3. res' = AesResult(rk, rounds)
    <3>1. res' = AddRoundKey(LastLookups(s), RoundKey(Nr))
      BY <1>8 DEF CipherEnd, LastLookups
    <3> QED BY <2>1, <2>2, <3>1, KeysOfRounds, LookupsAreFips DEF AesResult
  <2>4. Nr' = Nr
    BY <1>8, NrStays DEF CipherEnd
  <2>5. AesResult(rk, rounds)' = AesResult(rk, rounds)
    BY <1>8, <2>4 DEF CipherEnd, AesResult
  <2>6. FirstRounds'
    BY <1>8, <2>2, <2>3, <2>5 DEF CipherEnd, FirstRounds
  <2> QED BY <1>8, <2>6 DEF CipherEnd, FirstKeys
<1>9. CASE InverseRound
  <2>1. op = "decrypt" /\ op' = op
    BY <1>9 DEF InverseRound, Types, EINVAL
  <2> QED BY <2>1 DEF FirstKeys, FirstRounds
<1>10. CASE InverseEnd
  <2>1. op = "decrypt" /\ op' = op
    BY <1>10 DEF InverseEnd, Types, EINVAL
  <2> QED BY <2>1 DEF FirstKeys, FirstRounds
<1>11. CASE UNCHANGED aes_vars
  <2>1. AesResult(rk, rounds)' = AesResult(rk, rounds)
    BY <1>11, NrStays DEF aes_vars, AesResult
  <2> QED BY <1>11, <2>1 DEF aes_vars, FirstKeys, FirstRounds
<1> QED BY <1>1, <1>2, <1>3, <1>4, <1>5, <1>6, <1>7, <1>8, <1>9, <1>10, <1>11 DEF AesNext

\* An encryption that has ended is put on record as it was.
LEMMA StepRecorded ==
    ASSUME AesIInv, [AesNext]_aes_vars
    PROVE  Recorded'
<1> USE DEF AesIInv
<1>1. CASE aes_encrypt
  <2>1. op' = "encrypt"
    BY <1>1 DEF aes_encrypt, Begin, Accepted
  <2> QED BY <2>1 DEF Recorded
<1>2. CASE aes_decrypt
  <2>1. /\ aes_pc = "done" /\ op = "encrypt" /\ err = 0 /\ Begin("decrypt", res, k)
        /\ encrypted' = [in |-> in, rk |-> rk, rcons |-> rcons, rounds |-> rounds,
                         res |-> res]
    BY <1>2 DEF aes_decrypt
  <2>2. k.Nk \in AES_LENGTHS /\ in \in Block /\ rk \in [0..59 -> Word]
        /\ rounds \in [0..13 -> Block] /\ kw = Top /\ rnd = Nr
    BY <2>1 DEF Types
  <2>3. k' = k /\ in' = res /\ err' = 0
    BY <2>1, <2>2 DEF Begin, Accepted
  <2>4. Nr' = Nr /\ Top' = Top
    BY <2>3, NrStays
  <2>5. Schedule(k, rk, rcons, Top) /\ Rounds(in, rk, rounds, Nr - 1)
        /\ res = AesResult(rk, rounds)
    BY <2>1, <2>2 DEF FirstKeys, FirstRounds
  <2>6. /\ encrypted'.in = in /\ encrypted'.rk = rk /\ encrypted'.rcons = rcons
        /\ encrypted'.rounds = rounds
    BY <2>1
  <2>7. AesResult(encrypted.rk, encrypted.rounds)' = AesResult(rk, rounds)
    BY <2>4, <2>6 DEF AesResult
  <2> QED BY <2>2, <2>3, <2>4, <2>5, <2>6, <2>7 DEF Recorded
<1>3. CASE /\ UNCHANGED <<op, in, k, err, encrypted>>
           /\ aes_pc # "call"
  <2>1. Nr' = Nr /\ Top' = Top
    BY <1>3, NrStays
  <2>2. AesResult(encrypted.rk, encrypted.rounds)' = AesResult(encrypted.rk, encrypted.rounds)
    BY <1>3, <2>1 DEF AesResult
  <2> QED BY <1>3, <2>1, <2>2 DEF Recorded
<1>4. CASE \/ ExpandWord \/ EndExpansion \/ MixKeys \/ Start \/ CipherRound
           \/ CipherEnd \/ InverseRound \/ InverseEnd
  BY <1>3, <1>4 DEF ExpandWord, EndExpansion, MixKeys, Start, CipherRound, CipherEnd,
                    InverseRound, InverseEnd
<1>5. CASE UNCHANGED aes_vars
  <2>1. CASE aes_pc = "call"
    BY <1>5, <2>1 DEF aes_vars, Recorded
  <2> QED BY <1>3, <1>5, <2>1 DEF aes_vars
<1> QED BY <1>1, <1>2, <1>4, <1>5 DEF AesNext

\* The round keys of the second call are those of the first, the inner ones
\* mixed.
LEMMA SecondKeyOf ==
    ASSUME Types, Recorded, SecondKeys, aes_pc \in {"start", "inverse", "done"},
           op = "decrypt", NEW rd \in 0..Nr
    PROVE  KeyOfRound(rk, rd) = IF rd \in 1..(Nr - 1)
                          THEN [j \in 0..3 |-> inv_mix_columns(KeyOfRound(encrypted.rk, rd)[j])]
                          ELSE KeyOfRound(encrypted.rk, rd)
<1>1. k.Nk \in AES_LENGTHS
  BY DEF Types, Recorded
<1>2. \A n \in 0..(Top - 1) :
         rk[n] = IF n \in MixedKeys THEN inv_mix_columns(encrypted.rk[n])
                 ELSE encrypted.rk[n]
  BY DEF SecondKeys
<1>3. \A j \in 0..3 : rk[Nb * rd + j] = IF rd \in 1..(Nr - 1)
                                       THEN inv_mix_columns(encrypted.rk[Nb * rd + j])
                                       ELSE encrypted.rk[Nb * rd + j]
  BY <1>1, <1>2, KeyIndices
<1>4. CASE rd \in 1..(Nr - 1)
  BY <1>3, <1>4 DEF KeyOfRound
<1>5. CASE rd \notin 1..(Nr - 1)
  BY <1>3, <1>5 DEF KeyOfRound
<1> QED BY <1>4, <1>5

LEMMA StepSecondKeys ==
    ASSUME AesIInv, [AesNext]_aes_vars
    PROVE  SecondKeys'
<1> USE DEF AesIInv
<1>1. CASE aes_encrypt
  <2>1. op' = "encrypt"
    BY <1>1 DEF aes_encrypt, Begin, Accepted
  <2> QED BY <2>1 DEF SecondKeys
<1>2. CASE aes_decrypt
  <2>1. /\ aes_pc = "done" /\ op = "encrypt" /\ err = 0 /\ Begin("decrypt", res, k)
        /\ encrypted'.rk = rk /\ encrypted'.rcons = rcons
    BY <1>2 DEF aes_decrypt
  <2>2. k.Nk \in {4, 6, 8} /\ k.Nk \in AES_LENGTHS /\ kw = Top
    BY <2>1, Facts DEF Types
  <2>3. aes_pc' = "expand" /\ kw' = k.Nk /\ rcon' = {0}
    BY <2>1, <2>2 DEF Begin, Accepted
  <2>4. Schedule(k, rk, rcons, kw)
    BY <2>1 DEF FirstKeys
  <2>5. \A n \in 0..(k.Nk - 1) : rk'[n] = k.words[n] /\ rk[n] = k.words[n]
    <3>1. Schedule(k', rk', rcons', kw')
      BY <2>1, <2>2, BeginSchedule
    <3>2. k' = k
      BY <2>1 DEF Begin, Accepted
    <3> QED BY <2>4, <3>1, <3>2 DEF Schedule
  <2>6. rcon' = encrypted'.rcons[kw']
    BY <2>1, <2>3, <2>4 DEF Schedule
  <2> QED BY <2>1, <2>3, <2>5, <2>6 DEF SecondKeys
<1>3. CASE ExpandWord
  <2>1. /\ aes_pc = "expand" /\ kw < Top /\ kw' = kw + 1 /\ err = 0 /\ k' = k
        /\ aes_pc' = "expand" /\ op' = op /\ encrypted' = encrypted
    BY <1>3 DEF ExpandWord, Types, Top, EINVAL
  <2>2. CASE op = "decrypt"
    <3>1. /\ k.Nk \in {4, 6, 8} /\ rk \in [0..59 -> Word] /\ kw \in k.Nk .. 59
          /\ kw \in k.Nk .. (Top - 1) /\ kw \in Nat
      BY <2>1, Facts
    <3>2. (\A n \in 0..(kw - 1) : rk[n] = encrypted.rk[n]) /\ rcon = encrypted.rcons[kw]
      BY <2>1, <2>2 DEF SecondKeys
    <3>3. /\ encrypted.rk[kw] = NextWord(k, encrypted.rk, kw, encrypted.rcons[kw])
          /\ encrypted.rcons[kw + 1] = NextConstant(k, kw, encrypted.rcons[kw])
      BY <2>1, <2>2, <3>1 DEF Recorded, Schedule
    <3>4. kw - k.Nk \in 0..(kw - 1) /\ kw - 1 \in 0..(kw - 1)
      BY <3>1
    <3>5. NextWord(k, rk, kw, rcon) = encrypted.rk[kw]
      BY <3>2, <3>3, <3>4, NextWordDepends
    <3>6. rk' = [rk EXCEPT ![kw] = encrypted.rk[kw]] /\ rcon' = encrypted.rcons[kw + 1]
      BY <1>3, <3>2, <3>3, <3>5, ExpandWordWrites
    <3>7. \A n \in 0..(kw + 1 - 1) : rk'[n] = encrypted.rk[n]
      BY <3>1, <3>2, <3>6
    <3>8. \A n \in 0..(kw' - 1) : rk'[n] = encrypted'.rk[n]
      <4>1. encrypted' = encrypted /\ kw' = kw + 1
        BY <2>1
      <4>2. encrypted'.rk = encrypted.rk
        BY <4>1
      <4>3. kw' - 1 = kw + 1 - 1
        BY <3>1, <4>1
      <4> QED BY <3>7, <4>2, <4>3
    <3>9. rcon' = encrypted'.rcons[kw']
      BY <2>1, <3>6
    <3> QED BY <2>1, <3>8, <3>9 DEF SecondKeys
  <2>3. CASE op # "decrypt"
    BY <2>1, <2>3 DEF SecondKeys
  <2> QED BY <2>2, <2>3
<1>4. CASE EndExpansion
  BY <1>4 DEF EndExpansion, SecondKeys, Types, EINVAL
<1>5. CASE MixKeys
  <2>1. op = "decrypt" /\ op' = op /\ err = 0 /\ kw = Top /\ k' = k /\ encrypted' = encrypted
        /\ aes_pc = "eic" /\ aes_pc' = "start"
    BY <1>5 DEF MixKeys, Types, EINVAL
  <2>2. \A n \in 0..(Top - 1) : rk[n] = encrypted.rk[n]
    BY <2>1 DEF SecondKeys
  <2>3. rk' = [n \in 0..59 |-> IF n \in MixedKeys THEN inv_mix_columns(rk[n]) ELSE rk[n]]
    BY <1>5 DEF MixKeys
  <2>4. \A n \in 0..(Top - 1) : n \in 0..59
    BY <2>1, Facts
  <2>5. \A n \in 0..(Top - 1) :
           rk'[n] = IF n \in MixedKeys THEN inv_mix_columns(encrypted.rk[n])
                    ELSE encrypted.rk[n]
    BY <2>2, <2>3, <2>4
  <2>6. Top' = Top /\ MixedKeys' = MixedKeys
    BY <2>1, NrStays DEF MixedKeys
  <2> QED BY <2>1, <2>5, <2>6 DEF SecondKeys
<1>6. CASE /\ UNCHANGED <<op, k, rk, kw, rcon, encrypted>>
           /\ aes_pc \in {"start", "inverse", "done"} /\ aes_pc' \in {"inverse", "done"}
  <2>1. Top' = Top /\ MixedKeys' = MixedKeys
    BY <1>6, NrStays DEF MixedKeys
  <2> QED BY <1>6, <2>1 DEF SecondKeys
<1>7. CASE Start
  <2>1. CASE op = "decrypt"
    BY <1>6, <1>7, <2>1 DEF Start
  <2>2. CASE op # "decrypt"
    BY <1>7, <2>2 DEF Start, SecondKeys
  <2> QED BY <2>1, <2>2
<1>8. CASE CipherRound \/ CipherEnd
  <2>1. op = "encrypt" /\ op' = op
    BY <1>8 DEF CipherRound, CipherEnd, Types, EINVAL
  <2> QED BY <2>1 DEF SecondKeys
<1>9. CASE InverseRound \/ InverseEnd
  BY <1>6, <1>9 DEF InverseRound, InverseEnd
<1>10. CASE UNCHANGED aes_vars
  <2>1. Top' = Top /\ MixedKeys' = MixedKeys
    BY <1>10, NrStays DEF aes_vars, MixedKeys
  <2> QED BY <1>10, <2>1 DEF aes_vars, SecondKeys
<1> QED BY <1>1, <1>2, <1>3, <1>4, <1>5, <1>7, <1>8, <1>9, <1>10 DEF AesNext

LEMMA StepSecondRounds ==
    ASSUME AesIInv, [AesNext]_aes_vars
    PROVE  SecondRounds'
<1> USE DEF AesIInv
<1>1. CASE aes_encrypt \/ aes_decrypt
  <2>1. aes_pc' = "expand" \/ (aes_pc' = "done" /\ err' = EINVAL)
    BY <1>1 DEF aes_encrypt, aes_decrypt, Begin, Accepted
  <2>2. CASE aes_encrypt
    <3>1. op' = "encrypt"
      BY <2>2 DEF aes_encrypt, Begin, Accepted
    <3> QED BY <3>1 DEF SecondRounds
  <2>3. CASE aes_decrypt
    <3>1. aes_pc' = "expand"
      BY <2>3 DEF aes_decrypt, Begin, Accepted, Types
    <3> QED BY <3>1 DEF SecondRounds
  <2> QED BY <1>1, <2>2, <2>3
<1>2. CASE ExpandWord \/ EndExpansion \/ MixKeys
  BY <1>2 DEF ExpandWord, EndExpansion, MixKeys, SecondRounds
<1>3. CASE Start
  <2>1. CASE op = "decrypt"
    <3>1. /\ aes_pc = "start" /\ rnd' = Nr - 1 /\ s' = AddRoundKey(in, KeyOfRound(rk, Nr))
          /\ encrypted' = encrypted /\ aes_pc' = "inverse"
      BY <1>3, <2>1, KeysOfRounds DEF Start
    <3>2. k.Nk \in AES_LENGTHS /\ Nr \in {10, 12, 14}
      BY <2>1, <3>1, Facts DEF Recorded
    <3>3. KeyOfRound(rk, Nr) = KeyOfRound(encrypted.rk, Nr)
      <4>1. Nr \in 0..Nr /\ Nr \notin 1..(Nr - 1)
        BY <3>2
      <4> QED BY <2>1, <3>1, <4>1, SecondKeyOf
    <3>4. in = AddRoundKey(Shifted(encrypted.rounds[Nr - 1]), KeyOfRound(encrypted.rk, Nr))
      BY <2>1, <3>1 DEF Recorded, AesResult
    <3>5. encrypted.rounds[Nr - 1] \in Block
      <4>1. Nr - 1 \in 0..13
        BY <3>2
      <4> QED BY <2>1, <3>1, <4>1 DEF Recorded
    <3>6. s' = Shifted(encrypted.rounds[Nr - 1])
      BY <3>1, <3>3, <3>4, <3>5, ShiftedBytes, AddKeyTwice
    <3> QED BY <3>1, <3>6 DEF SecondRounds
  <2>2. CASE op # "decrypt"
    BY <1>3, <2>2 DEF Start, SecondRounds
  <2> QED BY <2>1, <2>2
<1>4. CASE CipherRound \/ CipherEnd
  <2>1. op = "encrypt" /\ op' = op
    BY <1>4 DEF CipherRound, CipherEnd, Types, EINVAL
  <2> QED BY <2>1 DEF SecondRounds
<1>5. CASE InverseRound
  <2>1. /\ aes_pc = "inverse" /\ op = "decrypt" /\ rnd \in 0..(Nr - 1) /\ rnd > 0
        /\ k.Nk \in AES_LENGTHS /\ Nr \in {10, 12, 14}
        /\ rnd' = rnd - 1 /\ encrypted' = encrypted /\ aes_pc' = "inverse"
    BY <1>5, Facts DEF InverseRound, Types, EINVAL
  <2>2. rnd \in 1..(Nr - 1) /\ rnd \in 0..Nr /\ rnd - 1 \in 0..13
    BY <2>1
  <2>3. s = Shifted(encrypted.rounds[rnd])
    BY <2>1 DEF SecondRounds
  <2>4. encrypted.rounds[rnd]
          = FipsRound(encrypted.rounds[rnd - 1], KeyOfRound(encrypted.rk, rnd))
    BY <2>1, <2>2 DEF Recorded, Rounds
  <2>5. KeyOfRound(rk, rnd) = [j \in 0..3 |-> inv_mix_columns(KeyOfRound(encrypted.rk, rnd)[j])]
    BY <2>1, <2>2, SecondKeyOf
  <2>6. s' = AddRoundKey(InverseLookups(s), KeyOfRound(rk, rnd))
    BY <1>5, KeysOfRounds DEF InverseRound, InverseLookups
  <2>7. encrypted.rounds[rnd - 1] \in Block /\ KeyOfRound(encrypted.rk, rnd) \in Block
    BY <2>1, <2>2, KeyOfType DEF Recorded
  <2>8. s' = Shifted(encrypted.rounds[rnd - 1])
    BY <2>3, <2>4, <2>5, <2>6, <2>7, InverseRoundUndoes
  <2> QED BY <2>1, <2>8 DEF SecondRounds
<1>6. CASE InverseEnd
  <2>1. /\ aes_pc = "inverse" /\ op = "decrypt" /\ rnd = 0 /\ err = 0
        /\ k.Nk \in AES_LENGTHS /\ Nr \in {10, 12, 14}
        /\ encrypted' = encrypted /\ aes_pc' = "done"
    BY <1>6, Facts DEF InverseEnd, Types, EINVAL
  <2>2. s = Shifted(encrypted.rounds[0]) /\ encrypted.rounds[0] \in Block
    BY <2>1 DEF SecondRounds, Recorded
  <2>3. res' = AddRoundKey(encrypted.rounds[0], KeyOfRound(rk, 0))
    <3>1. res' = AddRoundKey(LastInverseLookups(s), RoundKey(0))
      BY <1>6 DEF InverseEnd, LastInverseLookups
    <3> QED BY <2>2, <3>1, KeysOfRounds, InverseLookupsUndo
  <2>4. KeyOfRound(rk, 0) = KeyOfRound(encrypted.rk, 0)
    <3>1. 0 \in 0..Nr /\ 0 \notin 1..(Nr - 1)
      BY <2>1
    <3> QED BY <2>1, <3>1, SecondKeyOf
  <2>5. encrypted.rounds[0] = AddRoundKey(encrypted.in, KeyOfRound(encrypted.rk, 0))
        /\ encrypted.in \in Block
    BY <2>1 DEF Recorded, Rounds
  <2>6. res' = encrypted.in
    BY <2>3, <2>4, <2>5, AddKeyTwice
  <2> QED BY <2>1, <2>6 DEF SecondRounds
<1>7. CASE UNCHANGED aes_vars
  BY <1>7 DEF aes_vars, SecondRounds
<1> QED BY <1>1, <1>2, <1>3, <1>4, <1>5, <1>6, <1>7 DEF AesNext

----------------------------------------------------------------------------
(* Theorems.                                                               *)

LEMMA AesStep == AesIInv /\ [AesNext]_aes_vars => AesIInv'
<1> SUFFICES ASSUME AesIInv, [AesNext]_aes_vars PROVE AesIInv'
  OBVIOUS
<1>1. Types'
  BY StepTypes DEF AesIInv
<1>2. FirstKeys' /\ FirstRounds'
  BY StepFirst
<1>3. Recorded' /\ SecondKeys' /\ SecondRounds'
  BY StepRecorded, StepSecondKeys, StepSecondRounds
<1> QED BY <1>1, <1>2, <1>3 DEF AesIInv

LEMMA AesInvariant == AesSpec => []AesIInv
BY AesInitInv, AesStep, PTL DEF AesSpec

LEMMA AesInvImpliesTypeOK == AesIInv => AesTypeOK
<1> SUFFICES ASSUME AesIInv, aes_pc # "call" PROVE AesTypeOK
  BY DEF AesTypeOK
<1>1. CASE err # 0
  BY <1>1 DEF AesIInv, Types, AesTypeOK
<1>2. CASE err = 0
  <2>1. rnd \in 0..Nr
    BY <1>2, Facts DEF AesIInv, Types
  <2> QED BY <1>2, <2>1 DEF AesIInv, Types, AesTypeOK, Top
<1> QED BY <1>1, <1>2

\* The arrays, the loops and the results of both functions keep their types for
\* every key and block (aes.c:132-176, 211-293).
THEOREM AesTypeCorrect == AesSpec => []AesTypeOK
BY AesInvImpliesTypeOK, AesInvariant, PTL

\* aes_encrypt, with its lookup tables, is the cipher of FIPS 197 for every S-box,
\* key and block (aes.c:211-248, 299-322).
THEOREM CipherIsFips == AesSpec => []EncryptIsFips
<1>1. AesIInv => EncryptIsFips
  <2> SUFFICES ASSUME AesIInv, aes_pc \in {"cipher", "done"}, op = "encrypt", err = 0
               PROVE  EncryptIsFips
    BY DEF EncryptIsFips
  <2>1. Rounds(in, rk, rounds, rnd - 1)
        /\ (aes_pc = "done" => res = AesResult(rk, rounds))
    BY DEF AesIInv, FirstRounds
  <2> QED BY <2>1, KeysOfRounds DEF EncryptIsFips, Rounds, AesResult, Shifted
<1> QED BY <1>1, AesInvariant, PTL

\* aes_decrypt undoes aes_encrypt for every S-box with an inverse, every key and
\* every block (aes.c:185-201, 258-293, 367-390).
THEOREM DecryptInverts == AesSpec => []AesDecryptionInverts
<1>1. AesIInv => AesDecryptionInverts
  BY DEF AesIInv, Recorded, SecondRounds, AesDecryptionInverts
<1> QED BY <1>1, AesInvariant, PTL

----------------------------------------------------------------------------
(* SHA-256: the addition of words.  The carry is a function that unfolds as *)
(* it is defined, because one that does exists up to every bit.             *)

LEMMA LeastElement ==
    ASSUME NEW D, D \subseteq Nat, D # {}
    PROVE  \E m \in D : \A y \in D : m <= y
<1> DEFINE less == {ss \in Nat \X Nat : ss[1] < ss[2]}
<1>1. IsWellFoundedOn(less, Nat)
  BY NatLessThanWellFounded DEF OpToRel
<1>2. PICK m \in D : \A y \in D : ~ (<<y, m>> \in less)
  BY <1>1, WFMin
<1>3. ASSUME NEW y \in D PROVE m <= y
  <2>1. ~ (<<y, m>> \in less)
    BY <1>2
  <2>2. <<y, m>> \in Nat \X Nat /\ <<y, m>>[1] = y /\ <<y, m>>[2] = m
    OBVIOUS
  <2>3. ~ (y < m)
    BY <2>1, <2>2
  <2> QED BY <2>3
<1> QED BY <1>3

CarryStep(x, y, f, n) ==
    /\ n > 0
    /\ LET m == n - 1
       IN  (m \in x /\ m \in y) \/ ((m \in x \/ m \in y) /\ f[m])

CarryOf(x, y) == CHOOSE f : f = [n \in 0..31 |-> CarryStep(x, y, f, n)]

\* f unfolds up to bit m.
CarriesUpTo(x, y, f, m) ==
    /\ f = [n \in 0..31 |-> f[n]]
    /\ \A n \in 0..31 : n <= m => f[n] = CarryStep(x, y, f, n)

LEMMA CarryExists ==
    ASSUME NEW x, NEW y, NEW m \in Nat
    PROVE  \E f : CarriesUpTo(x, y, f, m)
<1> DEFINE Bad == {n \in Nat : ~ \E f : CarriesUpTo(x, y, f, n)}
<1>1. SUFFICES ASSUME Bad # {} PROVE FALSE
  OBVIOUS
<1>2. PICK n \in Bad : \A z \in Bad : n <= z
  <2>1. Bad \subseteq Nat
    OBVIOUS
  <2> HIDE DEF Bad
  <2> QED BY <1>1, <2>1, LeastElement
<1>3. n \in Nat /\ ~ \E f : CarriesUpTo(x, y, f, n)
  BY <1>2
<1>4. CASE n = 0
  <2> DEFINE g == [j \in 0..31 |-> FALSE]
  <2>1. g = [j \in 0..31 |-> g[j]] /\ \A j \in 0..31 : g[j] = FALSE
    OBVIOUS
  <2> HIDE DEF g
  <2>2. ASSUME NEW j \in 0..31, j <= 0 PROVE g[j] = CarryStep(x, y, g, j)
    <3>1. j = 0
      BY <2>2
    <3>2. CarryStep(x, y, g, 0) = FALSE
      BY DEF CarryStep
    <3> QED BY <2>1, <3>1, <3>2
  <2>3. CarriesUpTo(x, y, g, 0)
    BY <2>1, <2>2 DEF CarriesUpTo
  <2> QED BY <1>3, <1>4, <2>3
<1>5. CASE n # 0
  <2>1. n - 1 \in Nat /\ n - 1 \notin Bad
    BY <1>2, <1>3, <1>5
  <2>2. PICK f : CarriesUpTo(x, y, f, n - 1)
    BY <2>1
  <2> DEFINE g == [j \in 0..31 |-> IF j = n THEN CarryStep(x, y, f, j) ELSE f[j]]
  <2>3. /\ g = [j \in 0..31 |-> g[j]]
        /\ \A j \in 0..31 : j # n => g[j] = f[j]
        /\ n \in 0..31 => g[n] = CarryStep(x, y, f, n)
    OBVIOUS
  <2> HIDE DEF g
  <2>4. ASSUME NEW j \in 0..31, j <= n PROVE g[j] = CarryStep(x, y, g, j)
    <3>1. CarryStep(x, y, g, j) = CarryStep(x, y, f, j)
      <4>1. CASE j = 0
        BY <4>1 DEF CarryStep
      <4>2. CASE j # 0
        <5>1. j - 1 \in 0..31 /\ j - 1 # n
          BY <1>3, <2>4, <4>2
        <5>2. g[j - 1] = f[j - 1]
          BY <2>3, <5>1
        <5> QED BY <5>2 DEF CarryStep
      <4> QED BY <4>1, <4>2
    <3>2. CASE j = n
      BY <2>3, <3>1, <3>2
    <3>3. CASE j # n
      <4>1. j <= n - 1 /\ g[j] = f[j]
        BY <1>3, <2>3, <2>4, <3>3
      <4> QED BY <2>2, <3>1, <4>1 DEF CarriesUpTo
    <3> QED BY <3>2, <3>3
  <2>5. CarriesUpTo(x, y, g, n)
    BY <2>3, <2>4 DEF CarriesUpTo
  <2> QED BY <1>3, <2>5
<1> QED BY <1>4, <1>5

LEMMA CarryUnfolds ==
    ASSUME NEW x, NEW y, NEW n \in 0..31
    PROVE  CarryOf(x, y)[n] = CarryStep(x, y, CarryOf(x, y), n)
<1>1. PICK f : CarriesUpTo(x, y, f, 31)
  BY CarryExists
<1>2. f = [j \in 0..31 |-> CarryStep(x, y, f, j)]
  <2>1. f = [j \in 0..31 |-> f[j]] /\ \A j \in 0..31 : f[j] = CarryStep(x, y, f, j)
    <3>1. \A j \in 0..31 : j <= 31
      OBVIOUS
    <3> QED BY ONLY <1>1, <3>1, Zenon DEF CarriesUpTo
  <2>2. [j \in 0..31 |-> f[j]] = [j \in 0..31 |-> CarryStep(x, y, f, j)]
    BY <2>1
  <2> QED BY <2>1, <2>2
<1>3. CarryOf(x, y) = [j \in 0..31 |-> CarryStep(x, y, CarryOf(x, y), j)]
  BY <1>2 DEF CarryOf
<1> QED BY <1>3

LEMMA SumBits ==
    ASSUME NEW x, NEW y, NEW n \in 0..31
    PROVE  n \in sha256_add(x, y) <=> (((n \in x) # (n \in y)) # CarryOf(x, y)[n])
BY DEF sha256_add, CarryOf, CarryStep

\* f[n] is what the bits of x below n are worth, if bit n is worth two[n].
IsWorth(x, f, two) ==
    /\ f \in [0..32 -> Nat] /\ f[0] = 0
    /\ \A n \in 0..31 : f[n + 1] = f[n] + (IF n \in x THEN two[n] ELSE 0)

\* sha256_add is the addition modulo 2^32 of the code's uint32_t, whatever the two
\* words (sha.c:216-277).
THEOREM AdditionIsModular ==
    ASSUME NEW two \in [0..32 -> Nat], two[0] = 1, \A n \in 0..31 : two[n + 1] = 2 * two[n],
           NEW x, NEW y, NEW p, NEW q, NEW u,
           IsWorth(x, p, two), IsWorth(y, q, two), IsWorth(sha256_add(x, y), u, two)
    PROVE  p[32] + q[32] = u[32] \/ p[32] + q[32] = u[32] + two[32]
<1> DEFINE f == CarryOf(x, y)
           carried(n) == IF CarryStep(x, y, f, n) THEN two[n] ELSE 0
           Good == {n \in 0..32 : p[n] + q[n] = u[n] + carried(n)}
<1>1. 0 \in Good
  <2>1. ~CarryStep(x, y, f, 0)
    BY DEF CarryStep
  <2> QED BY <2>1 DEF IsWorth
<1>2. ASSUME NEW n \in 0..31, n \in Good PROVE n + 1 \in Good
  <2>1. /\ n + 1 \in 0..32 /\ n \in 0..32
        /\ two[n] \in Nat /\ two[n + 1] = 2 * two[n]
        /\ p[n] \in Nat /\ q[n] \in Nat /\ u[n] \in Nat
    BY DEF IsWorth
  <2>2. /\ p[n + 1] = p[n] + (IF n \in x THEN two[n] ELSE 0)
        /\ q[n + 1] = q[n] + (IF n \in y THEN two[n] ELSE 0)
        /\ u[n + 1] = u[n] + (IF n \in sha256_add(x, y) THEN two[n] ELSE 0)
    BY DEF IsWorth
  <2>3. f[n] <=> CarryStep(x, y, f, n)
    BY CarryUnfolds
  <2>4. n \in sha256_add(x, y) <=> (((n \in x) # (n \in y)) # f[n])
    BY SumBits
  <2>5. CarryStep(x, y, f, n + 1) <=> (n \in x /\ n \in y) \/ ((n \in x \/ n \in y) /\ f[n])
    <3>1. (n + 1) - 1 = n /\ n + 1 > 0
      OBVIOUS
    <3> QED BY <3>1 DEF CarryStep
  <2>7. /\ carried(n) = IF f[n] THEN two[n] ELSE 0
        /\ carried(n + 1) = IF (n \in x /\ n \in y) \/ ((n \in x \/ n \in y) /\ f[n])
                            THEN two[n + 1] ELSE 0
    BY <2>3, <2>5
  <2>8. f[n] \in BOOLEAN
    <3>1. CarryStep(x, y, f, n) \in BOOLEAN
      BY DEF CarryStep
    <3>2. f[n] = CarryStep(x, y, f, n)
      BY CarryUnfolds
    <3> QED BY <3>1, <3>2
  <2>9. p[n] + q[n] = u[n] + carried(n)
    BY <1>2
  <2>10. p[n + 1] + q[n + 1] = u[n + 1] + carried(n + 1)
    <3> DEFINE cin == f[n]
               inx == n \in x
               iny == n \in y
               bit == two[n]
               a1 == p[n]
               a2 == q[n]
               a3 == u[n]
               b1 == p[n + 1]
               b2 == q[n + 1]
               b3 == u[n + 1]
               cout == carried(n + 1)
    <3>1. /\ cin \in BOOLEAN /\ inx \in BOOLEAN /\ iny \in BOOLEAN
          /\ bit \in Nat /\ a1 \in Nat /\ a2 \in Nat /\ a3 \in Nat
      BY <2>1, <2>8
    <3>2. a1 + a2 = a3 + (IF cin THEN bit ELSE 0)
      BY <2>7, <2>9
    <3>3. cout = IF (inx /\ iny) \/ ((inx \/ iny) /\ cin) THEN 2 * bit ELSE 0
      BY <2>1, <2>7
    <3>4. b1 = a1 + (IF inx THEN bit ELSE 0) /\ b2 = a2 + (IF iny THEN bit ELSE 0)
      BY <2>2
    <3>5. b3 = a3 + (IF (inx <=> iny) <=> cin THEN bit ELSE 0)
      <4>1. n \in sha256_add(x, y) <=> ((inx <=> iny) <=> cin)
        <5>1. n \in sha256_add(x, y) <=> ((inx # iny) # cin)
          BY <2>4
        <5> HIDE DEF inx, iny, cin
        <5>2. ((inx # iny) # cin) <=> ((inx <=> iny) <=> cin)
          BY ONLY <3>1, Zenon
        <5> QED BY ONLY <5>1, <5>2, Zenon
      <4> HIDE DEF inx, iny, cin
      <4> QED BY <2>2, <4>1
    <3>6. b1 + b2 = b3 + cout
      <4> HIDE DEF cin, inx, iny, bit, a1, a2, a3, b1, b2, b3, cout
      <4>1. CASE cin /\ inx /\ iny
        <5>1. a1 + a2 = a3 + bit /\ cout = 2 * bit /\ b1 = a1 + bit /\ b2 = a2 + bit /\ b3 = a3 + bit
          BY ONLY <3>1, <3>2, <3>3, <3>4, <3>5, <4>1
        <5> QED BY ONLY <3>1, <5>1
      <4>2. CASE cin /\ inx /\ ~iny
        <5>1. a1 + a2 = a3 + bit /\ cout = 2 * bit /\ b1 = a1 + bit /\ b2 = a2 /\ b3 = a3
          BY ONLY <3>1, <3>2, <3>3, <3>4, <3>5, <4>2
        <5> QED BY ONLY <3>1, <5>1
      <4>3. CASE cin /\ ~inx /\ iny
        <5>1. a1 + a2 = a3 + bit /\ cout = 2 * bit /\ b1 = a1 /\ b2 = a2 + bit /\ b3 = a3
          BY ONLY <3>1, <3>2, <3>3, <3>4, <3>5, <4>3
        <5> QED BY ONLY <3>1, <5>1
      <4>4. CASE cin /\ ~inx /\ ~iny
        <5>1. a1 + a2 = a3 + bit /\ cout = 0 /\ b1 = a1 /\ b2 = a2 /\ b3 = a3 + bit
          BY ONLY <3>1, <3>2, <3>3, <3>4, <3>5, <4>4
        <5> QED BY ONLY <3>1, <5>1
      <4>5. CASE ~cin /\ inx /\ iny
        <5>1. a1 + a2 = a3 /\ cout = 2 * bit /\ b1 = a1 + bit /\ b2 = a2 + bit /\ b3 = a3
          BY ONLY <3>1, <3>2, <3>3, <3>4, <3>5, <4>5
        <5> QED BY ONLY <3>1, <5>1
      <4>6. CASE ~cin /\ inx /\ ~iny
        <5>1. a1 + a2 = a3 /\ cout = 0 /\ b1 = a1 + bit /\ b2 = a2 /\ b3 = a3 + bit
          BY ONLY <3>1, <3>2, <3>3, <3>4, <3>5, <4>6
        <5> QED BY ONLY <3>1, <5>1
      <4>7. CASE ~cin /\ ~inx /\ iny
        <5>1. a1 + a2 = a3 /\ cout = 0 /\ b1 = a1 /\ b2 = a2 + bit /\ b3 = a3 + bit
          BY ONLY <3>1, <3>2, <3>3, <3>4, <3>5, <4>7
        <5> QED BY ONLY <3>1, <5>1
      <4>8. CASE ~cin /\ ~inx /\ ~iny
        <5>1. a1 + a2 = a3 /\ cout = 0 /\ b1 = a1 /\ b2 = a2 /\ b3 = a3
          BY ONLY <3>1, <3>2, <3>3, <3>4, <3>5, <4>8
        <5> QED BY ONLY <3>1, <5>1
      <4> QED BY ONLY <3>1, <4>1, <4>2, <4>3, <4>4, <4>5, <4>6, <4>7, <4>8
    <3> QED BY ONLY <3>6 DEF b1, b2, b3, cout
  <2> QED BY <2>1, <2>10
<1>3. 32 \in Good
  <2> DEFINE Bad == {n \in 0..32 : n \notin Good}
  <2> HIDE DEF Good
  <2>1. SUFFICES ASSUME Bad # {} PROVE FALSE
    OBVIOUS
  <2>2. PICK m \in Bad : \A z \in Bad : m <= z
    <3>1. Bad \subseteq Nat
      OBVIOUS
    <3> HIDE DEF Bad
    <3> QED BY <2>1, <3>1, LeastElement
  <2>3. m # 0
    BY <1>1, <2>2
  <2>4. m - 1 \in 0..31 /\ m - 1 \notin Bad /\ (m - 1) + 1 = m
    BY <2>2, <2>3
  <2>5. m - 1 \in Good
    BY <2>4
  <2> QED BY <1>2, <2>2, <2>4, <2>5
<1>4. p[32] \in Nat /\ q[32] \in Nat /\ u[32] \in Nat /\ two[32] \in Nat
  BY DEF IsWorth
<1> QED BY <1>3, <1>4

----------------------------------------------------------------------------
(* The machine of SHA-256.                                                 *)

HashIInv ==
    /\ hash_pc \in {"call", "schedule", "rounds", "done"} /\ t \in 0..64
    /\ hash_pc # "call" => message \in Messages /\ H \in [0..7 -> HashWord]
    /\ hash_pc \in {"schedule", "rounds"} => blk \in 1..Len(message)
    /\ hash_pc = "schedule" => t = 0 \/ W \in [0..(t - 1) -> HashWord]
    /\ hash_pc = "rounds" => W \in [0..63 -> HashWord] /\ work \in [0..7 -> HashWord]
    /\ hash_pc = "done" => blk = Len(message) + 1

LEMMA SumIsAWord == \A x, y : sha256_add(x, y) \in HashWord
BY DEF sha256_add, HashWord

LEMMA BlocksOfAMessage ==
    ASSUME NEW x \in Messages
    PROVE  Len(x) \in Nat \ {0}
<1>1. x \in Seq([0..63 -> 0..255]) /\ Len(x) > 0
  BY HashAssumption
<1> DEFINE Bytes == [0..63 -> 0..255]
<1>2. x \in Seq(Bytes)
  BY <1>1
<1> HIDE DEF Bytes
<1>3. Len(x) \in Nat
  BY ONLY <1>2
<1> QED BY <1>1, <1>3

LEMMA HashInitial == HashInit => HashIInv
BY DEF HashInit, HashIInv

LEMMA HashStep == HashIInv /\ [HashNext]_hash_vars => HashIInv'
<1> SUFFICES ASSUME HashIInv, [HashNext]_hash_vars PROVE HashIInv'
  OBVIOUS
<1>1. CASE HashMessage
  <2>1. message' \in Messages /\ hash_pc' = "schedule" /\ H' = H_0 /\ blk' = 1 /\ t' = 0
    BY <1>1 DEF HashMessage
  <2>2. blk' \in 1..Len(message')
    BY <2>1, BlocksOfAMessage
  <2>3. H' \in [0..7 -> HashWord] /\ 0 \in 0..64
    BY <2>1, HashAssumption
  <2> QED BY ONLY <2>1, <2>2, <2>3 DEF HashIInv
<1>2. CASE ScheduleWord
  <2>1. /\ hash_pc = "schedule" /\ t < 64 /\ t' = t + 1
        /\ UNCHANGED <<hash_pc, message, blk, work, H>>
    BY <1>2 DEF ScheduleWord
  <2>2. PICK W_t \in HashWord : W' = [n \in 0..t |-> IF n = t THEN W_t ELSE W[n]]
    <3>1. WordOfBlock(t) \in HashWord
      BY DEF WordOfBlock, HashWord
    <3> QED BY <1>2, <3>1, SumIsAWord DEF ScheduleWord
  <2>3. t \in 0..63 /\ t' \in 1..64
    <3>1. t \in 0..64
      BY DEF HashIInv
    <3> QED BY ONLY <2>1, <3>1
  <2>4. W' \in [0..t -> HashWord]
    <3>1. t = 0 \/ W \in [0..(t - 1) -> HashWord]
      BY <2>1 DEF HashIInv
    <3>2. \A n \in 0..t : n # t => n \in 0..(t - 1)
      BY ONLY <2>3
    <3>3. \A n \in 0..t : n # t => W[n] \in HashWord
      <4>1. CASE t = 0
        BY ONLY <4>1, <2>3
      <4>2. CASE W \in [0..(t - 1) -> HashWord]
        BY ONLY <4>2, <3>2
      <4> QED BY <3>1, <4>1, <4>2
    <3>4. W' \in [0..t -> HashWord]
      BY ONLY <2>2, <3>3, Zenon
    <3> QED BY ONLY <2>3, <3>4
  <2>5. t' \in 0..64 /\ t' - 1 = t
    BY ONLY <2>1, <2>3
  <2>6. W' \in [0..(t' - 1) -> HashWord]
    BY ONLY <2>4, <2>5
  <2>7. HashIInv => HashIInv'
    BY ONLY <2>1, <2>5, <2>6 DEF HashIInv
  <2> QED BY <2>7
<1>3. CASE StartRounds
  BY <1>3 DEF StartRounds, HashIInv
<1>4. CASE HashRound
  <2>1. /\ hash_pc = "rounds" /\ t < 64 /\ t' = t + 1
        /\ UNCHANGED <<hash_pc, message, blk, W, H>>
    BY <1>4 DEF HashRound
  <2>2. PICK x \in HashWord, y \in HashWord :
           work' = [n \in 0..7 |-> CASE n = 0 -> x [] n = 4 -> y [] OTHER -> work[n - 1]]
    BY <1>4, SumIsAWord DEF HashRound
  <2>3. work' \in [0..7 -> HashWord]
    <3>1. work \in [0..7 -> HashWord]
      BY <2>1 DEF HashIInv
    <3>2. \A n \in 0..7 : n # 0 => n - 1 \in 0..7
      OBVIOUS
    <3>3. \A n \in 0..7 : n # 0 => work[n - 1] \in HashWord
      BY ONLY <3>1, <3>2
    <3> QED BY ONLY <2>2, <3>3
  <2>4. t' \in 0..64
    <3>1. t \in 0..64
      BY DEF HashIInv
    <3> QED BY ONLY <2>1, <3>1
  <2>5. HashIInv => HashIInv'
    BY ONLY <2>1, <2>3, <2>4 DEF HashIInv
  <2> QED BY <2>5
<1>5. CASE EndBlock
  <2>1. /\ hash_pc = "rounds" /\ t = 64 /\ H' = FeedForward /\ blk' = blk + 1 /\ t' = 0
        /\ hash_pc' = IF blk < Len(message) THEN "schedule" ELSE "done"
        /\ message' = message
    BY <1>5 DEF EndBlock
  <2>2. H' \in [0..7 -> HashWord]
    BY <2>1, SumIsAWord DEF FeedForward
  <2>3. message \in Messages /\ blk \in 1..Len(message) /\ Len(message) \in Nat
    BY <2>1, BlocksOfAMessage DEF HashIInv
  <2>4. /\ hash_pc' \in {"schedule", "done"} /\ t' \in 0..64
        /\ hash_pc' = "schedule" => blk' \in 1..Len(message')
        /\ hash_pc' = "done" => blk' = Len(message') + 1
    <3>1. CASE blk < Len(message)
      BY ONLY <2>1, <2>3, <3>1
    <3>2. CASE ~(blk < Len(message))
      BY ONLY <2>1, <2>3, <3>2
    <3> QED BY ONLY <3>1, <3>2
  <2> QED BY ONLY <2>1, <2>2, <2>3, <2>4 DEF HashIInv
<1>6. CASE UNCHANGED hash_vars
  BY <1>6 DEF hash_vars, HashIInv
<1> QED BY <1>1, <1>2, <1>3, <1>4, <1>5, <1>6 DEF HashNext

LEMMA HashInvImpliesTypeOK == ASSUME HashIInv PROVE HashTypeOK
<1>1. hash_pc # "call" => Len(message) \in Nat
  BY BlocksOfAMessage DEF HashIInv
<1>2. hash_pc # "call" => blk \in 1..(Len(message) + 1)
  BY <1>1 DEF HashIInv
<1>3. hash_pc = "schedule" => t = 0 \/ DOMAIN W = 0..(t - 1)
  BY DEF HashIInv
<1> QED BY <1>2, <1>3 DEF HashIInv, HashTypeOK

\* The words of sha256 are words of 32 bits, the schedule is complete when the
\* rounds start, and no block is skipped, for any message (sha.c:194-287).
THEOREM HashTypeCorrect == HashSpec => []HashTypeOK
BY HashInitial, HashStep, HashInvImpliesTypeOK, PTL DEF HashSpec

----------------------------------------------------------------------------
(* The numbers of words.                                                   *)

\* A function whose values follow from one another.
LEMMA Recurrence ==
    ASSUME NEW u \in Nat, NEW v \in Nat, NEW e \in [0..31 -> Nat]
    PROVE  \E f \in [0..32 -> Nat] : f[0] = u /\ \A n \in 0..31 : f[n + 1] = v * f[n] + e[n]
<1> DEFINE Follows(f, n) == /\ f \in [0..32 -> Nat] /\ f[0] = u
                            /\ \A j \in 0..31 : j < n => f[j + 1] = v * f[j] + e[j]
           Bad == {n \in 0..32 : ~ \E f : Follows(f, n)}
<1>1. SUFFICES ASSUME Bad # {} PROVE FALSE
  <2>1. 32 \in 0..32 /\ \A j \in 0..31 : j < 32
    OBVIOUS
  <2>2. ASSUME NEW f, Follows(f, 32)
        PROVE  f \in [0..32 -> Nat] /\ f[0] = u /\ \A n \in 0..31 : f[n + 1] = v * f[n] + e[n]
    BY <2>1, <2>2
  <2> HIDE DEF Follows
  <2>3. Bad = {} => \E f : Follows(f, 32)
    BY <2>1
  <2> QED BY <2>2, <2>3
<1>2. PICK n \in Bad : \A z \in Bad : n <= z
  <2>1. Bad \subseteq Nat
    OBVIOUS
  <2> HIDE DEF Bad
  <2> QED BY <1>1, <2>1, LeastElement
<1>3. n # 0
  <2> DEFINE f == [j \in 0..32 |-> u]
  <2>1. f \in [0..32 -> Nat] /\ f[0] = u /\ \A j \in 0..31 : ~(j < 0)
    OBVIOUS
  <2> HIDE DEF f
  <2>2. Follows(f, 0)
    BY <2>1
  <2> QED BY <1>2, <2>2
<1>4. n \in 1..32 /\ n - 1 \in 0..31 /\ n - 1 \in 0..32 /\ (n - 1) + 1 = n
  BY <1>2, <1>3
<1>5. PICK f : Follows(f, n - 1)
  <2>1. n - 1 \notin Bad
    BY <1>2, <1>4
  <2> QED BY <1>4, <2>1
<1> DEFINE w0 == v * f[n - 1] + e[n - 1]
           g == [f EXCEPT ![n] = w0]
<1>6. w0 \in Nat
  <2>1. f[n - 1] \in Nat /\ e[n - 1] \in Nat
    BY <1>4, <1>5
  <2> QED BY <2>1
<1>7. /\ f \in [0..32 -> Nat] /\ f[0] = u
      /\ \A j \in 0..31 : j < n - 1 => f[j + 1] = v * f[j] + e[j]
  BY <1>5
<1> HIDE DEF w0
<1>8. /\ g \in [0..32 -> Nat] /\ g[n] = w0 /\ \A j \in 0..32 : j # n => g[j] = f[j]
  BY <1>4, <1>6, <1>7
<1> HIDE DEF g
<1>9. ASSUME NEW j \in 0..31, j < n PROVE g[j + 1] = v * g[j] + e[j]
  <2>1. j \in 0..32 /\ j # n /\ j + 1 \in 0..32 /\ (j = n - 1 \/ (j < n - 1 /\ j + 1 # n))
    BY <1>4, <1>9
  <2>2. g[j] = f[j]
    BY <1>8, <2>1
  <2>3. CASE j = n - 1
    BY <1>4, <1>8, <2>2, <2>3 DEF w0
  <2>4. CASE j < n - 1 /\ j + 1 # n
    <3>1. g[j + 1] = f[j + 1] /\ f[j + 1] = v * f[j] + e[j]
      BY <1>7, <1>8, <2>1, <2>4
    <3> QED BY <2>2, <3>1
  <2> QED BY <2>1, <2>3, <2>4
<1>10. g[0] = u
  BY <1>4, <1>7, <1>8
<1>11. Follows(g, n)
  BY <1>8, <1>9, <1>10
<1> QED BY <1>2, <1>11

\* The powers of two, and the number a word stands for.
IsTwo(f) == f \in [0..32 -> Nat] /\ f[0] = 1 /\ \A n \in 0..31 : f[n + 1] = 2 * f[n]
Two == CHOOSE f : IsTwo(f)
Unsigned(x) == (CHOOSE f : IsWorth(x, f, Two))[32]

LEMMA TwoFacts == IsTwo(Two) /\ \A n \in 0..32 : Two[n] \in Nat \ {0}
<1> DEFINE e == [n \in 0..31 |-> 0]
<1>1. e \in [0..31 -> Nat] /\ \A n \in 0..31 : e[n] = 0
  OBVIOUS
<1> HIDE DEF e
<1>2. PICK f \in [0..32 -> Nat] : f[0] = 1 /\ \A n \in 0..31 : f[n + 1] = 2 * f[n] + e[n]
  <2>1. 1 \in Nat /\ 2 \in Nat
    OBVIOUS
  <2> QED BY ONLY <1>1, <2>1, Recurrence
<1>3. \A n \in 0..31 : f[n + 1] = 2 * f[n]
  <2>1. ASSUME NEW n \in 0..31 PROVE f[n + 1] = 2 * f[n]
    <3>1. n \in 0..32
      OBVIOUS
    <3>2. f[n] \in Nat /\ e[n] = 0 /\ f[n + 1] = 2 * f[n] + e[n]
      BY <1>1, <1>2, <3>1
    <3> QED BY <3>2
  <2> QED BY <2>1
<1>4. IsTwo(f)
  BY <1>2, <1>3 DEF IsTwo
<1>5. IsTwo(Two)
  BY <1>4 DEF Two
<1> DEFINE Bad == {n \in 0..32 : Two[n] = 0}
<1>6. Bad = {}
  <2> SUFFICES ASSUME Bad # {} PROVE FALSE
    OBVIOUS
  <2>1. PICK n \in Bad : \A z \in Bad : n <= z
    <3>1. Bad \subseteq Nat
      OBVIOUS
    <3> HIDE DEF Bad
    <3> QED BY <3>1, LeastElement
  <2>2. n \in 1..32 /\ n - 1 \in 0..31 /\ n - 1 \in 0..32 /\ (n - 1) + 1 = n /\ Two[n] = 0
    BY <1>5, <2>1 DEF IsTwo
  <2>3. Two[n] = 2 * Two[n - 1] /\ Two[n - 1] \in Nat /\ Two[n - 1] # 0
    <3>1. n - 1 \notin Bad
      BY <2>1, <2>2
    <3> QED BY <1>5, <2>2, <3>1 DEF IsTwo
  <2> QED BY <2>2, <2>3
<1> QED BY <1>5, <1>6 DEF IsTwo

\* The bits below bit n are worth less than bit n.
LEMMA WorthBounds ==
    ASSUME NEW x, NEW f, IsWorth(x, f, Two)
    PROVE  \A n \in 0..32 : f[n] < Two[n]
<1> DEFINE Good == {n \in 0..32 : f[n] < Two[n]}
<1>1. 0 \in Good
  BY TwoFacts DEF IsWorth, IsTwo
<1>2. ASSUME NEW n \in 0..31, n \in Good PROVE n + 1 \in Good
  <2>1. n \in 0..32 /\ n + 1 \in 0..32
    OBVIOUS
  <2>2. f[n + 1] = f[n] + (IF n \in x THEN Two[n] ELSE 0) /\ Two[n + 1] = 2 * Two[n]
    BY TwoFacts DEF IsWorth, IsTwo
  <2>3. f[n] \in Nat /\ Two[n] \in Nat /\ f[n] < Two[n]
    BY <1>2, <2>1, TwoFacts DEF IsWorth
  <2> QED BY <2>1, <2>2, <2>3
<1> HIDE DEF Good
<1> DEFINE Bad == {n \in 0..32 : n \notin Good}
<1>3. Bad = {}
  <2> SUFFICES ASSUME Bad # {} PROVE FALSE
    OBVIOUS
  <2>1. PICK n \in Bad : \A z \in Bad : n <= z
    <3>1. Bad \subseteq Nat
      OBVIOUS
    <3> HIDE DEF Bad
    <3> QED BY <3>1, LeastElement
  <2>2. n \in 1..32 /\ n - 1 \in 0..31 /\ n - 1 \in 0..32 /\ (n - 1) + 1 = n
    BY <1>1, <2>1
  <2>3. n - 1 \in Good
    BY <2>1, <2>2
  <2> QED BY <1>2, <2>1, <2>2, <2>3
<1> QED BY <1>3 DEF Good

\* Every word stands for a number below 2^32.
LEMMA NumberFacts ==
    ASSUME NEW x
    PROVE  /\ \E f : IsWorth(x, f, Two) /\ Unsigned(x) = f[32]
           /\ Unsigned(x) \in Nat /\ Unsigned(x) < Two[32]
<1> DEFINE e == [n \in 0..31 |-> IF n \in x THEN Two[n] ELSE 0]
<1>1. e \in [0..31 -> Nat] /\ \A n \in 0..31 : e[n] = IF n \in x THEN Two[n] ELSE 0
  <2>1. \A n \in 0..31 : (IF n \in x THEN Two[n] ELSE 0) \in Nat
    <3>1. \A n \in 0..31 : n \in 0..32
      OBVIOUS
    <3> QED BY <3>1, TwoFacts
  <2> QED BY <2>1
<1> HIDE DEF e
<1>2. PICK g \in [0..32 -> Nat] : g[0] = 0 /\ \A n \in 0..31 : g[n + 1] = 1 * g[n] + e[n]
  <2>1. 0 \in Nat /\ 1 \in Nat
    OBVIOUS
  <2> QED BY ONLY <1>1, <2>1, Recurrence
<1>3. \A n \in 0..31 : g[n + 1] = g[n] + e[n]
  <2>1. ASSUME NEW n \in 0..31 PROVE g[n + 1] = g[n] + e[n]
    <3>1. n \in 0..32
      OBVIOUS
    <3>2. g[n] \in Nat /\ g[n + 1] = 1 * g[n] + e[n]
      BY <1>2, <3>1
    <3> QED BY <3>2
  <2> QED BY <2>1
<1>4. IsWorth(x, g, Two)
  BY <1>1, <1>2, <1>3 DEF IsWorth
<1> DEFINE f == CHOOSE h : IsWorth(x, h, Two)
<1>5. IsWorth(x, f, Two)
  BY <1>4
<1> HIDE DEF f
<1>6. f[32] < Two[32]
  <2>1. 32 \in 0..32
    OBVIOUS
  <2> QED BY <1>5, <2>1, WorthBounds
<1>7. Unsigned(x) = f[32] /\ f[32] \in Nat
  <2>1. Unsigned(x) = f[32]
    BY DEF Unsigned, f
  <2>2. f \in [0..32 -> Nat] /\ 32 \in 0..32
    BY <1>5 DEF IsWorth
  <2> QED BY <2>1, <2>2
<1> QED BY <1>5, <1>6, <1>7

----------------------------------------------------------------------------
\* The word z is the sum u modulo 2^32.
SumIs(z, u) == z \in HashWord /\ Unsigned(z) = u % Two[32]

LEMMA ModIs ==
    ASSUME NEW m \in Nat \ {0}, NEW u \in Nat, u < m, NEW v \in Nat, NEW q \in Nat, v = u + m * q
    PROVE  v % m = u
<1> DEFINE p == v \div m
           e == v % m
<1>1. p \in Int /\ e \in 0 .. (m - 1) /\ v = m * p + e
  OBVIOUS
<1> HIDE DEF p, e
<1>2. ~(p < q)
  <2> SUFFICES ASSUME p < q PROVE FALSE
    OBVIOUS
  <2> DEFINE y == m * p
             z == m * q
             g == m * (q - p - 1)
  <2>1. z = y + m + g /\ g \in Nat /\ y \in Int
    BY <1>1
  <2>2. y + e = u + z
    BY <1>1
  <2> HIDE DEF y, z, g
  <2> QED BY <1>1, <2>1, <2>2
<1>3. ~(q < p)
  <2> SUFFICES ASSUME q < p PROVE FALSE
    OBVIOUS
  <2> DEFINE y == m * p
             z == m * q
             g == m * (p - q - 1)
  <2>1. y = z + m + g /\ g \in Nat /\ z \in Int
    BY <1>1
  <2>2. y + e = u + z
    BY <1>1
  <2> HIDE DEF y, z, g
  <2> QED BY <1>1, <2>1, <2>2
<1>4. p = q
  BY <1>1, <1>2, <1>3
<1>5. m * p + e = u + m * p /\ m * p \in Int
  BY <1>1, <1>4
<1>6. e = u
  BY <1>1, <1>5
<1> QED BY <1>6 DEF e

\* One more word added to a sum modulo 2^32.
LEMMA AddTo ==
    ASSUME NEW x \in HashWord, NEW z, NEW v \in Nat, SumIs(z, v)
    PROVE  SumIs(sha256_add(x, z), Unsigned(x) + v)
<1> DEFINE s0 == sha256_add(x, z)
           m == Two[32]
           p == Unsigned(x)
           q == Unsigned(z)
           u == Unsigned(s0)
           h == v \div m
<1>1. /\ m \in Nat \ {0} /\ p \in Nat /\ q \in Nat /\ u \in Nat /\ u < m
      /\ q = v % m
  BY TwoFacts, NumberFacts DEF SumIs
<1>2. PICK fp : IsWorth(x, fp, Two) /\ p = fp[32]
  BY NumberFacts
<1>3. PICK fq : IsWorth(z, fq, Two) /\ q = fq[32]
  BY NumberFacts
<1>4. PICK fu : IsWorth(s0, fu, Two) /\ u = fu[32]
  BY NumberFacts
<1>5. p + q = u \/ p + q = u + m
  <2>1. Two \in [0..32 -> Nat] /\ Two[0] = 1 /\ \A n \in 0..31 : Two[n + 1] = 2 * Two[n]
    BY TwoFacts DEF IsTwo
  <2> QED BY <1>2, <1>3, <1>4, <2>1, AdditionIsModular
<1>6. s0 \in HashWord
  BY SumIsAWord
<1> HIDE DEF p, q, u, m, s0
<1>7. v = m * h + q /\ h \in Nat
  BY <1>1
<1> HIDE DEF h
<1>8. \E g \in Nat : p + v = u + m * g
  <2>1. m * (h + 1) = m * h + m /\ m * h \in Nat /\ h + 1 \in Nat
    BY <1>1, <1>7
  <2>2. CASE p + q = u
    <3>1. p + v = u + m * h
      BY <1>1, <1>7, <2>1, <2>2
    <3> QED BY <1>7, <3>1
  <2>3. CASE p + q = u + m
    <3>1. p + v = u + m * (h + 1)
      <4> DEFINE y == m * h
                 e == m * (h + 1)
      <4>1. e = y + m /\ y \in Nat /\ v = y + q
        BY <1>7, <2>1
      <4> HIDE DEF y, e
      <4>2. p + v = u + e
        BY ONLY <1>1, <2>3, <4>1
      <4> QED BY <4>2 DEF e
    <3> QED BY <2>1, <3>1
  <2> QED BY <1>5, <2>2, <2>3
<1>9. (p + v) % m = u
  <2>1. p + v \in Nat
    BY <1>1
  <2> QED BY <1>1, <1>8, <2>1, ModIs
<1> QED BY <1>6, <1>9 DEF SumIs, p, u, m, s0

\* A word is its own sum.
LEMMA OneTerm ==
    ASSUME NEW x \in HashWord
    PROVE  SumIs(x, Unsigned(x)) /\ Unsigned(x) \in Nat
<1> DEFINE u == Unsigned(x)
           m == Two[32]
<1>1. m \in Nat \ {0} /\ u \in Nat /\ u < m
  BY TwoFacts, NumberFacts
<1>2. u % m = u
  <2> HIDE DEF u, m
  <2>1. u = u + m * 0 /\ 0 \in Nat
    BY <1>1
  <2> QED BY <1>1, <2>1, ModIs
<1> QED BY <1>1, <1>2 DEF SumIs

----------------------------------------------------------------------------
(* FIPS 180-4: the functions of section 4.1.2 bit by bit, additions as      *)
(* those of numbers modulo 2^32, and the hash computation of section 6.2.2. *)

Rotr(x, n) == {j \in 0..31 : (j + n) % 32 \in x}
Shr(x, n) == {j \in 0..31 : j + n \in x}
Odd(x, y, z) == {j \in 0..31 : j \in x <=> (j \in y <=> j \in z)}

Choice(x, y, z) == {j \in 0..31 : IF j \in x THEN j \in y ELSE j \in z}
Majority(x, y, z) ==
    {j \in 0..31 : (j \in x /\ j \in y) \/ (j \in x /\ j \in z) \/ (j \in y /\ j \in z)}
Sigma0(x) == Odd(Rotr(x, 2), Rotr(x, 13), Rotr(x, 22))
Sigma1(x) == Odd(Rotr(x, 6), Rotr(x, 11), Rotr(x, 25))
LowSigma0(x) == Odd(Rotr(x, 7), Rotr(x, 18), Shr(x, 3))
LowSigma1(x) == Odd(Rotr(x, 17), Rotr(x, 19), Shr(x, 10))

\* Bit n of a block, and its word n, in which the first bit is the highest.
BitOfBlock(block, n) == (block[n \div 8] \div 2^(7 - (n % 8))) % 2 = 1
BlockWord(block, n) == {j \in 0..31 : BitOfBlock(block, 32 * n + 31 - j)}

\* The first n words of the message schedule.
Scheduled(sched, block, n) ==
    \A j \in 0 .. (n - 1) :
       /\ j < 16 => sched[j] = BlockWord(block, j)
       /\ j >= 16 => SumIs(sched[j], Unsigned(LowSigma1(sched[j - 2])) + Unsigned(sched[j - 7])
                             + Unsigned(LowSigma0(sched[j - 15])) + Unsigned(sched[j - 16]))

\* What a round makes of the working variables x.
RoundGives(x, kt, wt, y) ==
    /\ y \in [0..7 -> HashWord]
    /\ \E T1, T2 \in HashWord :
          /\ SumIs(T1, Unsigned(x[7]) + Unsigned(Sigma1(x[4]))
                       + Unsigned(Choice(x[4], x[5], x[6])) + Unsigned(kt) + Unsigned(wt))
          /\ SumIs(T2, Unsigned(Sigma0(x[0])) + Unsigned(Majority(x[0], x[1], x[2])))
          /\ SumIs(y[0], Unsigned(T1) + Unsigned(T2))
          /\ SumIs(y[4], Unsigned(x[3]) + Unsigned(T1))
    /\ y[1] = x[0] /\ y[2] = x[1] /\ y[3] = x[2]
    /\ y[5] = x[4] /\ y[6] = x[5] /\ y[7] = x[6]

\* The working variables before and after each of the first n rounds.
RoundsGive(regs, h, sched, n) ==
    /\ regs \in [0..n -> [0..7 -> HashWord]] /\ regs[0] = h
    /\ \A j \in 0 .. (n - 1) : RoundGives(regs[j], sha256_K[j], sched[j], regs[j + 1])

\* The hash value h and a block give the hash value g.
Compressed(h, block, g) ==
    /\ g \in [0..7 -> HashWord]
    /\ \E sched \in [0..63 -> HashWord], regs \in [0..64 -> [0..7 -> HashWord]] :
          /\ Scheduled(sched, block, 64) /\ RoundsGive(regs, h, sched, 64)
          /\ \A j \in 0..7 : SumIs(g[j], Unsigned(regs[64][j]) + Unsigned(h[j]))

\* The hash values of the first n blocks of a message.
HashValues(hs, blocks, n) ==
    /\ hs \in [0..n -> [0..7 -> HashWord]] /\ hs[0] = H_0
    /\ \A j \in 0 .. (n - 1) : Compressed(hs[j], blocks[j + 1], hs[j + 1])

\* The hash of a message, which has one and no more.
IsHash(blocks, g) ==
    \E hs : HashValues(hs, blocks, Len(blocks)) /\ hs[Len(blocks)] = g

HashIsFips ==
    hash_pc = "done" =>
       IsHash(message, H) /\ \A g : IsHash(message, g) => g = H

\* A sum modulo 2^32 is one word only, since no two words stand for one number: what
\* FIPS 180-4 asks for below determines the hash value.
LEMMA OneSum ==
    ASSUME NEW x, NEW y, NEW u, SumIs(x, u), SumIs(y, u)
    PROVE  x = y
<1>1. x \in HashWord /\ y \in HashWord /\ Unsigned(x) = Unsigned(y)
  BY DEF SumIs
<1>2. PICK f : IsWorth(x, f, Two) /\ Unsigned(x) = f[32]
  BY NumberFacts
<1>3. PICK g : IsWorth(y, g, Two) /\ Unsigned(y) = g[32]
  BY NumberFacts
<1>4. /\ \A n \in 0..32 : f[n] \in Nat /\ g[n] \in Nat /\ f[n] < Two[n] /\ g[n] < Two[n]
      /\ \A n \in 0..31 : /\ f[n + 1] = f[n] + (IF n \in x THEN Two[n] ELSE 0)
                          /\ g[n + 1] = g[n] + (IF n \in y THEN Two[n] ELSE 0)
  BY <1>2, <1>3, WorthBounds DEF IsWorth
<1> DEFINE Same == {n \in 0..32 : f[n] = g[n] /\ \A j \in 0..31 : j >= n => (j \in x <=> j \in y)}
<1>5. 32 \in Same
  <2>1. 32 \in 0..32 /\ \A j \in 0..31 : ~(j >= 32)
    OBVIOUS
  <2>2. f[32] = g[32]
    BY <1>1, <1>2, <1>3
  <2> QED BY <2>1, <2>2
<1>6. ASSUME NEW n \in 0..31, n + 1 \in Same PROVE n \in Same
  <2>1. /\ f[n] \in Nat /\ g[n] \in Nat /\ f[n] < Two[n] /\ g[n] < Two[n] /\ Two[n] \in Nat
        /\ f[n + 1] = f[n] + (IF n \in x THEN Two[n] ELSE 0)
        /\ g[n + 1] = g[n] + (IF n \in y THEN Two[n] ELSE 0)
        /\ f[n + 1] = g[n + 1]
    <3>1. n \in 0..32
      OBVIOUS
    <3> QED BY <1>4, <1>6, <3>1, TwoFacts
  <2>2. f[n] = g[n] /\ (n \in x <=> n \in y)
    <3> DEFINE p == n \in x
               q == n \in y
    <3> HIDE DEF p, q
    <3>1. /\ f[n + 1] = f[n] + (IF p THEN Two[n] ELSE 0)
          /\ g[n + 1] = g[n] + (IF q THEN Two[n] ELSE 0)
      BY <2>1 DEF p, q
    <3>2. f[n] = g[n] /\ (p <=> q)
      BY ONLY <2>1, <3>1
    <3> QED BY <3>2 DEF p, q
  <2>3. \A j \in 0..31 : j >= n => j = n \/ j >= n + 1
    OBVIOUS
  <2> QED BY <1>6, <2>2, <2>3
<1> HIDE DEF Same
<1>7. 0 \in Same
  <2> DEFINE Bad == {n \in 0..32 : 32 - n \notin Same}
  <2>1. SUFFICES ASSUME Bad # {} PROVE FALSE
    BY <1>5
  <2>2. PICK n \in Bad : \A z \in Bad : n <= z
    <3>1. Bad \subseteq Nat
      OBVIOUS
    <3> HIDE DEF Bad
    <3> QED BY <2>1, <3>1, LeastElement
  <2>3. n \in 1..32
    BY <1>5, <2>2
  <2>4. n - 1 \in 0..32 /\ n - 1 < n /\ 32 - n \in 0..31 /\ 32 - (n - 1) = (32 - n) + 1
    BY <2>3
  <2>5. 32 - (n - 1) \in Same
    BY <2>2, <2>3, <2>4
  <2> QED BY <1>6, <2>2, <2>4, <2>5
<1>8. \A j \in 0..31 : j \in x <=> j \in y
  BY <1>7 DEF Same
<1> QED BY <1>1, <1>8 DEF HashWord

LEMMA OneSchedule ==
    ASSUME NEW block, NEW n \in Nat, NEW u, NEW v,
           Scheduled(u, block, n), Scheduled(v, block, n)
    PROVE  \A j \in 0 .. (n - 1) : u[j] = v[j]
<1> DEFINE Bad == {j \in 0 .. (n - 1) : u[j] # v[j]}
<1> SUFFICES ASSUME Bad # {} PROVE FALSE
  OBVIOUS
<1>1. PICK j \in Bad : \A z \in Bad : j <= z
  <2>1. Bad \subseteq Nat
    OBVIOUS
  <2> HIDE DEF Bad
  <2> QED BY <2>1, LeastElement
<1>2. j \in 0 .. (n - 1) /\ u[j] # v[j] /\ \A z \in 0 .. (n - 1) : z < j => u[z] = v[z]
  <2>1. ASSUME NEW z \in 0 .. (n - 1), z < j PROVE u[z] = v[z]
    <3>1. z \notin Bad
      BY <1>1, <2>1
    <3> QED BY <3>1
  <2> QED BY <1>1, <2>1
<1>3. CASE j < 16
  <2>1. u[j] = BlockWord(block, j) /\ v[j] = BlockWord(block, j)
    BY <1>2, <1>3 DEF Scheduled
  <2> QED BY <1>2, <2>1
<1>4. CASE j >= 16
  <2>1. /\ j - 2 \in 0 .. (n - 1) /\ j - 2 < j /\ j - 7 \in 0 .. (n - 1) /\ j - 7 < j
        /\ j - 15 \in 0 .. (n - 1) /\ j - 15 < j /\ j - 16 \in 0 .. (n - 1) /\ j - 16 < j
    BY <1>2, <1>4
  <2>2. u[j - 2] = v[j - 2] /\ u[j - 7] = v[j - 7] /\ u[j - 15] = v[j - 15] /\ u[j - 16] = v[j - 16]
    BY <1>2, <2>1
  <2>3. /\ SumIs(u[j], Unsigned(LowSigma1(u[j - 2])) + Unsigned(u[j - 7])
                         + Unsigned(LowSigma0(u[j - 15])) + Unsigned(u[j - 16]))
        /\ SumIs(v[j], Unsigned(LowSigma1(v[j - 2])) + Unsigned(v[j - 7])
                         + Unsigned(LowSigma0(v[j - 15])) + Unsigned(v[j - 16]))
    BY <1>2, <1>4 DEF Scheduled
  <2>4. u[j] = v[j]
    BY <2>2, <2>3, OneSum
  <2> QED BY <1>2, <2>4
<1>5. j < 16 \/ j >= 16
  BY <1>2
<1> QED BY <1>3, <1>4, <1>5

LEMMA OneRound ==
    ASSUME NEW x, NEW kt, NEW wt, NEW y, NEW z, RoundGives(x, kt, wt, y), RoundGives(x, kt, wt, z)
    PROVE  y = z
<1> DEFINE sum1 == Unsigned(x[7]) + Unsigned(Sigma1(x[4]))
                     + Unsigned(Choice(x[4], x[5], x[6])) + Unsigned(kt) + Unsigned(wt)
           sum2 == Unsigned(Sigma0(x[0])) + Unsigned(Majority(x[0], x[1], x[2]))
<1>1. PICK T1, T2 \in HashWord : /\ SumIs(T1, sum1) /\ SumIs(T2, sum2)
                                 /\ SumIs(y[0], Unsigned(T1) + Unsigned(T2))
                                 /\ SumIs(y[4], Unsigned(x[3]) + Unsigned(T1))
  BY DEF RoundGives
<1>2. PICK U1, U2 \in HashWord : /\ SumIs(U1, sum1) /\ SumIs(U2, sum2)
                                 /\ SumIs(z[0], Unsigned(U1) + Unsigned(U2))
                                 /\ SumIs(z[4], Unsigned(x[3]) + Unsigned(U1))
  BY DEF RoundGives
<1> HIDE DEF sum1, sum2
<1>3. T1 = U1
  BY <1>1, <1>2, OneSum
<1>4. T2 = U2
  BY <1>1, <1>2, OneSum
<1>5. y[0] = z[0]
  BY <1>1, <1>2, <1>3, <1>4, OneSum
<1>6. y[4] = z[4]
  BY <1>1, <1>2, <1>3, OneSum
<1>7. /\ y[1] = z[1] /\ y[2] = z[2] /\ y[3] = z[3] /\ y[5] = z[5] /\ y[6] = z[6] /\ y[7] = z[7]
      /\ y \in [0..7 -> HashWord] /\ z \in [0..7 -> HashWord]
  BY DEF RoundGives
<1>8. \A j \in 0..7 : y[j] = z[j]
  BY <1>5, <1>6, <1>7
<1> QED BY <1>7, <1>8

LEMMA OneCompression ==
    ASSUME NEW h, NEW block, NEW y, NEW z, Compressed(h, block, y), Compressed(h, block, z)
    PROVE  y = z
<1>1. PICK sched, regs :
         /\ Scheduled(sched, block, 64) /\ RoundsGive(regs, h, sched, 64)
         /\ \A j \in 0..7 : SumIs(y[j], Unsigned(regs[64][j]) + Unsigned(h[j]))
  BY DEF Compressed
<1>2. PICK other, others :
         /\ Scheduled(other, block, 64) /\ RoundsGive(others, h, other, 64)
         /\ \A j \in 0..7 : SumIs(z[j], Unsigned(others[64][j]) + Unsigned(h[j]))
  BY DEF Compressed
<1>3. \A j \in 0..63 : sched[j] = other[j]
  <2>1. 64 \in Nat /\ 64 - 1 = 63
    OBVIOUS
  <2>2. \A j \in 0 .. (64 - 1) : sched[j] = other[j]
    BY <1>1, <1>2, <2>1, OneSchedule
  <2> QED BY <2>1, <2>2
<1> DEFINE Bad == {j \in 0..64 : regs[j] # others[j]}
<1>4. Bad = {}
  <2> SUFFICES ASSUME Bad # {} PROVE FALSE
    OBVIOUS
  <2>1. PICK j \in Bad : \A e \in Bad : j <= e
    <3>1. Bad \subseteq Nat
      OBVIOUS
    <3> HIDE DEF Bad
    <3> QED BY <3>1, LeastElement
  <2>2. regs[0] = h /\ others[0] = h
    BY <1>1, <1>2 DEF RoundsGive
  <2>3. j \in 1..64 /\ j - 1 \in 0 .. (64 - 1) /\ j - 1 \in 0..63 /\ j - 1 \in 0..64 /\ (j - 1) + 1 = j
    BY <2>1, <2>2
  <2>4. regs[j - 1] = others[j - 1] /\ sched[j - 1] = other[j - 1]
    <3>1. j - 1 \notin Bad
      BY <2>1, <2>3
    <3> QED BY <1>3, <2>3, <3>1
  <2>5. RoundGives(regs[j - 1], sha256_K[j - 1], sched[j - 1], regs[j])
    BY <1>1, <2>3 DEF RoundsGive
  <2>6. RoundGives(others[j - 1], sha256_K[j - 1], other[j - 1], others[j])
    BY <1>2, <2>3 DEF RoundsGive
  <2>7. regs[j] = others[j]
    BY <2>4, <2>5, <2>6, OneRound
  <2> QED BY <2>1, <2>7
<1>5. regs[64] = others[64]
  BY <1>4
<1>6. ASSUME NEW j \in 0..7 PROVE y[j] = z[j]
  <2>1. SumIs(y[j], Unsigned(regs[64][j]) + Unsigned(h[j]))
        /\ SumIs(z[j], Unsigned(regs[64][j]) + Unsigned(h[j]))
    BY <1>1, <1>2, <1>5
  <2> QED BY <2>1, OneSum
<1>7. y \in [0..7 -> HashWord] /\ z \in [0..7 -> HashWord]
  BY DEF Compressed
<1> QED BY <1>6, <1>7

\* What FIPS 180-4 asks of the hash values of a message leaves no choice.
LEMMA OneHashValue ==
    ASSUME NEW blocks, NEW n \in Nat, NEW hs, NEW values,
           HashValues(hs, blocks, n), HashValues(values, blocks, n)
    PROVE  hs[n] = values[n]
<1> DEFINE Bad == {j \in 0..n : hs[j] # values[j]}
<1>1. Bad = {}
  <2> SUFFICES ASSUME Bad # {} PROVE FALSE
    OBVIOUS
  <2>1. PICK j \in Bad : \A e \in Bad : j <= e
    <3>1. Bad \subseteq Nat
      OBVIOUS
    <3> HIDE DEF Bad
    <3> QED BY <3>1, LeastElement
  <2>2. hs[0] = values[0]
    BY DEF HashValues
  <2>3. j \in 1..n /\ j - 1 \in 0 .. (n - 1) /\ j - 1 \in 0..n /\ (j - 1) + 1 = j
    BY <2>1, <2>2
  <2>4. hs[j - 1] = values[j - 1]
    <3>1. j - 1 \notin Bad
      BY <2>1, <2>3
    <3> QED BY <2>3, <3>1
  <2>5. Compressed(hs[j - 1], blocks[j], hs[j]) /\ Compressed(values[j - 1], blocks[j], values[j])
    BY <2>3 DEF HashValues
  <2>6. hs[j] = values[j]
    BY <2>4, <2>5, OneCompression
  <2> QED BY <2>1, <2>6
<1> QED BY <1>1

LEMMA FunctionsAreFips ==
    ASSUME NEW x \in HashWord, NEW y \in HashWord, NEW z \in HashWord
    PROVE  /\ sha256_Ch(x, y, z) = Choice(x, y, z) /\ sha256_Ch(x, y, z) \in HashWord
           /\ sha256_Maj(x, y, z) = Majority(x, y, z) /\ sha256_Maj(x, y, z) \in HashWord
           /\ Xor3(x, y, z) = Odd(x, y, z) /\ Xor3(x, y, z) \in HashWord
<1>1. x \subseteq 0..31 /\ y \subseteq 0..31 /\ z \subseteq 0..31
  BY DEF HashWord
<1> DEFINE bits == 0..31
<1>2. x \subseteq bits /\ y \subseteq bits /\ z \subseteq bits
  BY <1>1
<1> HIDE DEF bits
<1>3. sha256_Ch(x, y, z) = {j \in bits : IF j \in x THEN j \in y ELSE j \in z}
  BY <1>2 DEF sha256_Ch, sha256_xor
<1>4. sha256_Maj(x, y, z) = {j \in bits : (j \in x /\ j \in y) \/ (j \in x /\ j \in z) \/ (j \in y /\ j \in z)}
  BY <1>2 DEF sha256_Maj, sha256_xor
<1>5. Xor3(x, y, z) = {j \in bits : j \in x <=> (j \in y <=> j \in z)}
  BY <1>2 DEF Xor3, sha256_xor
<1> QED BY <1>3, <1>4, <1>5 DEF HashWord, Choice, Majority, Odd, bits

LEMMA ShiftsAreFips ==
    ASSUME NEW x \in HashWord, NEW n \in 0..31
    PROVE  /\ sha256_ROTR(x, n) = Rotr(x, n) /\ Rotr(x, n) \in HashWord
           /\ sha256_SHR(x, n) = Shr(x, n) /\ Shr(x, n) \in HashWord
<1>1. x \subseteq 0..31
  BY DEF HashWord
<1>2. \A j \in 0..31 : (j - n) % 32 \in 0..31 /\ (((j - n) % 32) + n) % 32 = j
  OBVIOUS
<1>3. \A j \in 0..31 : (j + n) % 32 \in 0..31 /\ (((j + n) % 32) - n) % 32 = j
  OBVIOUS
<1>4. sha256_ROTR(x, n) = Rotr(x, n)
  <2>1. ASSUME NEW j \in sha256_ROTR(x, n) PROVE j \in Rotr(x, n)
    <3>1. PICK e \in x : j = (e - n) % 32
      BY <2>1 DEF sha256_ROTR
    <3> QED BY <1>1, <1>2, <3>1 DEF Rotr
  <2>2. ASSUME NEW j \in Rotr(x, n) PROVE j \in sha256_ROTR(x, n)
    <3>1. j \in 0..31 /\ (j + n) % 32 \in x
      BY <2>2 DEF Rotr
    <3>2. j = (((j + n) % 32) - n) % 32
      BY <1>3, <3>1
    <3> QED BY <3>1, <3>2 DEF sha256_ROTR
  <2> QED BY <2>1, <2>2
<1>5. sha256_SHR(x, n) = Shr(x, n)
  <2>1. ASSUME NEW j \in sha256_SHR(x, n) PROVE j \in Shr(x, n)
    <3>1. PICK e \in x : e >= n /\ j = e - n
      BY <2>1 DEF sha256_SHR
    <3>2. j \in 0..31 /\ j + n = e
      BY <1>1, <3>1
    <3> QED BY <3>1, <3>2 DEF Shr
  <2>2. ASSUME NEW j \in Shr(x, n) PROVE j \in sha256_SHR(x, n)
    <3>1. j \in 0..31 /\ j + n \in x
      BY <2>2 DEF Shr
    <3>2. j = (j + n) - n /\ j + n >= n
      BY <3>1
    <3> QED BY <3>1, <3>2 DEF sha256_SHR
  <2> QED BY <2>1, <2>2
<1> QED BY <1>4, <1>5 DEF Rotr, Shr, HashWord

LEMMA SigmasAreFips ==
    ASSUME NEW x \in HashWord
    PROVE  /\ sha256_eps0(x) = Sigma0(x) /\ Sigma0(x) \in HashWord
           /\ sha256_eps1(x) = Sigma1(x) /\ Sigma1(x) \in HashWord
           /\ sha256_sig0(x) = LowSigma0(x) /\ LowSigma0(x) \in HashWord
           /\ sha256_sig1(x) = LowSigma1(x) /\ LowSigma1(x) \in HashWord
<1>1. \A n \in 0..31 : /\ sha256_ROTR(x, n) = Rotr(x, n) /\ Rotr(x, n) \in HashWord
                       /\ sha256_SHR(x, n) = Shr(x, n) /\ Shr(x, n) \in HashWord
  BY ShiftsAreFips
<1>2. \A u, v, y \in HashWord : Xor3(u, v, y) = Odd(u, v, y) /\ Odd(u, v, y) \in HashWord
  BY FunctionsAreFips
<1>3. /\ 2 \in 0..31 /\ 3 \in 0..31 /\ 6 \in 0..31 /\ 7 \in 0..31 /\ 10 \in 0..31 /\ 11 \in 0..31
      /\ 13 \in 0..31 /\ 17 \in 0..31 /\ 18 \in 0..31 /\ 19 \in 0..31 /\ 22 \in 0..31 /\ 25 \in 0..31
  OBVIOUS
<1>4. sha256_eps0(x) = Sigma0(x) /\ Sigma0(x) \in HashWord
  BY ONLY <1>1, <1>2, <1>3 DEF sha256_eps0, Sigma0
<1>5. sha256_eps1(x) = Sigma1(x) /\ Sigma1(x) \in HashWord
  BY ONLY <1>1, <1>2, <1>3 DEF sha256_eps1, Sigma1
<1>6. sha256_sig0(x) = LowSigma0(x) /\ LowSigma0(x) \in HashWord
  BY ONLY <1>1, <1>2, <1>3 DEF sha256_sig0, LowSigma0
<1>7. sha256_sig1(x) = LowSigma1(x) /\ LowSigma1(x) \in HashWord
  BY ONLY <1>1, <1>2, <1>3 DEF sha256_sig1, LowSigma1
<1> QED BY <1>4, <1>5, <1>6, <1>7

LEMMA WordIsOfBlock ==
    ASSUME NEW n \in Nat
    PROVE  WordOfBlock(n) = BlockWord(message[blk], n)
<1>1. ASSUME NEW j \in 0..31
      PROVE  /\ (32 * n + 31 - j) \div 8 = 4 * n + 3 - (j \div 8)
             /\ 7 - ((32 * n + 31 - j) % 8) = j % 8
  OBVIOUS
<1>2. \A j \in 0..31 : (message[blk][4 * n + 3 - (j \div 8)] \div 2^(j % 8)) % 2 = 1
                        <=> BitOfBlock(message[blk], 32 * n + 31 - j)
  BY <1>1 DEF BitOfBlock
<1> QED BY <1>2 DEF WordOfBlock, BlockWord

\* The sums of the code, from the last term to the first, are those of FIPS.
LEMMA SumsAreFips ==
    ASSUME NEW u \in HashWord, NEW v \in HashWord, NEW x \in HashWord, NEW y \in HashWord
    PROVE  /\ SumIs(sha256_add(u, v), Unsigned(u) + Unsigned(v))
           /\ SumIs(sha256_add(u, sha256_add(v, sha256_add(x, y))),
                    Unsigned(u) + Unsigned(v) + Unsigned(x) + Unsigned(y))
           /\ \A z \in HashWord :
                 SumIs(sha256_add(u, sha256_add(v, sha256_add(x, sha256_add(y, z)))),
                       Unsigned(u) + Unsigned(v) + Unsigned(x) + Unsigned(y) + Unsigned(z))
<1>1. \A z \in HashWord : SumIs(z, Unsigned(z)) /\ Unsigned(z) \in Nat
  BY OneTerm
<1>2. \A e, f \in HashWord : SumIs(sha256_add(e, f), Unsigned(e) + Unsigned(f))
  BY <1>1, AddTo
<1>3. \A e, f, g \in HashWord :
         SumIs(sha256_add(e, sha256_add(f, g)), Unsigned(e) + (Unsigned(f) + Unsigned(g)))
  <2> SUFFICES ASSUME NEW e \in HashWord, NEW f \in HashWord, NEW g \in HashWord
               PROVE  SumIs(sha256_add(e, sha256_add(f, g)), Unsigned(e) + (Unsigned(f) + Unsigned(g)))
    OBVIOUS
  <2>1. SumIs(sha256_add(f, g), Unsigned(f) + Unsigned(g)) /\ Unsigned(f) + Unsigned(g) \in Nat
    BY <1>1, <1>2
  <2> QED BY <2>1, AddTo
<1>4. SumIs(sha256_add(v, sha256_add(x, y)), Unsigned(v) + (Unsigned(x) + Unsigned(y)))
      /\ Unsigned(v) + (Unsigned(x) + Unsigned(y)) \in Nat
  BY <1>1, <1>3
<1>5. SumIs(sha256_add(u, sha256_add(v, sha256_add(x, y))),
            Unsigned(u) + (Unsigned(v) + (Unsigned(x) + Unsigned(y))))
  BY <1>4, AddTo
<1>6. Unsigned(u) + (Unsigned(v) + (Unsigned(x) + Unsigned(y)))
        = Unsigned(u) + Unsigned(v) + Unsigned(x) + Unsigned(y)
  BY <1>1
<1>7. ASSUME NEW z \in HashWord
      PROVE  SumIs(sha256_add(u, sha256_add(v, sha256_add(x, sha256_add(y, z)))),
                   Unsigned(u) + Unsigned(v) + Unsigned(x) + Unsigned(y) + Unsigned(z))
  <2>1. SumIs(sha256_add(x, sha256_add(y, z)), Unsigned(x) + (Unsigned(y) + Unsigned(z)))
        /\ Unsigned(x) + (Unsigned(y) + Unsigned(z)) \in Nat
    BY <1>1, <1>3
  <2>2. SumIs(sha256_add(v, sha256_add(x, sha256_add(y, z))),
              Unsigned(v) + (Unsigned(x) + (Unsigned(y) + Unsigned(z))))
        /\ Unsigned(v) + (Unsigned(x) + (Unsigned(y) + Unsigned(z))) \in Nat
    BY <1>1, <2>1, AddTo
  <2>3. SumIs(sha256_add(u, sha256_add(v, sha256_add(x, sha256_add(y, z)))),
              Unsigned(u) + (Unsigned(v) + (Unsigned(x) + (Unsigned(y) + Unsigned(z)))))
    BY <2>2, AddTo
  <2>4. Unsigned(u) + (Unsigned(v) + (Unsigned(x) + (Unsigned(y) + Unsigned(z))))
          = Unsigned(u) + Unsigned(v) + Unsigned(x) + Unsigned(y) + Unsigned(z)
    BY <1>1
  <2> QED BY <2>3, <2>4
<1> QED BY <1>2, <1>5, <1>6, <1>7

\* What has been computed so far is what FIPS 180-4 computes.
HashedAsFips ==
    /\ hash_pc # "call" =>
          \E hs : HashValues(hs, message, blk - 1) /\ hs[blk - 1] = H
    /\ hash_pc = "schedule" => Scheduled(W, message[blk], t)
    /\ hash_pc = "rounds" =>
          /\ Scheduled(W, message[blk], 64)
          /\ \E regs : RoundsGive(regs, H, W, t) /\ regs[t] = work

\* A word of the schedule.
LEMMA ScheduleIsFips ==
    ASSUME HashIInv, HashedAsFips, ScheduleWord
    PROVE  Scheduled(W', message[blk], t + 1)
<1>1. /\ hash_pc = "schedule" /\ t \in 0..63 /\ Scheduled(W, message[blk], t)
      /\ t = 0 \/ W \in [0 .. (t - 1) -> HashWord]
  BY DEF ScheduleWord, HashIInv, HashedAsFips
<1> DEFINE entry == IF t < 16 THEN WordOfBlock(t)
                  ELSE sha256_add(sha256_sig1(W[t - 2]),
                         sha256_add(W[t - 7], sha256_add(sha256_sig0(W[t - 15]), W[t - 16])))
           new == [n \in 0..t |-> IF n = t THEN entry ELSE W[n]]
<1>2. W' = new
  BY DEF ScheduleWord
<1>3. t \in 0..t /\ \A j \in 0 .. (t - 1) : j \in 0..t /\ j # t
  BY <1>1
<1> HIDE DEF entry
<1>4. new[t] = entry /\ \A j \in 0 .. (t - 1) : new[j] = W[j]
  BY ONLY <1>3 DEF new
<1> HIDE DEF new
<1>5. ASSUME t >= 16
      PROVE  /\ t - 2 \in 0 .. (t - 1) /\ t - 7 \in 0 .. (t - 1)
             /\ t - 15 \in 0 .. (t - 1) /\ t - 16 \in 0 .. (t - 1)
  BY <1>1, <1>5
<1>6. t < 16 => entry = BlockWord(message[blk], t)
  BY <1>1, WordIsOfBlock DEF entry
<1>7. ASSUME t >= 16
      PROVE  SumIs(entry, Unsigned(LowSigma1(new[t - 2])) + Unsigned(new[t - 7])
                            + Unsigned(LowSigma0(new[t - 15])) + Unsigned(new[t - 16]))
  <2>1. /\ new[t - 2] = W[t - 2] /\ new[t - 7] = W[t - 7]
        /\ new[t - 15] = W[t - 15] /\ new[t - 16] = W[t - 16]
    BY <1>4, <1>5, <1>7
  <2>2. /\ W[t - 2] \in HashWord /\ W[t - 7] \in HashWord
        /\ W[t - 15] \in HashWord /\ W[t - 16] \in HashWord
    <3>1. W \in [0 .. (t - 1) -> HashWord]
      BY <1>1, <1>7
    <3> QED BY ONLY <1>5, <1>7, <3>1
  <2>3. /\ sha256_sig1(W[t - 2]) = LowSigma1(W[t - 2]) /\ LowSigma1(W[t - 2]) \in HashWord
        /\ sha256_sig0(W[t - 15]) = LowSigma0(W[t - 15]) /\ LowSigma0(W[t - 15]) \in HashWord
    BY <2>2, SigmasAreFips
  <2>4. entry = sha256_add(LowSigma1(W[t - 2]),
                 sha256_add(W[t - 7], sha256_add(LowSigma0(W[t - 15]), W[t - 16])))
    BY <1>1, <1>7, <2>3 DEF entry
  <2> DEFINE u == LowSigma1(W[t - 2])
             v == W[t - 7]
             x == LowSigma0(W[t - 15])
             y == W[t - 16]
  <2>5. u \in HashWord /\ v \in HashWord /\ x \in HashWord /\ y \in HashWord
    BY <2>2, <2>3
  <2>6. entry = sha256_add(u, sha256_add(v, sha256_add(x, y)))
    BY <2>4
  <2> HIDE DEF u, v, x, y
  <2>7. SumIs(entry, Unsigned(u) + Unsigned(v) + Unsigned(x) + Unsigned(y))
    BY ONLY <2>5, <2>6, SumsAreFips
  <2> QED BY <2>1, <2>7 DEF u, v, x, y
<1>8. ASSUME NEW j \in 0 .. (t - 1)
      PROVE  /\ j < 16 => new[j] = BlockWord(message[blk], j)
             /\ j >= 16 => SumIs(new[j], Unsigned(LowSigma1(new[j - 2])) + Unsigned(new[j - 7])
                               + Unsigned(LowSigma0(new[j - 15])) + Unsigned(new[j - 16]))
  <2>1. new[j] = W[j]
    BY <1>4
  <2>2. ASSUME j >= 16
        PROVE  /\ new[j - 2] = W[j - 2] /\ new[j - 7] = W[j - 7]
               /\ new[j - 15] = W[j - 15] /\ new[j - 16] = W[j - 16]
    <3>1. /\ j - 2 \in 0 .. (t - 1) /\ j - 7 \in 0 .. (t - 1)
          /\ j - 15 \in 0 .. (t - 1) /\ j - 16 \in 0 .. (t - 1)
      BY <1>1, <2>2
    <3> QED BY <1>4, <3>1
  <2>3. /\ j < 16 => W[j] = BlockWord(message[blk], j)
        /\ j >= 16 => SumIs(W[j], Unsigned(LowSigma1(W[j - 2])) + Unsigned(W[j - 7])
                            + Unsigned(LowSigma0(W[j - 15])) + Unsigned(W[j - 16]))
    BY <1>1 DEF Scheduled
  <2> QED BY <2>1, <2>2, <2>3
<1>9. \A j \in 0 .. ((t + 1) - 1) : j = t \/ j \in 0 .. (t - 1)
  BY <1>1
<1>10. Scheduled(new, message[blk], t + 1)
  <2> SUFFICES ASSUME NEW j \in 0 .. ((t + 1) - 1)
               PROVE  /\ j < 16 => new[j] = BlockWord(message[blk], j)
                      /\ j >= 16 => SumIs(new[j], Unsigned(LowSigma1(new[j - 2])) + Unsigned(new[j - 7])
                                        + Unsigned(LowSigma0(new[j - 15])) + Unsigned(new[j - 16]))
    BY DEF Scheduled
  <2>1. CASE j = t
    BY <1>1, <1>4, <1>6, <1>7, <2>1
  <2>2. CASE j \in 0 .. (t - 1)
    BY <1>8, <2>2
  <2> QED BY <1>9, <2>1, <2>2
<1> QED BY <1>2, <1>10

\* A round.
LEMMA HashRoundIsFips ==
    ASSUME HashIInv, HashRound
    PROVE  RoundGives(work, sha256_K[t], W[t], work')
<1>1. /\ hash_pc = "rounds" /\ t \in 0..63
      /\ W \in [0..63 -> HashWord] /\ work \in [0..7 -> HashWord]
  BY DEF HashRound, HashIInv
<1>2. W[t] \in HashWord /\ sha256_K[t] \in HashWord
  BY <1>1, HashAssumption
<1>3. \A j \in 0..7 : work[j] \in HashWord
  BY <1>1
<1>4. /\ work[0] \in HashWord /\ work[1] \in HashWord /\ work[2] \in HashWord
      /\ work[3] \in HashWord /\ work[4] \in HashWord /\ work[5] \in HashWord
      /\ work[6] \in HashWord /\ work[7] \in HashWord
  BY <1>3
<1> DEFINE T1 == sha256_add(work[7], sha256_add(sha256_eps1(work[4]),
                   sha256_add(sha256_Ch(work[4], work[5], work[6]),
                              sha256_add(sha256_K[t], W[t]))))
           T2 == sha256_add(sha256_eps0(work[0]), sha256_Maj(work[0], work[1], work[2]))
           new == [n \in 0..7 |-> CASE n = 0 -> sha256_add(T1, T2)
                                    [] n = 4 -> sha256_add(work[3], T1)
                                    [] OTHER -> work[n - 1]]
<1>5. work' = new
  BY DEF HashRound
<1>6. /\ sha256_eps1(work[4]) = Sigma1(work[4]) /\ Sigma1(work[4]) \in HashWord
      /\ sha256_eps0(work[0]) = Sigma0(work[0]) /\ Sigma0(work[0]) \in HashWord
  BY <1>4, SigmasAreFips
<1>7. /\ sha256_Ch(work[4], work[5], work[6]) = Choice(work[4], work[5], work[6])
      /\ Choice(work[4], work[5], work[6]) \in HashWord
  BY <1>4, FunctionsAreFips
<1>8. /\ sha256_Maj(work[0], work[1], work[2]) = Majority(work[0], work[1], work[2])
      /\ Majority(work[0], work[1], work[2]) \in HashWord
  BY <1>4, FunctionsAreFips
<1>9. SumIs(T1, Unsigned(work[7]) + Unsigned(Sigma1(work[4]))
                  + Unsigned(Choice(work[4], work[5], work[6]))
                  + Unsigned(sha256_K[t]) + Unsigned(W[t]))
  <2> DEFINE u == work[7]
             v == Sigma1(work[4])
             x == Choice(work[4], work[5], work[6])
             y == sha256_K[t]
             z == W[t]
  <2>1. u \in HashWord /\ v \in HashWord /\ x \in HashWord /\ y \in HashWord /\ z \in HashWord
    BY <1>2, <1>4, <1>6, <1>7
  <2>2. T1 = sha256_add(u, sha256_add(v, sha256_add(x, sha256_add(y, z))))
    BY <1>6, <1>7
  <2> HIDE DEF u, v, x, y, z, T1
  <2>3. SumIs(T1, Unsigned(u) + Unsigned(v) + Unsigned(x) + Unsigned(y) + Unsigned(z))
    BY ONLY <2>1, <2>2, SumsAreFips
  <2> QED BY <2>3 DEF u, v, x, y, z
<1>10. SumIs(T2, Unsigned(Sigma0(work[0])) + Unsigned(Majority(work[0], work[1], work[2])))
  BY <1>6, <1>8, SumsAreFips
<1>11. T1 \in HashWord /\ T2 \in HashWord
  BY SumIsAWord
<1> HIDE DEF T1, T2
<1>12. /\ new[0] = sha256_add(T1, T2) /\ new[4] = sha256_add(work[3], T1)
       /\ new[1] = work[0] /\ new[2] = work[1] /\ new[3] = work[2]
       /\ new[5] = work[4] /\ new[6] = work[5] /\ new[7] = work[6]
  OBVIOUS
<1>13. SumIs(new[0], Unsigned(T1) + Unsigned(T2)) /\ SumIs(new[4], Unsigned(work[3]) + Unsigned(T1))
  BY <1>4, <1>11, <1>12, SumsAreFips
<1>14. new \in [0..7 -> HashWord]
  <2>1. \A n \in 0..7 : n # 0 => n - 1 \in 0..7
    OBVIOUS
  <2>2. sha256_add(T1, T2) \in HashWord /\ sha256_add(work[3], T1) \in HashWord
    BY SumIsAWord
  <2> QED BY <1>3, <2>1, <2>2
<1> HIDE DEF new
<1>15. RoundGives(work, sha256_K[t], W[t], new)
  BY <1>9, <1>10, <1>11, <1>12, <1>13, <1>14 DEF RoundGives
<1> QED BY <1>5, <1>15

\* The end of a block.
LEMMA BlockIsFips ==
    ASSUME HashIInv, HashedAsFips, EndBlock
    PROVE  Compressed(H, message[blk], H')
<1>1. /\ hash_pc = "rounds" /\ t = 64 /\ H' = FeedForward /\ H \in [0..7 -> HashWord]
      /\ W \in [0..63 -> HashWord] /\ work \in [0..7 -> HashWord]
      /\ Scheduled(W, message[blk], 64)
  BY DEF EndBlock, HashIInv, HashedAsFips
<1>2. PICK regs : RoundsGive(regs, H, W, 64) /\ regs[64] = work
  BY <1>1 DEF HashedAsFips
<1>3. FeedForward \in [0..7 -> HashWord]
  BY SumIsAWord DEF FeedForward
<1>4. ASSUME NEW j \in 0..7
      PROVE  SumIs(FeedForward[j], Unsigned(regs[64][j]) + Unsigned(H[j]))
  <2>1. FeedForward[j] = sha256_add(work[j], H[j]) /\ work[j] \in HashWord /\ H[j] \in HashWord
    BY <1>1 DEF FeedForward
  <2> QED BY <1>2, <2>1, SumsAreFips
<1>5. regs \in [0..64 -> [0..7 -> HashWord]]
  BY <1>2 DEF RoundsGive
<1> HIDE DEF FeedForward
<1> QED BY <1>1, <1>2, <1>3, <1>4, <1>5 DEF Compressed

\* One more round, one more block.
LEMMA OneMoreRound ==
    ASSUME NEW n \in Nat, NEW h, NEW sched, NEW regs, RoundsGive(regs, h, sched, n),
           NEW y, RoundGives(regs[n], sha256_K[n], sched[n], y)
    PROVE  \E more : RoundsGive(more, h, sched, n + 1) /\ more[n + 1] = y
<1>1. regs \in [0..n -> [0..7 -> HashWord]] /\ y \in [0..7 -> HashWord]
  BY DEF RoundsGive, RoundGives
<1> DEFINE next == [j \in 0 .. (n + 1) |-> IF j = n + 1 THEN y ELSE regs[j]]
<1>2. /\ next \in [0 .. (n + 1) -> [0..7 -> HashWord]] /\ next[n + 1] = y
      /\ \A j \in 0..n : next[j] = regs[j]
  <2>1. /\ n + 1 \in 0 .. (n + 1)
        /\ \A j \in 0..n : j \in 0 .. (n + 1) /\ j # n + 1
        /\ \A j \in 0 .. (n + 1) : j # n + 1 => j \in 0..n
    OBVIOUS
  <2> DEFINE Values == [0..7 -> HashWord]
  <2>2. regs \in [0..n -> Values] /\ y \in Values
    BY <1>1
  <2> HIDE DEF Values
  <2>3. next \in [0 .. (n + 1) -> Values]
    BY <2>1, <2>2
  <2> QED BY <2>1, <2>3 DEF Values
<1> HIDE DEF next
<1>3. next[0] = h
  BY <1>2 DEF RoundsGive
<1>4. ASSUME NEW j \in 0 .. ((n + 1) - 1)
      PROVE  RoundGives(next[j], sha256_K[j], sched[j], next[j + 1])
  <2>1. CASE j = n
    <3>1. n \in 0..n /\ next[n] = regs[n]
      BY <1>2
    <3> QED BY <1>2, <2>1, <3>1
  <2>2. CASE j # n
    <3>1. j \in 0 .. (n - 1) /\ j \in 0..n /\ j + 1 \in 0..n
      BY <2>2
    <3>2. RoundGives(regs[j], sha256_K[j], sched[j], regs[j + 1])
      BY <3>1 DEF RoundsGive
    <3> QED BY <1>2, <3>1, <3>2
  <2> QED BY <2>1, <2>2
<1> QED BY <1>2, <1>3, <1>4 DEF RoundsGive

LEMMA OneMoreBlock ==
    ASSUME NEW n \in Nat, NEW blocks, NEW hs, HashValues(hs, blocks, n),
           NEW g, Compressed(hs[n], blocks[n + 1], g)
    PROVE  \E more : HashValues(more, blocks, n + 1) /\ more[n + 1] = g
<1>1. hs \in [0..n -> [0..7 -> HashWord]] /\ g \in [0..7 -> HashWord]
  BY DEF HashValues, Compressed
<1> DEFINE next == [j \in 0 .. (n + 1) |-> IF j = n + 1 THEN g ELSE hs[j]]
<1>2. /\ next \in [0 .. (n + 1) -> [0..7 -> HashWord]] /\ next[n + 1] = g
      /\ \A j \in 0..n : next[j] = hs[j]
  <2>1. /\ n + 1 \in 0 .. (n + 1)
        /\ \A j \in 0..n : j \in 0 .. (n + 1) /\ j # n + 1
        /\ \A j \in 0 .. (n + 1) : j # n + 1 => j \in 0..n
    OBVIOUS
  <2> DEFINE Values == [0..7 -> HashWord]
  <2>2. hs \in [0..n -> Values] /\ g \in Values
    BY <1>1
  <2> HIDE DEF Values
  <2>3. next \in [0 .. (n + 1) -> Values]
    BY <2>1, <2>2
  <2> QED BY <2>1, <2>3 DEF Values
<1> HIDE DEF next
<1>3. next[0] = H_0
  BY <1>2 DEF HashValues
<1>4. ASSUME NEW j \in 0 .. ((n + 1) - 1)
      PROVE  Compressed(next[j], blocks[j + 1], next[j + 1])
  <2>1. CASE j = n
    <3>1. n \in 0..n /\ next[n] = hs[n]
      BY <1>2
    <3> QED BY <1>2, <2>1, <3>1
  <2>2. CASE j # n
    <3>1. j \in 0 .. (n - 1) /\ j \in 0..n /\ j + 1 \in 0..n
      BY <2>2
    <3>2. Compressed(hs[j], blocks[j + 1], hs[j + 1])
      BY <3>1 DEF HashValues
    <3> QED BY <1>2, <3>1, <3>2
  <2> QED BY <2>1, <2>2
<1> QED BY <1>2, <1>3, <1>4 DEF HashValues

LEMMA FipsStep == HashIInv /\ HashedAsFips /\ [HashNext]_hash_vars => HashedAsFips'
<1> SUFFICES ASSUME HashIInv, HashedAsFips, [HashNext]_hash_vars PROVE HashedAsFips'
  OBVIOUS
<1>1. CASE HashMessage
  <2>1. hash_pc' = "schedule" /\ H' = H_0 /\ blk' = 1 /\ t' = 0
    BY <1>1 DEF HashMessage
  <2> DEFINE hs == [j \in 0..0 |-> H_0]
  <2>2. hs \in [0..0 -> [0..7 -> HashWord]] /\ hs[0] = H_0
    BY HashAssumption
  <2> HIDE DEF hs
  <2>3. HashValues(hs, message', 0)
    BY <2>2 DEF HashValues
  <2>4. blk' - 1 = 0 /\ H' = hs[0]
    BY <2>1, <2>2
  <2>5. Scheduled(W', message'[blk'], t')
    BY <2>1 DEF Scheduled
  <2> QED BY <2>1, <2>3, <2>4, <2>5 DEF HashedAsFips
<1>2. CASE ScheduleWord
  <2>1. hash_pc = "schedule" /\ t' = t + 1 /\ UNCHANGED <<hash_pc, message, blk, work, H>>
    BY <1>2 DEF ScheduleWord
  <2>2. Scheduled(W', message[blk], t + 1)
    BY <1>2, ScheduleIsFips
  <2> QED BY <2>1, <2>2 DEF HashedAsFips
<1>3. CASE StartRounds
  <2>1. /\ hash_pc = "schedule" /\ t = 64 /\ hash_pc' = "rounds" /\ work' = H /\ t' = 0
        /\ UNCHANGED <<message, blk, W, H>> /\ H \in [0..7 -> HashWord]
    BY <1>3 DEF StartRounds, HashIInv
  <2> DEFINE regs == [j \in 0..0 |-> H]
  <2>2. regs \in [0..0 -> [0..7 -> HashWord]] /\ regs[0] = H
    BY <2>1
  <2> HIDE DEF regs
  <2>3. RoundsGive(regs, H, W, 0)
    BY <2>2 DEF RoundsGive
  <2>4. Scheduled(W, message[blk], 64)
    BY <2>1 DEF HashedAsFips
  <2> QED BY <2>1, <2>2, <2>3, <2>4 DEF HashedAsFips
<1>4. CASE HashRound
  <2>1. /\ hash_pc = "rounds" /\ t' = t + 1 /\ UNCHANGED <<hash_pc, message, blk, W, H>>
    BY <1>4 DEF HashRound
  <2> t \in Nat
    BY DEF HashIInv
  <2>2. PICK regs : RoundsGive(regs, H, W, t) /\ regs[t] = work
    BY <2>1 DEF HashedAsFips
  <2>3. RoundGives(work, sha256_K[t], W[t], work')
    BY <1>4, HashRoundIsFips
  <2>4. \E more : RoundsGive(more, H, W, t + 1) /\ more[t + 1] = work'
    BY <2>1, <2>2, <2>3, OneMoreRound
  <2> QED BY <2>1, <2>4 DEF HashedAsFips
<1>5. CASE EndBlock
  <2>1. /\ hash_pc = "rounds" /\ blk' = blk + 1 /\ t' = 0 /\ message' = message
        /\ hash_pc' \in {"schedule", "done"}
    BY <1>5 DEF EndBlock
  <2>2. PICK hs : HashValues(hs, message, blk - 1) /\ hs[blk - 1] = H
    BY <2>1 DEF HashedAsFips
  <2>3. blk \in Nat /\ blk - 1 \in Nat /\ (blk - 1) + 1 = blk /\ (blk + 1) - 1 = blk
    <3>1. blk \in 1..Len(message) /\ Len(message) \in Nat
      BY <2>1, BlocksOfAMessage DEF HashIInv
    <3> QED BY <3>1
  <2>4. Compressed(H, message[blk], H')
    BY <1>5, BlockIsFips
  <2>5. \E more : HashValues(more, message, blk) /\ more[blk] = H'
    <3> DEFINE n == blk - 1
    <3>1. n \in Nat /\ n + 1 = blk /\ HashValues(hs, message, n) /\ hs[n] = H
      BY <2>2, <2>3
    <3> HIDE DEF n
    <3>2. \E more : HashValues(more, message, n + 1) /\ more[n + 1] = H'
      BY <2>4, <3>1, OneMoreBlock
    <3> QED BY <3>1, <3>2
  <2>6. Scheduled(W', message'[blk'], t')
    BY <2>1 DEF Scheduled
  <2> QED BY <2>1, <2>3, <2>5, <2>6 DEF HashedAsFips
<1>6. CASE UNCHANGED hash_vars
  BY <1>6 DEF hash_vars, HashedAsFips
<1> QED BY <1>1, <1>2, <1>3, <1>4, <1>5, <1>6 DEF HashNext

\* For any padded message and any constants, sha256 ends with the hash value of FIPS
\* 180-4, section 6.2.2, and no other value satisfies what the standard says of the
\* message schedule and the working variables of each block, with its functions
\* taken bit by bit and its sums modulo 2^32 (sha.c:194-287).
THEOREM HashIsTheStandards == HashSpec => []HashIsFips
<1>1. HashInit => HashedAsFips
  BY DEF HashInit, HashedAsFips
<1>2. HashIInv /\ HashedAsFips => HashIsFips
  <2> SUFFICES ASSUME HashIInv, HashedAsFips, hash_pc = "done" PROVE HashIsFips
    BY DEF HashIsFips
  <2>1. blk = Len(message) + 1 /\ Len(message) \in Nat
    BY BlocksOfAMessage DEF HashIInv
  <2>2. blk - 1 = Len(message)
    BY <2>1
  <2>3. PICK hs : HashValues(hs, message, Len(message)) /\ hs[Len(message)] = H
    BY <2>2 DEF HashedAsFips
  <2>4. ASSUME NEW g, IsHash(message, g) PROVE g = H
    <3>1. PICK values : HashValues(values, message, Len(message)) /\ values[Len(message)] = g
      BY <2>4 DEF IsHash
    <3> QED BY <2>1, <2>3, <3>1, OneHashValue
  <2> QED BY <2>3, <2>4 DEF HashIsFips, IsHash
<1> QED BY <1>1, <1>2, HashInitial, HashStep, FipsStep, PTL DEF HashSpec

----------------------------------------------------------------------------
(* The three machines of the run.                                          *)

\* DES, AES and SHA-256 keep their types whatever the tables, the keys, the blocks
\* and the messages, in the specification the run checks.
THEOREM PrimitivesTypesAreKept == PrimitivesSpec => []PrimitivesTypeOK
<1> DEFINE vars == <<des_vars, aes_vars, hash_vars>>
           Inv == DesIInv /\ AesIInv /\ HashIInv
<1>1. PrimitivesInit => Inv
  BY DesInitInv, AesInitInv, HashInitial DEF PrimitivesInit
<1>2. Inv /\ [PrimitivesNext]_vars => Inv'
  <2> SUFFICES ASSUME Inv, [PrimitivesNext]_vars PROVE Inv'
    OBVIOUS
  <2>1. [DesNext]_des_vars /\ [AesNext]_aes_vars /\ [HashNext]_hash_vars
    BY DEF PrimitivesNext
  <2> QED BY <2>1, DesStep, AesStep, HashStep
<1>3. Inv => PrimitivesTypeOK
  BY AesInvImpliesTypeOK, HashInvImpliesTypeOK DEF PrimitivesTypeOK, DesIInv
<1> QED BY <1>1, <1>2, <1>3, PTL DEF PrimitivesSpec

=============================================================================
