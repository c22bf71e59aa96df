--------------------------- MODULE FileTagsProofs ---------------------------
(***************************************************************************)
(* What FileTags promises, for blocks, tags and files of every size: the   *)
(* tagged file is the chain, a block counted as verified is authentic, and *)
(* damage is noticed.                                                      *)
(***************************************************************************)
EXTENDS FileTags, FiniteSetTheorems, WellFoundedInduction, TLAPS

\* x holds n bytes.
IsArray(x, n) == n \in Nat /\ DOMAIN x = Bytes(n) /\ x = [i \in Bytes(n) |-> x[i]]

\* The tag in front of block k: zeros when there is none after the last one.
TagOf(k) == IF k < NumBlocks THEN sha256(Chain[k], Length(Chain[k]))
            ELSE Zeros(SHA256_MD_SZ)

\* Bytes of block k, and of the tagged block.
BlockLen(k) == IF k = NumBlocks - 1 THEN Length(file) - k * FILE_BLOCK_SZ ELSE FILE_BLOCK_SZ
ChainLen(k) == IF k = NumBlocks - 1 THEN Length(file) - k * FILE_BLOCK_SZ ELSE BUF_SZ

\* Bytes of the chain.
Total == IF NumBlocks = 0 THEN 0
         ELSE (NumBlocks - 1) * BUF_SZ + ChainLen(NumBlocks - 1)

----------------------------------------------------------------------------
(* The inductive invariant.                                                *)

Video == \E size \in 0..MaxSize : file = [i \in Bytes(size) |-> <<"video", i>>]

Types ==
    /\ IsArray(buf, BUF_SZ) /\ IsArray(tag, SHA256_MD_SZ) /\ IsArray(prev_tag, SHA256_MD_SZ)
    /\ IsArray(file_tagged, Length(file_tagged))
    /\ blk_size \in 0..FILE_BLOCK_SZ /\ blk_tagged_size \in 0..BUF_SZ
    /\ file_pos \in Int /\ file_tagged_pos \in Int
    /\ file_pos * BUF_SZ = file_tagged_pos * FILE_BLOCK_SZ
    /\ read_pos \in 0..Length(file_tagged)
    /\ faults \subseteq Faults
    /\ faults \in {{}, {"open"}, {"read"}, {"write"}, {"damage"}}
    /\ pc \in {"start", "tag", "tagged", "verify", "outcome", "end"}

\* No block before position n has been written.
EmptyBelow(n) == \A i \in DOMAIN file_tagged : i < n => file_tagged[i] = Zero

\* The blocks from m on are in the second file.
IntactFrom(m) ==
    /\ m < NumBlocks => Length(file_tagged) = Total
    /\ \A k \in m .. (NumBlocks - 1) : Stored(k) = Chain[k]

\* The blocks from m on have been tagged.
TaggedFrom(m) ==
    /\ tag = TagOf(m) /\ EmptyBelow(m * BUF_SZ) /\ Length(file_tagged) <= Total
    /\ faults = {} => IntactFrom(m)

Tagging ==
    /\ pc \in {"start", "tag", "tagged"} =>
          blk_cnt = 0 /\ read_pos = 0 /\ eof = FALSE
    /\ pc = "start" =>
          /\ file_tagged = Zeros(0) /\ tag = Zeros(SHA256_MD_SZ) /\ faults = {} /\ said = {}
    /\ pc = "tag" =>
          /\ faults \in {{}, {"write"}} /\ said = {}
          /\ \E m \in 0..NumBlocks :
                /\ TaggedFrom(m)
                /\ file_pos = (m - 1) * FILE_BLOCK_SZ /\ file_tagged_pos = (m - 1) * BUF_SZ
                /\ blk_size = (IF m = NumBlocks /\ m # 0 THEN BlockLen(m - 1) ELSE FILE_BLOCK_SZ)
                /\ m # 0 => blk_tagged_size = ChainLen(m - 1)
    /\ pc = "tagged" =>
          /\ faults \in {{}, {"write"}, {"read"}}
          /\ faults = {} => said = {}
          /\ \E m \in 0..NumBlocks : TaggedFrom(m) /\ (m = 0 \/ faults = {"read"})

\* What is expected of the next block.
Expecting ==
    \/ blk_cnt = NumBlocks
    \/ prev_tag = TagOf(blk_cnt)
    \/ /\ faults = {"read"} /\ blk_cnt = 0
       /\ \E m \in 1..NumBlocks : prev_tag = TagOf(m) /\ EmptyBelow(m * BUF_SZ)

\* What has become of the second file since it was written.
Contents ==
    /\ Length(file_tagged) <= Total
    /\ faults = {} => IntactFrom(0)
    /\ faults = {"damage"} =>
          /\ Length(file_tagged) = Total
          /\ \E i \in DOMAIN file_tagged : file_tagged[i] = <<"damaged">>

Verified ==
    /\ blk_cnt \in 0..NumBlocks
    /\ \A k \in 0 .. (blk_cnt - 1) : Stored(k) = Chain[k]

Failed == "file integrity check failed" \in said

Verifying ==
    /\ Verified
    /\ pc \in {"verify", "outcome"} =>
          /\ Contents /\ faults # {"open"}
          /\ faults = {} => said = {"File encoded successfully"}
    /\ pc = "verify" =>
          /\ read_pos = (IF blk_cnt = NumBlocks THEN Total ELSE blk_cnt * BUF_SZ)
          /\ Expecting
    /\ pc = "outcome" =>
          \/ Failed /\ faults # {}
          \/ eof /\ faults # {"damage"} /\ (faults = {} => blk_cnt = NumBlocks)

IInv == Video /\ Types /\ Tagging /\ Verifying /\ DamageIsNoticed

----------------------------------------------------------------------------
(* Numbers.                                                                *)

LEMMA SizesPositive ==
    /\ FILE_BLOCK_SZ \in Nat \ {0} /\ SHA256_MD_SZ \in Nat \ {0}
    /\ BUF_SZ \in Nat \ {0} /\ BUF_SZ = FILE_BLOCK_SZ + SHA256_MD_SZ
BY BlockAssumption DEF BUF_SZ

\* Every nonempty set of naturals has a least element.
LEMMA LeastElement ==
    ASSUME NEW S, S \subseteq Nat, S # {}
    PROVE  \E m \in S : \A y \in S : m <= y
<1> DEFINE less == {ss \in Nat \X Nat : ss[1] < ss[2]}
<1>1. IsWellFoundedOn(less, Nat)
  BY NatLessThanWellFounded DEF OpToRel
<1>2. PICK m \in S : \A y \in S : ~ (<<y, m>> \in less)
  BY <1>1, WFMin
<1>3. ASSUME NEW y \in S PROVE m <= y
  <2>1. <<y, m>> \in Nat \X Nat /\ <<y, m>>[1] = y /\ <<y, m>>[2] = m
    OBVIOUS
  <2> QED BY <1>2, <2>1
<1> QED BY <1>3

LEMMA MaxOfTwo ==
    ASSUME NEW x \in Int, NEW y \in Int
    PROVE  Max({x, y}) = IF x >= y THEN x ELSE y
BY DEF Max

LEMMA MinOfTwo ==
    ASSUME NEW x \in Int, NEW y \in Int
    PROVE  Min({x, y}) = IF x <= y THEN x ELSE y
BY DEF Min

\* Division with remainder, and its uniqueness.
LEMMA Division ==
    ASSUME NEW x \in Nat, NEW b \in Nat \ {0}
    PROVE  /\ x \div b \in Nat /\ x % b \in Nat /\ x % b < b
           /\ x = ((x \div b) * b) + (x % b)
OBVIOUS

LEMMA Quotient ==
    ASSUME NEW x \in Nat, NEW b \in Nat \ {0}, NEW q \in Nat, NEW r \in Nat,
           r < b, x = (q * b) + r
    PROVE  x \div b = q
OBVIOUS

\* A product grows with its first factor.
LEMMA Steps ==
    ASSUME NEW k \in Int, NEW m \in Int, NEW u \in Nat \ {0}
    PROVE  /\ k * u \in Int /\ (k + 1) * u = (k * u) + u /\ (k - 1) * u = (k * u) - u
           /\ k <= m => k * u <= m * u
           /\ k < m => (k * u) + u <= m * u
           /\ 0 <= k => 0 <= k * u
<1>1. (k + 1) * u = (k * u) + u /\ (k - 1) * u = (k * u) - u /\ k * u \in Int
  OBVIOUS
<1>2. ASSUME NEW d \in Nat PROVE d * u \in Nat
  OBVIOUS
<1>3. k <= m => k * u <= m * u
  <2>1. SUFFICES ASSUME k <= m PROVE k * u <= m * u
    OBVIOUS
  <2>2. (m - k) * u \in Nat /\ (m - k) * u = (m * u) - (k * u)
    BY <1>2, <2>1
  <2> QED BY <2>2
<1>4. k < m => (k * u) + u <= m * u
  <2>1. SUFFICES ASSUME k < m PROVE (k * u) + u <= m * u
    OBVIOUS
  <2>2. (m - (k + 1)) * u \in Nat /\ (m - (k + 1)) * u = (m * u) - ((k + 1) * u)
    BY <1>2, <2>1
  <2> QED BY <1>1, <2>2
<1>5. 0 <= k => 0 <= k * u
  BY <1>2
<1> QED BY <1>1, <1>3, <1>4, <1>5

----------------------------------------------------------------------------
(* Arrays.                                                                 *)

LEMMA BytesLength ==
    ASSUME NEW n \in Nat
    PROVE  Cardinality(Bytes(n)) = n
BY FS_Interval DEF Bytes

LEMMA ArrayLength ==
    ASSUME NEW x, NEW n, IsArray(x, n)
    PROVE  Length(x) = n
BY BytesLength DEF IsArray, Length

LEMMA ArraysEqual ==
    ASSUME NEW x, NEW y, NEW n, IsArray(x, n), IsArray(y, n),
           \A i \in Bytes(n) : x[i] = y[i]
    PROVE  x = y
<1>1. [i \in Bytes(n) |-> x[i]] = [i \in Bytes(n) |-> y[i]]
  OBVIOUS
<1> QED BY <1>1 DEF IsArray

LEMMA SliceArray ==
    ASSUME NEW x, NEW from \in Int, NEW n \in Nat
    PROVE  /\ IsArray(Slice(x, from, n), n)
           /\ \A i \in Bytes(n) : Slice(x, from, n)[i] = x[from + i]
BY DEF IsArray, Slice

LEMMA ZerosArray ==
    ASSUME NEW n \in Nat
    PROVE  IsArray(Zeros(n), n) /\ \A i \in Bytes(n) : Zeros(n)[i] = Zero
BY DEF IsArray, Zeros

LEMMA WholeSlice ==
    ASSUME NEW x, NEW n, IsArray(x, n)
    PROVE  Slice(x, 0, n) = x
<1>1. n \in Nat
  BY DEF IsArray
<1>2. IsArray(Slice(x, 0, n), n) /\ \A i \in Bytes(n) : Slice(x, 0, n)[i] = x[i]
  BY <1>1, SliceArray DEF Bytes
<1> QED BY <1>2, ArraysEqual

LEMMA WrittenArray ==
    ASSUME NEW x, NEW n, IsArray(x, n), NEW d, NEW m, IsArray(d, m), NEW from \in Nat,
           NEW len, len = IF n >= from + m THEN n ELSE from + m
    PROVE  /\ IsArray(Written(x, from, d), len)
           /\ \A i \in Bytes(len) :
                 Written(x, from, d)[i] = IF from <= i /\ i < from + m THEN d[i - from]
                                          ELSE IF i < n THEN x[i] ELSE Zero
<1>1. n \in Nat /\ m \in Nat /\ DOMAIN x = Bytes(n) /\ DOMAIN d = Bytes(m)
  BY DEF IsArray
<1>2. Length(x) = n /\ Length(d) = m
  BY ArrayLength
<1>3. len \in Nat /\ Max({Length(x), from + Length(d)}) = len
  BY <1>1, <1>2, MaxOfTwo
<1>4. Written(x, from, d) = [i \in Bytes(len) |-> IF i - from \in Bytes(m) THEN d[i - from]
                                ELSE IF i \in Bytes(n) THEN x[i] ELSE Zero]
  BY <1>1, <1>3 DEF Written
<1>5. ASSUME NEW i \in Bytes(len)
      PROVE  /\ i - from \in Bytes(m) <=> from <= i /\ i < from + m
             /\ i \in Bytes(n) <=> i < n
  BY <1>1, <1>3 DEF Bytes
<1>6. IsArray(Written(x, from, d), len)
  BY <1>3, <1>4 DEF IsArray
<1>7. ASSUME NEW i \in Bytes(len)
      PROVE  Written(x, from, d)[i] = IF from <= i /\ i < from + m THEN d[i - from]
                                      ELSE IF i < n THEN x[i] ELSE Zero
  BY <1>4, <1>5
<1> QED BY <1>6, <1>7

\* Tags are equal only if what they are the tags of is.
LEMMA TagArray ==
    ASSUME NEW x, NEW n
    PROVE  IsArray(sha256(x, n), SHA256_MD_SZ)
BY SizesPositive DEF IsArray, sha256

LEMMA TagsTell ==
    ASSUME NEW x, NEW y, NEW m, NEW n, sha256(x, m) = sha256(y, n)
    PROVE  Slice(x, 0, m) = Slice(y, 0, n)
<1>1. 0 \in Bytes(SHA256_MD_SZ)
  BY SizesPositive DEF Bytes
<1>2. sha256(x, m)[0] = <<"tag", Slice(x, 0, m), 0>> /\ sha256(y, n)[0] = <<"tag", Slice(y, 0, n), 0>>
  BY <1>1 DEF sha256
<1> QED BY <1>2

\* The bytes of the files can be told apart.
LEMMA BytesDiffer ==
    /\ \A i : Zero # <<"video", i>> /\ <<"damaged">> # <<"video", i>>
    /\ \A x, i : Zero # <<"tag", x, i>> /\ <<"damaged">> # <<"tag", x, i>>
    /\ \A x, i, j : <<"video", j>> # <<"tag", x, i>>
BY DEF Zero

----------------------------------------------------------------------------
(* The video and its blocks.                                               *)

LEMMA VideoFacts ==
    ASSUME Video
    PROVE  /\ Length(file) \in Nat /\ DOMAIN file = Bytes(Length(file))
           /\ \A i \in Bytes(Length(file)) : file[i] = <<"video", i>>
<1>1. PICK size \in 0..MaxSize : file = [i \in Bytes(size) |-> <<"video", i>>]
  BY DEF Video
<1>2. size \in Nat
  BY BlockAssumption
<1>3. Length(file) = size
  BY <1>1, <1>2, BytesLength DEF Length
<1> QED BY <1>1, <1>2, <1>3

\* The number of blocks is what last_blk_idx counts to.
LEMMA BlockNumbers ==
    ASSUME Video
    PROVE  /\ NumBlocks \in Nat
           /\ NumBlocks = 0 <=> Length(file) = 0
           /\ NumBlocks # 0 => BlockLen(NumBlocks - 1) \in 1..FILE_BLOCK_SZ
           /\ last_blk_idx(Length(file)) = NumBlocks - 1
           /\ (IF Length(file) % FILE_BLOCK_SZ # 0 THEN Length(file) % FILE_BLOCK_SZ
               ELSE FILE_BLOCK_SZ)
              = (IF NumBlocks # 0 THEN BlockLen(NumBlocks - 1) ELSE FILE_BLOCK_SZ)
<1> DEFINE z == Length(file)
           b == FILE_BLOCK_SZ
           q == z \div b
           r == z % b
<1>1. z \in Nat /\ b \in Nat \ {0}
  BY VideoFacts, SizesPositive
<1> HIDE DEF z, b
<1>2. q \in Nat /\ r \in Nat /\ r < b /\ z = (q * b) + r
  BY <1>1, Division
<1> HIDE DEF q, r
<1>3. (q + 1) * b = (q * b) + b /\ (q - 1) * b = (q * b) - b /\ q * b \in Nat
      /\ (q = 0 => q * b = 0) /\ (q # 0 => q * b >= b)
  <2>1. q = 0 => q * b = 0
    BY <1>1
  <2>2. q # 0 => q * b >= b
    <3>1. 1 * b = b /\ (1 <= q => 1 * b <= q * b)
      BY <1>1, <1>2, Steps
    <3> QED BY <1>2, <3>1
  <2> QED BY <1>1, <1>2, <2>1, <2>2, Steps
<1>4. CASE r = 0
  <2>1. z + b - 1 = (q * b) + (b - 1) /\ z + b - 1 \in Nat /\ b - 1 \in Nat /\ b - 1 < b
    BY <1>1, <1>2, <1>3, <1>4
  <2>2. NumBlocks = q
    BY <1>1, <1>2, <2>1, Quotient DEF NumBlocks, z, b
  <2>3. last_blk_idx(z) = q - 1
    BY <1>2, <1>4 DEF last_blk_idx, q, r, b
  <2>4. z - (q - 1) * b = b
    BY <1>1, <1>2, <1>3, <1>4
  <2>5. (q = 0 <=> z = 0) /\ NumBlocks - 1 = q - 1 /\ NumBlocks \in Nat
    BY <1>1, <1>2, <1>3, <1>4, <2>2
  <2>6. NumBlocks # 0 => BlockLen(NumBlocks - 1) = b
    BY <2>4, <2>5 DEF BlockLen, z, b
  <2>7. b \in 1..b
    BY <1>1
  <2>8. /\ NumBlocks = 0 <=> z = 0
        /\ NumBlocks # 0 => BlockLen(NumBlocks - 1) \in 1..b
        /\ last_blk_idx(z) = NumBlocks - 1
        /\ (IF r # 0 THEN r ELSE b)
            = (IF NumBlocks # 0 THEN BlockLen(NumBlocks - 1) ELSE b)
    BY <1>4, <2>2, <2>3, <2>5, <2>6, <2>7
  <2> USE DEF r
  <2> USE DEF z, b
  <2> QED BY ONLY <2>5, <2>8
<1>5. CASE r # 0
  <2>1. z + b - 1 = ((q + 1) * b) + (r - 1) /\ z + b - 1 \in Nat /\ r - 1 \in Nat /\ r - 1 < b
    BY <1>1, <1>2, <1>3, <1>5
  <2>2. NumBlocks = q + 1
    BY <1>1, <1>2, <2>1, Quotient DEF NumBlocks, z, b
  <2>3. last_blk_idx(z) = q
    BY <1>2, <1>5 DEF last_blk_idx, q, r, b
  <2>4. z - q * b = r /\ z # 0
    BY <1>1, <1>2, <1>3, <1>5
  <2>5. NumBlocks - 1 = q /\ NumBlocks # 0 /\ NumBlocks \in Nat
    BY <1>2, <2>2
  <2>6. BlockLen(NumBlocks - 1) = r
    BY <2>4, <2>5 DEF BlockLen, z, b
  <2>7. r \in 1..b
    BY <1>1, <1>2, <1>5
  <2>8. /\ NumBlocks = 0 <=> z = 0
        /\ NumBlocks # 0 => BlockLen(NumBlocks - 1) \in 1..b
        /\ last_blk_idx(z) = NumBlocks - 1
        /\ (IF r # 0 THEN r ELSE b)
            = (IF NumBlocks # 0 THEN BlockLen(NumBlocks - 1) ELSE b)
    BY <1>5, <2>3, <2>4, <2>5, <2>6, <2>7
  <2> USE DEF r
  <2> USE DEF z, b
  <2> QED BY ONLY <2>5, <2>8
<1> QED BY <1>4, <1>5

LEMMA LenFacts ==
    ASSUME Video, NEW k \in 0 .. (NumBlocks - 1)
    PROVE  /\ k \in Nat /\ k * FILE_BLOCK_SZ \in Nat /\ k * BUF_SZ \in Nat
           /\ BlockLen(k) \in 1..FILE_BLOCK_SZ /\ ChainLen(k) \in 1..BUF_SZ
           /\ k * FILE_BLOCK_SZ + BlockLen(k) <= Length(file)
           /\ Min({FILE_BLOCK_SZ, Length(file) - k * FILE_BLOCK_SZ}) = BlockLen(k)
           /\ k = NumBlocks - 1 => ChainLen(k) = BlockLen(k)
                                   /\ k * BUF_SZ + ChainLen(k) = Total
           /\ k # NumBlocks - 1 => ChainLen(k) = BUF_SZ /\ BlockLen(k) = FILE_BLOCK_SZ
                                   /\ k * BUF_SZ + BUF_SZ < Total
           /\ Total \in Nat /\ Min({BUF_SZ, Total - k * BUF_SZ}) = ChainLen(k)
<1> DEFINE n == NumBlocks - 1
<1>1. NumBlocks \in Nat /\ NumBlocks # 0 /\ n \in Nat /\ k \in Nat /\ k <= n
      /\ BlockLen(n) \in 1..FILE_BLOCK_SZ
  BY BlockNumbers
<1>2. n * FILE_BLOCK_SZ + BlockLen(n) = Length(file) /\ ChainLen(n) = BlockLen(n)
      /\ Total = n * BUF_SZ + ChainLen(n)
  <2>1. n * FILE_BLOCK_SZ \in Int /\ Length(file) \in Nat
    BY <1>1, Steps, SizesPositive, VideoFacts
  <2> QED BY <1>1, <2>1 DEF BlockLen, ChainLen, Total
<1> HIDE DEF n
<1>3. /\ k * FILE_BLOCK_SZ \in Nat /\ n * FILE_BLOCK_SZ \in Nat
      /\ k * BUF_SZ \in Nat /\ n * BUF_SZ \in Nat
      /\ k < n => /\ k * FILE_BLOCK_SZ + FILE_BLOCK_SZ <= n * FILE_BLOCK_SZ
                  /\ k * BUF_SZ + BUF_SZ <= n * BUF_SZ
  BY <1>1, Steps, SizesPositive
<1>4. /\ k < n => BlockLen(k) = FILE_BLOCK_SZ /\ ChainLen(k) = BUF_SZ
      /\ k = n <=> k = NumBlocks - 1
  BY <1>1 DEF BlockLen, ChainLen, n
<1>5. BlockLen(k) \in 1..FILE_BLOCK_SZ /\ ChainLen(k) \in 1..BUF_SZ
  BY <1>1, <1>2, <1>4, SizesPositive
<1>6. k * FILE_BLOCK_SZ + BlockLen(k) <= Length(file)
      /\ (k # n => k * FILE_BLOCK_SZ + FILE_BLOCK_SZ < Length(file))
  BY <1>1, <1>2, <1>3, <1>4, SizesPositive
<1>7. Min({FILE_BLOCK_SZ, Length(file) - k * FILE_BLOCK_SZ}) = BlockLen(k)
  BY <1>1, <1>2, <1>3, <1>4, <1>6, SizesPositive, VideoFacts, MinOfTwo
<1>8. Total \in Nat /\ (k # n => k * BUF_SZ + BUF_SZ < Total)
  BY <1>1, <1>2, <1>3, SizesPositive
<1>9. Min({BUF_SZ, Total - k * BUF_SZ}) = ChainLen(k)
  BY <1>1, <1>2, <1>3, <1>4, <1>5, <1>8, SizesPositive, MinOfTwo
<1> QED BY <1>1, <1>2, <1>3, <1>4, <1>5, <1>6, <1>7, <1>8, <1>9

LEMMA TotalNat ==
    ASSUME Video
    PROVE  Total \in Nat
<1>1. CASE NumBlocks = 0
  BY <1>1 DEF Total
<1>2. CASE NumBlocks # 0
  <2>1. NumBlocks - 1 \in 0 .. (NumBlocks - 1)
    BY <1>2, BlockNumbers
  <2> QED BY <2>1, LenFacts
<1> QED BY <1>1, <1>2

\* No tagged block is longer than the buffer, or ends after the chain.
LEMMA WithinBounds ==
    ASSUME Video, NEW k \in 0 .. (NumBlocks - 1)
    PROVE  /\ BlockLen(k) \in Nat /\ BlockLen(k) <= FILE_BLOCK_SZ
           /\ ChainLen(k) \in Nat \ {0} /\ ChainLen(k) <= BUF_SZ
           /\ k * BUF_SZ + ChainLen(k) <= Total
           /\ k = NumBlocks - 1 => k * BUF_SZ + ChainLen(k) = Total
<1>1. ASSUME NEW x, NEW n \in Nat, x \in 1..n
      PROVE  x \in Nat \ {0} /\ x <= n
  BY <1>1
<1>2. BlockLen(k) \in 1..FILE_BLOCK_SZ /\ ChainLen(k) \in 1..BUF_SZ
  BY LenFacts
<1>3. FILE_BLOCK_SZ \in Nat /\ BUF_SZ \in Nat
  BY SizesPositive
<1>4. /\ BlockLen(k) \in Nat \ {0} /\ BlockLen(k) <= FILE_BLOCK_SZ
      /\ ChainLen(k) \in Nat \ {0} /\ ChainLen(k) <= BUF_SZ
  BY <1>1, <1>2, <1>3
<1>5. /\ k * BUF_SZ \in Nat /\ Total \in Nat
      /\ k = NumBlocks - 1 => k * BUF_SZ + ChainLen(k) = Total
      /\ k # NumBlocks - 1 => ChainLen(k) = BUF_SZ /\ k * BUF_SZ + BUF_SZ < Total
  BY LenFacts
<1>6. k * BUF_SZ + ChainLen(k) <= Total
  <2> HIDE DEF ChainLen, Total, NumBlocks
  <2>1. CASE k = NumBlocks - 1
    BY <1>4, <1>5, <2>1
  <2>2. CASE k # NumBlocks - 1
    BY <1>3, <1>4, <1>5, <2>2
  <2> QED BY <2>1, <2>2
<1> QED BY <1>4, <1>5, <1>6

LEMMA BlockArray ==
    ASSUME Video, NEW k \in 0 .. (NumBlocks - 1)
    PROVE  /\ IsArray(Block(k), BlockLen(k))
           /\ Block(k) = Slice(file, k * FILE_BLOCK_SZ, BlockLen(k))
           /\ \A i \in Bytes(BlockLen(k)) :
                 Block(k)[i] = <<"video", k * FILE_BLOCK_SZ + i>>
<1>1. Block(k) = Slice(file, k * FILE_BLOCK_SZ, BlockLen(k))
  BY LenFacts DEF Block
<1>2. k * FILE_BLOCK_SZ \in Nat /\ BlockLen(k) \in Nat
      /\ k * FILE_BLOCK_SZ + BlockLen(k) <= Length(file) /\ Length(file) \in Nat
  <2>1. BlockLen(k) \in 1..FILE_BLOCK_SZ /\ FILE_BLOCK_SZ \in Nat
    BY LenFacts, SizesPositive
  <2>2. BlockLen(k) \in Nat
    BY <2>1
  <2>3. k * FILE_BLOCK_SZ \in Nat /\ k * FILE_BLOCK_SZ + BlockLen(k) <= Length(file)
    BY LenFacts
  <2> QED BY <2>2, <2>3, VideoFacts
<1>3. ASSUME NEW i \in Bytes(BlockLen(k))
      PROVE  k * FILE_BLOCK_SZ + i \in Bytes(Length(file))
  BY <1>2 DEF Bytes
<1> QED BY <1>1, <1>2, <1>3, SliceArray, VideoFacts

----------------------------------------------------------------------------
(* The chain.  It is defined from its end: a function that unfolds as it   *)
(* does exists, one block more at a time.                                  *)

ChainStep(f, k) == IF k >= NumBlocks - 1 THEN Block(k)
                   ELSE Append(Block(k), sha256(f[k + 1], Length(f[k + 1])))

\* f unfolds from m blocks before the last one on.
UnfoldsFrom(f, m) ==
    /\ f = [k \in Nat |-> f[k]]
    /\ \A k \in Nat : k >= NumBlocks - 1 - m => f[k] = ChainStep(f, k)

LEMMA ChainExists ==
    ASSUME NumBlocks \in Nat, NEW m \in Nat
    PROVE  \E f : UnfoldsFrom(f, m)
<1> DEFINE Bad == {n \in Nat : ~ \E f : UnfoldsFrom(f, n)}
<1>1. SUFFICES ASSUME Bad # {} PROVE FALSE
  OBVIOUS
<1>2. PICK n \in Bad : \A y \in Bad : n <= y
  <2>1. Bad \subseteq Nat
    OBVIOUS
  <2> HIDE DEF Bad
  <2> QED BY <1>1, <2>1, LeastElement
<1>3. n \in Nat /\ ~ \E f : UnfoldsFrom(f, n)
  BY <1>2
<1>4. CASE n = 0
  <2> DEFINE g == [k \in Nat |-> Block(k)]
  <2>1. g = [k \in Nat |-> g[k]] /\ \A k \in Nat : g[k] = Block(k)
    OBVIOUS
  <2> HIDE DEF g
  <2>2. UnfoldsFrom(g, 0)
    BY <2>1 DEF UnfoldsFrom, ChainStep
  <2> QED BY <1>3, <1>4, <2>2
<1>5. CASE n # 0
  <2>1. n - 1 \in Nat /\ n - 1 \notin Bad
    BY <1>2, <1>3, <1>5
  <2>2. PICK f : UnfoldsFrom(f, n - 1)
    BY <2>1
  <2> DEFINE b == NumBlocks - 1 - n
             g == [k \in Nat |-> IF k = b THEN ChainStep(f, k) ELSE f[k]]
  <2>3. /\ g = [k \in Nat |-> g[k]]
        /\ \A k \in Nat : k # b => g[k] = f[k]
        /\ b \in Nat => g[b] = ChainStep(f, b)
    OBVIOUS
  <2>4. b \in Int /\ NumBlocks - 1 - (n - 1) = b + 1
    BY <1>3
  <2> HIDE DEF g
  <2>5. ASSUME NEW k \in Nat, k >= b PROVE g[k] = ChainStep(g, k)
    <3>1. g[k + 1] = f[k + 1]
      BY <2>3, <2>4, <2>5
    <3>2. ChainStep(g, k) = ChainStep(f, k)
      BY <3>1 DEF ChainStep
    <3>3. CASE k = b
      BY <2>3, <3>2, <3>3
    <3>4. CASE k # b
      <4>1. k >= b + 1 /\ g[k] = f[k]
        BY <2>3, <2>4, <2>5, <3>4
      <4> QED BY <2>2, <2>4, <3>2, <4>1 DEF UnfoldsFrom
    <3> QED BY <3>3, <3>4
  <2>6. UnfoldsFrom(g, n)
    BY <2>3, <2>5 DEF UnfoldsFrom
  <2> QED BY <1>3, <2>6
<1> QED BY <1>4, <1>5

LEMMA ChainUnfolds ==
    ASSUME NumBlocks \in Nat, NEW k \in Nat
    PROVE  Chain[k] = ChainStep(Chain, k)
<1>1. PICK f : UnfoldsFrom(f, NumBlocks)
  BY ChainExists
<1>2. f = [j \in Nat |-> ChainStep(f, j)]
  <2>1. \A j \in Nat : j >= NumBlocks - 1 - NumBlocks
    OBVIOUS
  <2>2. f = [j \in Nat |-> f[j]] /\ \A j \in Nat : f[j] = ChainStep(f, j)
    BY <1>1, <2>1 DEF UnfoldsFrom
  <2>3. [j \in Nat |-> f[j]] = [j \in Nat |-> ChainStep(f, j)]
    BY <2>2
  <2> QED BY <2>2, <2>3
<1>3. Chain = [j \in Nat |-> ChainStep(Chain, j)]
  BY <1>2 DEF Chain, ChainStep
<1> QED
  <2> HIDE DEF Chain
  <2> QED BY <1>3

\* Each tagged block is its block with the tag of the tagged block after it.
LEMMA ChainFacts ==
    ASSUME Video, NEW k \in 0 .. (NumBlocks - 1)
    PROVE  /\ IsArray(Chain[k], ChainLen(k)) /\ Length(Chain[k]) = ChainLen(k)
           /\ \A i \in Bytes(BlockLen(k)) : Chain[k][i] = Block(k)[i]
           /\ k # NumBlocks - 1 =>
                 \A i \in Bytes(SHA256_MD_SZ) : Chain[k][FILE_BLOCK_SZ + i] = TagOf(k + 1)[i]
           /\ Chain[k][0] # Zero
           /\ \A i \in Bytes(ChainLen(k)) : Chain[k][i] # <<"damaged">>
<1>1. NumBlocks \in Nat /\ k \in Nat
  BY BlockNumbers, LenFacts
<1>2. Chain[k] = ChainStep(Chain, k)
  BY <1>1, ChainUnfolds
<1>3. IsArray(Block(k), BlockLen(k)) /\ BlockLen(k) \in 1..FILE_BLOCK_SZ
      /\ \A i \in Bytes(BlockLen(k)) : Block(k)[i] = <<"video", k * FILE_BLOCK_SZ + i>>
  BY BlockArray, LenFacts
<1>4. /\ IsArray(Chain[k], ChainLen(k))
      /\ \A i \in Bytes(BlockLen(k)) : Chain[k][i] = Block(k)[i]
      /\ k # NumBlocks - 1 =>
            \A i \in Bytes(SHA256_MD_SZ) : Chain[k][FILE_BLOCK_SZ + i] = TagOf(k + 1)[i]
      /\ k # NumBlocks - 1 =>
            \A i \in Bytes(SHA256_MD_SZ) : \E x : TagOf(k + 1)[i] = <<"tag", x, i>>
  <2>1. CASE k = NumBlocks - 1
    <3>1. Chain[k] = Block(k)
      BY <1>1, <1>2, <2>1 DEF ChainStep
    <3> QED BY <1>3, <2>1, <3>1, LenFacts
  <2>2. CASE k # NumBlocks - 1
    <3> DEFINE t == sha256(Chain[k + 1], Length(Chain[k + 1]))
    <3>1. Chain[k] = Written(Block(k), FILE_BLOCK_SZ, t) /\ k + 1 < NumBlocks
      BY <1>1, <1>2, <2>2 DEF ChainStep, Append
    <3>2. t = TagOf(k + 1) /\ IsArray(t, SHA256_MD_SZ)
      BY <3>1, TagArray DEF TagOf
    <3>3. \A i \in Bytes(SHA256_MD_SZ) :
             t[i] = <<"tag", Slice(Chain[k + 1], 0, Length(Chain[k + 1])), i>>
      BY DEF sha256
    <3> HIDE DEF t
    <3>4. IsArray(Block(k), FILE_BLOCK_SZ) /\ BlockLen(k) = FILE_BLOCK_SZ /\ ChainLen(k) = BUF_SZ
      BY <1>3, <2>2, LenFacts
    <3>5. /\ IsArray(Chain[k], BUF_SZ)
          /\ \A i \in Bytes(BUF_SZ) :
                Chain[k][i] = IF FILE_BLOCK_SZ <= i /\ i < FILE_BLOCK_SZ + SHA256_MD_SZ
                              THEN t[i - FILE_BLOCK_SZ]
                              ELSE IF i < FILE_BLOCK_SZ THEN Block(k)[i] ELSE Zero
      <4>1. /\ FILE_BLOCK_SZ \in Nat
            /\ BUF_SZ = IF FILE_BLOCK_SZ >= FILE_BLOCK_SZ + SHA256_MD_SZ THEN FILE_BLOCK_SZ
                        ELSE FILE_BLOCK_SZ + SHA256_MD_SZ
        BY SizesPositive
      <4>2. IsArray(t, SHA256_MD_SZ) /\ IsArray(Block(k), FILE_BLOCK_SZ)
        BY <3>2, <3>4
      <4> QED BY ONLY <3>1, <4>1, <4>2, WrittenArray
    <3>6. ASSUME NEW i \in Bytes(FILE_BLOCK_SZ) PROVE Chain[k][i] = Block(k)[i]
      <4>1. i \in Bytes(BUF_SZ) /\ i < FILE_BLOCK_SZ /\ ~(FILE_BLOCK_SZ <= i)
        BY SizesPositive DEF Bytes
      <4> QED BY <3>5, <4>1
    <3>7. ASSUME NEW i \in Bytes(SHA256_MD_SZ) PROVE Chain[k][FILE_BLOCK_SZ + i] = t[i]
      <4>1. /\ FILE_BLOCK_SZ + i \in Bytes(BUF_SZ) /\ FILE_BLOCK_SZ <= FILE_BLOCK_SZ + i
            /\ FILE_BLOCK_SZ + i < FILE_BLOCK_SZ + SHA256_MD_SZ
            /\ (FILE_BLOCK_SZ + i) - FILE_BLOCK_SZ = i
        BY SizesPositive DEF Bytes
      <4> QED BY <3>5, <4>1
    <3> QED BY <3>2, <3>3, <3>4, <3>5, <3>6, <3>7
  <2> QED BY <2>1, <2>2
<1>5. Chain[k][0] # Zero
  <2>1. 0 \in Bytes(BlockLen(k))
    BY <1>3 DEF Bytes
  <2> QED BY <1>3, <1>4, <2>1, BytesDiffer
<1>6. ASSUME NEW i \in Bytes(ChainLen(k)) PROVE Chain[k][i] # <<"damaged">>
  <2>1. CASE i \in Bytes(BlockLen(k))
    BY <1>3, <1>4, <2>1, BytesDiffer
  <2>2. CASE i \notin Bytes(BlockLen(k))
    <3>1. /\ k # NumBlocks - 1 /\ i - FILE_BLOCK_SZ \in Bytes(SHA256_MD_SZ)
          /\ FILE_BLOCK_SZ + (i - FILE_BLOCK_SZ) = i
      <4>1. k # NumBlocks - 1
        BY <2>2, LenFacts
      <4>2. ChainLen(k) = BUF_SZ /\ BlockLen(k) = FILE_BLOCK_SZ
        BY <4>1, LenFacts
      <4> QED BY <2>2, <4>1, <4>2, SizesPositive DEF Bytes
    <3> QED BY <1>4, <3>1, BytesDiffer
  <2> QED BY <2>1, <2>2
<1> QED BY <1>4, <1>5, <1>6, ArrayLength

----------------------------------------------------------------------------
(* The steps.                                                              *)

LEMMA Stable ==
    ASSUME file' = file
    PROVE  /\ Video' <=> Video
           /\ NumBlocks' = NumBlocks /\ Chain' = Chain /\ Total' = Total
           /\ \A k : /\ Block(k)' = Block(k) /\ TagOf(k)' = TagOf(k)
                     /\ BlockLen(k)' = BlockLen(k) /\ ChainLen(k)' = ChainLen(k)
<1>1. NumBlocks' = NumBlocks /\ \A k : Block(k)' = Block(k)
  BY DEF NumBlocks, Block
<1>2. Chain' = Chain
  BY DEF Chain, NumBlocks, Block
<1>3. \A k : TagOf(k)' = TagOf(k)
  <2> HIDE DEF Chain, NumBlocks
  <2> QED BY <1>1, <1>2 DEF TagOf
<1>4. \A k : BlockLen(k)' = BlockLen(k) /\ ChainLen(k)' = ChainLen(k)
  BY <1>1 DEF BlockLen, ChainLen
<1>5. Total' = Total
  BY <1>1, <1>4 DEF Total
<1>6. Video' <=> Video
  BY DEF Video
<1> QED BY <1>1, <1>2, <1>3, <1>4, <1>5, <1>6

\* What the second file says of its blocks stays with it.
LEMMA StableFile ==
    ASSUME file' = file, file_tagged' = file_tagged
    PROVE  /\ \A k : Stored(k)' = Stored(k)
           /\ \A n : EmptyBelow(n)' <=> EmptyBelow(n)
           /\ \A m : IntactFrom(m)' <=> IntactFrom(m)
<1>1. \A k : Stored(k)' = Stored(k)
  BY DEF Stored
<1>2. \A n : EmptyBelow(n)' <=> EmptyBelow(n)
  BY DEF EmptyBelow
<1>3. \A m : IntactFrom(m)' <=> IntactFrom(m)
  <2> HIDE DEF Stored, Chain
  <2> QED BY <1>1, Stable DEF IntactFrom
<1> QED BY <1>1, <1>2, <1>3

\* Nothing has been read while the tags are made.
LEMMA NothingRead ==
    ASSUME Video, file' = file, blk_cnt' = 0
    PROVE  Verified'
<1>1. NumBlocks' = NumBlocks /\ NumBlocks \in Nat
  BY Stable, BlockNumbers
<1> QED
  <2> HIDE DEF NumBlocks
  <2> QED BY <1>1 DEF Verified

LEMMA InitInv == Init => IInv
<1> SUFFICES ASSUME Init PROVE IInv
  OBVIOUS
<1>1. Video
  BY DEF Init, Video
<1>2. /\ IsArray(buf, BUF_SZ) /\ IsArray(tag, SHA256_MD_SZ) /\ IsArray(prev_tag, SHA256_MD_SZ)
      /\ IsArray(file_tagged, 0) /\ Length(file_tagged) = 0
  BY ZerosArray, SizesPositive, ArrayLength DEF Init
<1>3. Types
  BY <1>2, SizesPositive DEF Init, Types
<1>4. Tagging
  BY DEF Init, Tagging
<1>5. Verifying /\ DamageIsNoticed
  <2>1. Verified
    BY <1>1, BlockNumbers DEF Init, Verified
  <2> QED BY <2>1 DEF Init, Verifying, DamageIsNoticed
<1> QED BY <1>1, <1>3, <1>4, <1>5 DEF IInv

LEMMA OpenFailsInv ==
    ASSUME IInv, OpenFails
    PROVE  IInv'
<1>1. /\ pc = "start" /\ pc' = "end" /\ faults = {} /\ faults' = {"open"} /\ said = {}
      /\ "open" \in Faults /\ said' = {"Failed to open"} /\ blk_cnt = 0
      /\ UNCHANGED <<file, file_tagged, buf, tag, loop, check>>
  BY DEF OpenFails, Fault, IInv, Tagging
<1>2. Video' /\ Types'
  BY <1>1, Stable DEF IInv, Types, loop, check
<1>3. Tagging'
  BY <1>1 DEF Tagging
<1>4. blk_cnt' = 0
  BY <1>1 DEF check
<1>5. Verified'
  BY <1>1, <1>4, NothingRead DEF IInv
<1>6. Verifying' /\ DamageIsNoticed'
  BY <1>1, <1>4, <1>5 DEF Verifying, DamageIsNoticed
<1> QED BY <1>2, <1>3, <1>6 DEF IInv

LEMMA StableTagged ==
    ASSUME file' = file, file_tagged' = file_tagged, tag' = tag, NEW m,
           TaggedFrom(m), faults' = {} => faults = {}
    PROVE  TaggedFrom(m)'
<1>1. TagOf(m)' = TagOf(m) /\ Total' = Total
  BY Stable
<1>2. EmptyBelow(m * BUF_SZ)' /\ (faults' = {} => IntactFrom(m)')
  BY StableFile DEF TaggedFrom
<1> HIDE DEF TagOf, Total, EmptyBelow, IntactFrom
<1> QED BY <1>1, <1>2 DEF TaggedFrom

LEMMA LocateInv ==
    ASSUME IInv, Locate
    PROVE  IInv'
<1> DEFINE n == NumBlocks
<1>1. /\ pc = "start" /\ pc' = "tag" /\ faults = {} /\ faults' = {} /\ said = {} /\ said' = {}
      /\ UNCHANGED <<file, file_tagged, buf, tag, check>>
      /\ file_tagged = Zeros(0) /\ tag = Zeros(SHA256_MD_SZ)
      /\ blk_cnt = 0 /\ blk_cnt' = 0 /\ read_pos' = 0 /\ eof' = FALSE /\ Video
  BY DEF Locate, IInv, Tagging, check
<1>2. /\ n \in Nat /\ n' = n
      /\ blk_size' = (IF n # 0 THEN BlockLen(n - 1) ELSE FILE_BLOCK_SZ)
      /\ blk_tagged_size' = blk_size'
      /\ file_pos' = (n - 1) * FILE_BLOCK_SZ /\ file_tagged_pos' = (n - 1) * BUF_SZ
  BY <1>1, Stable, BlockNumbers DEF Locate
<1> HIDE DEF n
<1>3. blk_size' \in 0..FILE_BLOCK_SZ /\ blk_tagged_size' \in 0..BUF_SZ
      /\ (n # 0 => ChainLen(n - 1) = BlockLen(n - 1))
  BY <1>1, <1>2, BlockNumbers, SizesPositive DEF n, BlockLen, ChainLen
<1>4. /\ file_pos' \in Int /\ file_tagged_pos' \in Int
      /\ file_pos' * BUF_SZ = file_tagged_pos' * FILE_BLOCK_SZ
  <2>1. n - 1 \in Int /\ FILE_BLOCK_SZ \in Int /\ BUF_SZ \in Int
    BY <1>2, SizesPositive
  <2> QED BY <1>2, <2>1
<1>5. Types'
  BY <1>1, <1>3, <1>4 DEF IInv, Types, check
<1>6. TaggedFrom(n)
  <2>1. tag = TagOf(n)
    BY <1>1, <1>2 DEF TagOf, n
  <2>2. DOMAIN file_tagged = {} /\ Length(file_tagged) = 0
    <3>1. IsArray(file_tagged, 0)
      BY <1>1, ZerosArray
    <3>2. DOMAIN file_tagged = Bytes(0) /\ Length(file_tagged) = 0
      BY <3>1, ArrayLength DEF IsArray
    <3> QED BY <3>2 DEF Bytes
  <2>3. Total \in Nat
    BY <1>1, TotalNat
  <2>4. IntactFrom(n)
    BY <1>2 DEF IntactFrom, n
  <2> QED BY <2>1, <2>2, <2>3, <2>4 DEF TaggedFrom, EmptyBelow
<1>7. TaggedFrom(n)'
  BY <1>1, <1>6, StableTagged, <1>2
<1>8. Tagging'
  <2> DEFINE At(m) == /\ TaggedFrom(m)
                      /\ file_pos = (m - 1) * FILE_BLOCK_SZ /\ file_tagged_pos = (m - 1) * BUF_SZ
                      /\ blk_size = (IF m = NumBlocks /\ m # 0 THEN BlockLen(m - 1) ELSE FILE_BLOCK_SZ)
                      /\ m # 0 => blk_tagged_size = ChainLen(m - 1)
  <2>1. At(n)'
    <3>1. \A k : BlockLen(k)' = BlockLen(k) /\ ChainLen(k)' = ChainLen(k)
      BY <1>1, Stable
    <3> HIDE DEF TaggedFrom, BlockLen, ChainLen
    <3> QED BY <1>2, <1>3, <1>7, <3>1 DEF n
  <2>2. n \in 0..NumBlocks'
    BY <1>2 DEF n
  <2> HIDE DEF At
  <2>3. \E m \in 0..NumBlocks' : At(m)'
    BY <1>2, <2>1, <2>2
  <2> USE DEF At
  <2> QED BY <1>1, <2>3 DEF Tagging
<1>9. Verifying' /\ DamageIsNoticed'
  BY <1>1, NothingRead DEF Verifying, DamageIsNoticed
<1>10. Video'
  BY <1>1, Stable
<1> QED BY <1>5, <1>8, <1>9, <1>10 DEF IInv

LEMMA ReadFailsInv ==
    ASSUME IInv, ReadFails
    PROVE  IInv'
<1>1. /\ pc = "tag" /\ pc' = "tagged"
      /\ UNCHANGED <<file, file_tagged, buf, tag, loop, check>>
      /\ blk_cnt = 0 /\ blk_cnt' = 0 /\ read_pos' = 0 /\ eof' = FALSE /\ Video /\ Types
  BY DEF ReadFails, IInv, Tagging, check
<1>2. file_pos \in Int /\ blk_size \in Int /\ file_pos >= 0
  <2>1. Types
    BY DEF IInv
  <2>2. file_pos \in Int /\ blk_size \in 0..FILE_BLOCK_SZ
    BY <2>1 DEF Types
  <2>3. blk_size \in Int
    BY <2>2, SizesPositive
  <2>4. file_pos >= 0
    BY DEF ReadFails
  <2> QED BY <2>2, <2>3, <2>4
<1>3. PICK m \in 0..NumBlocks :
         /\ TaggedFrom(m) /\ file_pos = (m - 1) * FILE_BLOCK_SZ
         /\ blk_size = (IF m = NumBlocks /\ m # 0 THEN BlockLen(m - 1) ELSE FILE_BLOCK_SZ)
  BY <1>1 DEF IInv, Tagging
\* The block is always there, so that the read fails only by a fault.
<1>4. m # 0 /\ m - 1 \in 0 .. (NumBlocks - 1)
  <2>1. NumBlocks \in Nat
    BY <1>1, BlockNumbers
  <2>2. ASSUME m = 0 PROVE FALSE
    <3>1. file_pos = (0 - 1) * FILE_BLOCK_SZ
      BY <1>3, <2>2
    <3>2. (0 - 1) * FILE_BLOCK_SZ = -FILE_BLOCK_SZ /\ FILE_BLOCK_SZ \in Nat \ {0}
      BY SizesPositive
    <3> QED BY <1>2, <3>1, <3>2
  <2> QED BY <2>1, <2>2
<1>5. file_pos + blk_size <= Length(file)
  <2>1. (m - 1) * FILE_BLOCK_SZ + BlockLen(m - 1) <= Length(file)
    BY <1>1, <1>4, LenFacts
  <2>2. blk_size = BlockLen(m - 1)
    <3>1. NumBlocks \in Nat
      BY <1>1, BlockNumbers
    <3> QED BY <1>3, <1>4, <3>1 DEF BlockLen
  <2> QED BY <1>3, <2>1, <2>2
<1>6. faults' = {"read"} /\ "read" \in Faults
  <2>1. file_pos + blk_size \in Int /\ Length(file) \in Int
    BY <1>2, <1>1, VideoFacts
  <2>2. ~(file_pos + blk_size > Length(file))
    BY <1>5, <2>1
  <2> QED BY <2>2 DEF ReadFails, Fault
<1>7. TaggedFrom(m)' /\ NumBlocks' = NumBlocks /\ Video'
  BY <1>1, <1>3, <1>6, StableTagged, Stable
<1>8. Tagging'
  <2> HIDE DEF TaggedFrom
  <2>1. \E n \in 0..NumBlocks' : TaggedFrom(n)' /\ (n = 0 \/ faults' = {"read"})
    BY <1>6, <1>7
  <2> QED BY <1>1, <1>6, <2>1 DEF Tagging
<1>9. Types'
  BY <1>1, <1>6 DEF Types, loop, check
<1>10. Verifying' /\ DamageIsNoticed'
  BY <1>1, NothingRead DEF Verifying, DamageIsNoticed
<1> QED BY <1>7, <1>8, <1>9, <1>10 DEF IInv

LEMMA EndTaggingInv ==
    ASSUME IInv, EndTagging
    PROVE  IInv'
<1>1. /\ pc = "tag" /\ file_pos < 0 /\ pc' = "tagged" /\ said = {} /\ said' = {}
      /\ faults \in {{}, {"write"}} /\ faults' = faults
      /\ UNCHANGED <<file, file_tagged, buf, tag, loop, check>>
      /\ blk_cnt = 0 /\ blk_cnt' = 0 /\ read_pos' = 0 /\ eof' = FALSE /\ Video /\ Types
  BY DEF EndTagging, IInv, Tagging, check
<1>2. PICK m \in 0..NumBlocks : TaggedFrom(m) /\ file_pos = (m - 1) * FILE_BLOCK_SZ
  BY <1>1 DEF IInv, Tagging
<1>3. m = 0
  <2>1. NumBlocks \in Nat /\ FILE_BLOCK_SZ \in Nat
    BY <1>1, BlockNumbers, SizesPositive
  <2>2. ASSUME m # 0 PROVE FALSE
    <3>1. m - 1 \in Nat
      BY <2>1, <2>2
    <3>2. (m - 1) * FILE_BLOCK_SZ >= 0
      BY <2>1, <3>1, Steps, SizesPositive
    <3> QED BY <1>1, <1>2, <3>2 DEF Types
  <2> QED BY <2>2
<1>4. TaggedFrom(0)' /\ NumBlocks' = NumBlocks /\ Video'
  BY <1>1, <1>2, <1>3, StableTagged, Stable
<1>5. Tagging'
  <2> HIDE DEF TaggedFrom
  <2>1. 0 \in 0..NumBlocks'
    BY <1>2, <1>3, <1>4
  <2>2. \E n \in 0..NumBlocks' : TaggedFrom(n)' /\ (n = 0 \/ faults' = {"read"})
    BY <1>4, <2>1
  <2> QED BY <1>1, <2>2 DEF Tagging
<1>6. Types'
  BY <1>1 DEF Types, loop, check
<1>7. Verifying' /\ DamageIsNoticed'
  BY <1>1, NothingRead DEF Verifying, DamageIsNoticed
<1> QED BY <1>4, <1>5, <1>6, <1>7 DEF IInv

LEMMA ReportInv ==
    ASSUME IInv, Report
    PROVE  IInv'
<1>1. /\ pc = "tagged" /\ faults \in {{}, {"write"}, {"read"}}
      /\ faults = {} => said = {}
      /\ UNCHANGED <<file, file_tagged, buf, tag, loop, blk_cnt, read_pos, eof>>
      /\ blk_cnt = 0 /\ read_pos = 0 /\ blk_cnt' = 0 /\ read_pos' = 0 /\ eof' = FALSE
      /\ Video /\ Types
  BY DEF Report, IInv, Tagging
<1>2. PICK m \in 0..NumBlocks : TaggedFrom(m) /\ (m = 0 \/ faults = {"read"})
  BY <1>1 DEF IInv, Tagging
<1>3. Video' /\ NumBlocks' = NumBlocks /\ NumBlocks \in Nat /\ Verified' /\ Total' = Total
  BY <1>1, Stable, NothingRead, BlockNumbers
<1>4. CASE /\ pc' = "verify" /\ faults' = faults /\ prev_tag' = tag
           /\ said' = said \cup {"File encoded successfully"}
  <2>1. Types'
    BY <1>1, <1>4 DEF Types, loop
  <2>2. Tagging' /\ DamageIsNoticed'
    BY <1>4 DEF Tagging, DamageIsNoticed
  <2>3. Contents
    <3>1. faults = {} => m = 0
      BY <1>2
    <3> QED BY <1>1, <1>2, <3>1 DEF TaggedFrom, Contents
  <2>4. Contents'
    BY <1>1, <1>3, <1>4, <2>3, StableFile DEF Contents
  <2>5. \A n : TagOf(n)' = TagOf(n) /\ (EmptyBelow(n)' <=> EmptyBelow(n))
    BY <1>1, Stable, StableFile
  <2>6. Expecting'
    <3> HIDE DEF TagOf, EmptyBelow, NumBlocks
    <3>1. prev_tag' = TagOf(m)' /\ EmptyBelow(m * BUF_SZ)'
      BY <1>2, <1>4, <2>5 DEF TaggedFrom
    <3>2. CASE m = 0
      BY <1>1, <3>1, <3>2 DEF Expecting
    <3>3. CASE m # 0
      <4>1. m \in 1..NumBlocks
        BY <1>3, <3>3
      <4>3. faults' = {"read"}
        BY <1>2, <1>4, <3>3
      <4>2. m \in 1..NumBlocks'
        BY <1>3, <4>1
      <4> QED BY <1>1, <3>1, <4>2, <4>3 DEF Expecting
    <3> QED BY <3>2, <3>3
  <2>7. read_pos' = IF blk_cnt' = NumBlocks' THEN Total' ELSE blk_cnt' * BUF_SZ
    <3>1. NumBlocks = 0 => Total = 0
      BY DEF Total
    <3>2. 0 * BUF_SZ = 0
      BY SizesPositive
    <3> QED BY <1>1, <1>3, <3>1, <3>2
  <2>8. Verifying'
    BY <1>1, <1>3, <1>4, <2>4, <2>6, <2>7 DEF Verifying
  <2> QED BY <1>3, <2>1, <2>2, <2>8 DEF IInv
<1>5. CASE /\ Fault("open") /\ pc' = "end" /\ prev_tag' = prev_tag
           /\ said' = said \cup {"File encoded successfully", "Failed to open"}
  <2>1. faults' = {"open"} /\ "open" \in Faults /\ said = {}
    BY <1>1, <1>5 DEF Fault
  <2>2. Types'
    BY <1>1, <1>5, <2>1 DEF Types, loop
  <2>3. Tagging' /\ Verifying' /\ DamageIsNoticed'
    BY <1>1, <1>3, <1>5, <2>1 DEF Tagging, Verifying, DamageIsNoticed
  <2> QED BY <1>3, <2>2, <2>3 DEF IInv
<1> QED BY <1>4, <1>5 DEF Report, NoFault

LEMMA OutcomeInv ==
    ASSUME IInv, Outcome
    PROVE  IInv'
<1>1. /\ pc = "outcome" /\ pc' = "end" /\ Video
      /\ UNCHANGED <<file, file_tagged, buf, tag, loop, check, faults>>
      /\ faults = {} => said = {"File encoded successfully"}
      /\ \/ Failed /\ faults # {}
         \/ eof /\ faults # {"damage"} /\ (faults = {} => blk_cnt = NumBlocks)
      /\ faults # {"open"} /\ Verified
      /\ faults \in {{}, {"open"}, {"read"}, {"write"}, {"damage"}}
  BY DEF Outcome, IInv, Verifying, Types
<1>2. said' = IF eof THEN said \cup {"File verified successfully"} ELSE said
  BY DEF Outcome
<1>3. Video' /\ NumBlocks' = NumBlocks
  BY <1>1, Stable
<1>4. Types'
  BY <1>1 DEF IInv, Types, loop, check
<1>5. Tagging'
  BY <1>1 DEF Tagging
<1>6. Verified'
  <2> HIDE DEF Chain, Stored, NumBlocks
  <2> QED BY <1>1, <1>3, Stable, StableFile DEF Verified, check
<1>7. Verifying'
  BY <1>1, <1>6 DEF Verifying
<1>8. DamageIsNoticed'
  <2>1. faults' = faults /\ blk_cnt' = blk_cnt
    BY <1>1 DEF check
  <2>2. CASE faults = {"damage"}
    <3>1. "file integrity check failed" \in said'
      BY <1>1, <1>2, <2>2 DEF Failed
    <3> QED BY <2>1, <2>2, <3>1 DEF DamageIsNoticed
  <2>3. CASE faults = {}
    <3>1. eof /\ blk_cnt' = NumBlocks'
      BY <1>1, <1>3, <2>1, <2>3
    <3>2. said' = {"File encoded successfully", "File verified successfully"}
      BY <1>1, <1>2, <2>3, <3>1
    <3> HIDE DEF NumBlocks
    <3> QED BY <2>1, <2>3, <3>1, <3>2 DEF DamageIsNoticed
  <2>4. CASE faults \in {{"read"}, {"write"}}
    BY <2>1, <2>4 DEF DamageIsNoticed
  <2> QED BY <1>1, <2>2, <2>3, <2>4
<1> QED BY <1>3, <1>4, <1>5, <1>7, <1>8 DEF IInv

LEMMA VerifyReadFailsInv ==
    ASSUME IInv, VerifyReadFails
    PROVE  IInv'
<1>1. /\ pc = "verify" /\ pc' = "end" /\ Video /\ Verified
      /\ UNCHANGED <<file, file_tagged, buf, tag, loop, check>>
      /\ faults' = {"read"} /\ "read" \in Faults
  BY DEF VerifyReadFails, Fault, IInv, Verifying
<1>2. Video' /\ NumBlocks' = NumBlocks
  BY <1>1, Stable
<1>3. Types'
  BY <1>1 DEF IInv, Types, loop, check
<1>4. Tagging'
  BY <1>1 DEF Tagging
<1>5. Verified'
  <2> HIDE DEF Chain, Stored, NumBlocks
  <2> QED BY <1>1, <1>2, Stable, StableFile DEF Verified, check
<1>6. Verifying' /\ DamageIsNoticed'
  BY <1>1, <1>5 DEF Verifying, DamageIsNoticed
<1> QED BY <1>2, <1>3, <1>4, <1>6 DEF IInv

\* What the next fread returns, as the code counts it and as the chain does.
LEMMA NextRead ==
    ASSUME Video, Types, pc = "verify", Verifying
    PROVE  /\ Got \in 0..BUF_SZ /\ read_pos + Got \in 0..Length(file_tagged)
           /\ Length(file_tagged) \in Nat /\ read_pos \in Nat
           /\ Got = 0 => read_pos = Length(file_tagged)
           /\ blk_cnt = NumBlocks => Got = 0
           /\ blk_cnt < NumBlocks =>
                 /\ blk_cnt \in 0 .. (NumBlocks - 1) /\ read_pos = blk_cnt * BUF_SZ
                 /\ Stored(blk_cnt) = Slice(file_tagged, read_pos, Got)
<1>1. /\ IsArray(file_tagged, Length(file_tagged)) /\ read_pos \in 0..Length(file_tagged)
      /\ Length(file_tagged) \in Nat
  BY DEF Types, IsArray
<1>2. BUF_SZ \in Nat \ {0} /\ NumBlocks \in Nat /\ Total \in Nat
  BY SizesPositive, BlockNumbers, TotalNat
<1>3. read_pos \in Nat /\ Available \in Nat /\ Available = Length(file_tagged) - read_pos
  BY <1>1 DEF Available
<1>4. Got \in 0..BUF_SZ /\ read_pos + Got \in 0..Length(file_tagged)
      /\ (Got = 0 => read_pos = Length(file_tagged))
  BY <1>1, <1>2, <1>3 DEF Got
<1>5. blk_cnt \in 0..NumBlocks /\ Length(file_tagged) <= Total
      /\ read_pos = (IF blk_cnt = NumBlocks THEN Total ELSE blk_cnt * BUF_SZ)
  BY DEF Verifying, Verified, Contents
<1>6. blk_cnt = NumBlocks => Got = 0
  <2> SUFFICES ASSUME blk_cnt = NumBlocks PROVE Got = 0
    OBVIOUS
  <2>1. Available = 0
    BY <1>1, <1>2, <1>3, <1>5
  <2> QED BY <1>2, <2>1 DEF Got
<1>7. ASSUME blk_cnt < NumBlocks
      PROVE  /\ blk_cnt \in 0 .. (NumBlocks - 1) /\ read_pos = blk_cnt * BUF_SZ
             /\ Stored(blk_cnt) = Slice(file_tagged, read_pos, Got)
  <2>1. blk_cnt \in 0 .. (NumBlocks - 1) /\ read_pos = blk_cnt * BUF_SZ
    BY <1>2, <1>5, <1>7
  <2>2. Min({BUF_SZ, Length(file_tagged) - read_pos}) = Got
    <3>1. Min({BUF_SZ, Available}) = IF BUF_SZ <= Available THEN BUF_SZ ELSE Available
      BY <1>2, <1>3, MinOfTwo
    <3>2. Got = IF BUF_SZ <= Available THEN BUF_SZ ELSE Available
      BY <1>2, <1>3 DEF Got
    <3> QED BY <1>3, <3>1, <3>2
  <2> QED BY <2>1, <2>2 DEF Stored
<1> QED BY <1>1, <1>3, <1>4, <1>6, <1>7

\* A file that is the chain has no damaged byte.
LEMMA IntactIsUndamaged ==
    ASSUME Video, Types, Length(file_tagged) = Total,
           \A k \in 0 .. (NumBlocks - 1) : Stored(k) = Chain[k],
           NEW i \in DOMAIN file_tagged
    PROVE  file_tagged[i] # <<"damaged">>
<1> DEFINE k == i \div BUF_SZ
           r == i % BUF_SZ
           n == NumBlocks - 1
<1>1. i \in Nat /\ i < Total
  <2>1. DOMAIN file_tagged = Bytes(Total)
    BY DEF Types, IsArray
  <2> QED BY <2>1, TotalNat DEF Bytes
<1>2. k \in Nat /\ r \in Nat /\ r < BUF_SZ /\ i = (k * BUF_SZ) + r
  BY <1>1, SizesPositive, Division
<1>3. NumBlocks # 0 /\ n \in 0 .. (NumBlocks - 1) /\ n \in Nat
  <2>1. NumBlocks # 0
    BY <1>1 DEF Total
  <2> QED BY <2>1, BlockNumbers
<1>4. n * BUF_SZ \in Nat /\ n * BUF_SZ + ChainLen(n) = Total /\ ChainLen(n) \in 1..BUF_SZ
  BY <1>3, LenFacts
<1> HIDE DEF k, r, n
<1>5. k <= n
  <2>1. k > n => (n * BUF_SZ) + BUF_SZ <= k * BUF_SZ
    BY <1>2, <1>3, Steps, SizesPositive
  <2>2. k * BUF_SZ \in Nat
    BY <1>2, Steps, SizesPositive
  <2> QED BY <1>1, <1>2, <1>3, <1>4, <2>1, <2>2, SizesPositive
<1>6. k \in 0 .. (NumBlocks - 1)
  BY <1>2, <1>3, <1>5 DEF n
<1>7. r < ChainLen(k) /\ Min({BUF_SZ, Total - k * BUF_SZ}) = ChainLen(k)
      /\ ChainLen(k) \in Nat /\ k * BUF_SZ \in Nat
  <2>1. ChainLen(k) \in 1..BUF_SZ /\ k * BUF_SZ \in Nat
        /\ Min({BUF_SZ, Total - k * BUF_SZ}) = ChainLen(k)
    BY <1>6, LenFacts
  <2>2. CASE k = n
    BY <1>1, <1>2, <1>4, <2>1, <2>2, SizesPositive
  <2>3. CASE k # n
    <3>1. ChainLen(k) = BUF_SZ
      BY <1>6, <2>3, LenFacts DEF n
    <3> QED BY <1>2, <2>1, <3>1, SizesPositive
  <2> QED BY <2>2, <2>3
<1>8. r \in Bytes(ChainLen(k))
  BY <1>2, <1>7 DEF Bytes
<1>9. Stored(k) = Slice(file_tagged, k * BUF_SZ, ChainLen(k))
  BY <1>7 DEF Stored
<1>10. Stored(k)[r] = file_tagged[i]
  BY <1>2, <1>7, <1>8, <1>9, SliceArray
<1> QED BY <1>6, <1>8, <1>10, ChainFacts

LEMMA DamageInv ==
    ASSUME IInv, Damage
    PROVE  IInv'
<1>1. /\ pc = "verify" /\ pc' = "verify" /\ read_pos = 0 /\ faults = {} /\ faults' = {"damage"}
      /\ "damage" \in Faults /\ said' = said
      /\ UNCHANGED <<file, buf, tag, loop, check>>
      /\ Video /\ Types /\ Verified /\ Contents /\ Expecting
      /\ read_pos = (IF blk_cnt = NumBlocks THEN Total ELSE blk_cnt * BUF_SZ)
  BY DEF Damage, Fault, IInv, Verifying
<1>2. PICK i \in DOMAIN file_tagged : file_tagged' = [file_tagged EXCEPT ![i] = <<"damaged">>]
  BY DEF Damage
<1>3. /\ DOMAIN file_tagged' = DOMAIN file_tagged /\ file_tagged'[i] = <<"damaged">>
      /\ Length(file_tagged') = Length(file_tagged) /\ i \in DOMAIN file_tagged'
      /\ file_tagged' = [j \in DOMAIN file_tagged' |-> file_tagged'[j]]
  BY <1>2 DEF Length
<1>4. /\ IsArray(file_tagged, Length(file_tagged)) /\ Length(file_tagged) \in Nat
      /\ DOMAIN file_tagged = Bytes(Length(file_tagged))
  BY <1>1 DEF Types, IsArray
<1>5. IsArray(file_tagged', Length(file_tagged'))
  BY <1>3, <1>4 DEF IsArray
\* Something has been written, so that nothing has been read yet.
<1>6. Length(file_tagged) = Total /\ Total \in Nat \ {0} /\ blk_cnt # NumBlocks /\ blk_cnt = 0
  <2>1. Total \in Nat \ {0}
    <3>1. Length(file_tagged) # 0
      BY <1>2, <1>4 DEF Bytes
    <3> QED BY <1>1, <1>4, <3>1, TotalNat DEF Contents
  <2>2. NumBlocks # 0 /\ NumBlocks \in Nat
    BY <1>1, <2>1, BlockNumbers DEF Total
  <2>3. Length(file_tagged) = Total
    BY <1>1, <2>2 DEF Contents, IntactFrom
  <2>4. blk_cnt # NumBlocks /\ blk_cnt * BUF_SZ = 0 /\ blk_cnt \in Nat
    BY <1>1, <2>1, <2>2 DEF Verified
  <2>5. blk_cnt = 0
    <3>1. 0 < blk_cnt => (0 * BUF_SZ) + BUF_SZ <= blk_cnt * BUF_SZ
      BY <2>4, Steps, SizesPositive
    <3>2. 0 * BUF_SZ = 0 /\ BUF_SZ \in Nat \ {0}
      BY SizesPositive
    <3> QED BY <2>4, <3>1, <3>2
  <2> QED BY <2>1, <2>3, <2>4, <2>5
<1>7. Video' /\ NumBlocks' = NumBlocks /\ Total' = Total /\ \A k : TagOf(k)' = TagOf(k)
  BY <1>1, Stable
<1>8. prev_tag' = prev_tag /\ blk_cnt' = blk_cnt /\ read_pos' = read_pos
  BY <1>1 DEF check
<1>9. Types'
  BY <1>1, <1>3, <1>5 DEF Types, loop, check
<1>10. Tagging' /\ DamageIsNoticed'
  BY <1>1 DEF Tagging, DamageIsNoticed
<1>11. Contents'
  <2> HIDE DEF Total
  <2> QED BY <1>1, <1>3, <1>4, <1>6, <1>7 DEF Contents
<1>12. Expecting'
  <2> HIDE DEF TagOf, NumBlocks, EmptyBelow
  <2>1. prev_tag = TagOf(blk_cnt)
    BY <1>1, <1>6 DEF Expecting
  <2> QED BY <1>7, <1>8, <2>1 DEF Expecting
<1>13. Verified'
  BY <1>1, <1>6, <1>8, NothingRead
<1>14. read_pos' = (IF blk_cnt' = NumBlocks' THEN Total' ELSE blk_cnt' * BUF_SZ)
  <2> HIDE DEF Total, NumBlocks
  <2> QED BY <1>1, <1>7, <1>8
<1>15. Verifying'
  BY <1>1, <1>11, <1>12, <1>13, <1>14 DEF Verifying
<1> QED BY <1>7, <1>9, <1>10, <1>15 DEF IInv

LEMMA EndVerifyInv ==
    ASSUME IInv, EndVerify
    PROVE  IInv'
<1>1. /\ pc = "verify" /\ pc' = "outcome" /\ Got = 0 /\ said' = said /\ faults' = faults
      /\ UNCHANGED <<file, file_tagged, tag, loop>>
      /\ prev_tag' = prev_tag /\ blk_cnt' = blk_cnt
      /\ buf' = Written(buf, 0, Slice(file_tagged, read_pos, 0))
      /\ read_pos' = read_pos + Got /\ (eof' <=> Got < BUF_SZ)
      /\ Video /\ Types /\ Verifying
  BY DEF EndVerify, Fetch, IInv
<1>2. /\ Verified /\ Contents /\ faults # {"open"}
      /\ faults = {} => said = {"File encoded successfully"}
  BY <1>1 DEF Verifying
<1>3. read_pos = Length(file_tagged) /\ read_pos' = read_pos /\ eof'
  BY <1>1, NextRead, SizesPositive
<1>4. IsArray(buf', BUF_SZ)
  <2>1. IsArray(buf, BUF_SZ) /\ IsArray(Slice(file_tagged, read_pos, 0), 0)
    <3>1. IsArray(buf, BUF_SZ) /\ read_pos \in Int
      BY <1>1, NextRead DEF Types
    <3> QED BY <3>1, SliceArray
  <2>2. BUF_SZ = IF BUF_SZ >= 0 + 0 THEN BUF_SZ ELSE 0 + 0
    BY SizesPositive
  <2> QED BY <1>1, <2>1, <2>2, WrittenArray
<1>5. Types'
  BY <1>1, <1>3, <1>4 DEF Types, loop
<1>6. Video' /\ NumBlocks' = NumBlocks /\ Total' = Total /\ NumBlocks \in Nat
  BY <1>1, Stable, BlockNumbers
<1>7. Tagging' /\ DamageIsNoticed'
  BY <1>1 DEF Tagging, DamageIsNoticed
<1>8. Contents'
  <2> HIDE DEF IntactFrom, Total
  <2> QED BY <1>1, <1>2, <1>6, StableFile DEF Contents
<1>9. Verified'
  <2> HIDE DEF Chain, Stored, NumBlocks
  <2> QED BY <1>1, <1>2, <1>6, Stable, StableFile DEF Verified
<1>10. blk_cnt \in 0..NumBlocks
  BY <1>2 DEF Verified
\* The file ends with the chain: all of it has been verified.
<1>11. ASSUME Length(file_tagged) = Total
       PROVE  blk_cnt = NumBlocks
  <2>1. SUFFICES ASSUME blk_cnt # NumBlocks PROVE FALSE
    OBVIOUS
  <2>2. blk_cnt \in 0 .. (NumBlocks - 1) /\ read_pos = blk_cnt * BUF_SZ
    <3>1. read_pos = blk_cnt * BUF_SZ
      BY <1>1, <2>1 DEF Verifying
    <3> QED BY <1>6, <1>10, <2>1, <3>1
  <2>3. blk_cnt * BUF_SZ < Total
    <3>1. /\ ChainLen(blk_cnt) \in Nat \ {0} /\ blk_cnt * BUF_SZ \in Nat /\ Total \in Nat
          /\ blk_cnt * BUF_SZ + ChainLen(blk_cnt) <= Total
      BY <1>1, <2>2, LenFacts, WithinBounds
    <3> QED BY <3>1
  <2>4. blk_cnt * BUF_SZ \in Nat
    BY <1>1, <2>2, LenFacts
  <2> QED BY <1>3, <1>11, <2>2, <2>3, <2>4
<1>12. faults = {} => blk_cnt = NumBlocks
  <2>1. SUFFICES ASSUME faults = {} PROVE blk_cnt = NumBlocks
    OBVIOUS
  <2>2. CASE NumBlocks = 0
    BY <1>10, <2>2
  <2>3. CASE NumBlocks # 0
    <3>1. IntactFrom(0)
      BY <1>2, <2>1 DEF Contents
    <3>2. 0 < NumBlocks
      BY <1>6, <2>3
    <3>3. Length(file_tagged) = Total
      BY <3>1, <3>2 DEF IntactFrom
    <3> QED BY <1>11, <3>3
  <2> QED BY <2>2, <2>3
<1>13. faults # {"damage"}
  <2>1. SUFFICES ASSUME faults = {"damage"} PROVE FALSE
    OBVIOUS
  <2>2. /\ Length(file_tagged) = Total
        /\ \E i \in DOMAIN file_tagged : file_tagged[i] = <<"damaged">>
    BY <1>2, <2>1 DEF Contents
  <2>3. \A k \in 0 .. (NumBlocks - 1) : Stored(k) = Chain[k]
    <3> HIDE DEF NumBlocks, Stored, Chain
    <3> QED BY <1>2, <1>11, <2>2 DEF Verified
  <2> QED BY <1>1, <2>2, <2>3, IntactIsUndamaged
<1>14. Verifying'
  <2> HIDE DEF NumBlocks
  <2> QED BY <1>1, <1>2, <1>3, <1>6, <1>8, <1>9, <1>12, <1>13 DEF Verifying
<1> QED BY <1>5, <1>6, <1>7, <1>14 DEF IInv

\* The block read, with the tag in hand appended, is the next one of the chain.
LEMMA BlockInHand ==
    ASSUME Video, NEW block, IsArray(block, BUF_SZ), NEW k \in 0 .. (NumBlocks - 1),
           NEW next, next = TagOf(k + 1), IsArray(next, SHA256_MD_SZ),
           NEW new, new = Append(Written(block, 0, Block(k)), next)
    PROVE  /\ IsArray(new, BUF_SZ) /\ Slice(new, 0, ChainLen(k)) = Chain[k]
           /\ sha256(new, ChainLen(k)) = TagOf(k)
<1> DEFINE held == Written(block, 0, Block(k))
<1>1. /\ BUF_SZ \in Nat \ {0} /\ FILE_BLOCK_SZ \in Nat \ {0} /\ SHA256_MD_SZ \in Nat \ {0}
      /\ BUF_SZ = FILE_BLOCK_SZ + SHA256_MD_SZ
  BY SizesPositive
<1>2. /\ BlockLen(k) \in Nat /\ BlockLen(k) <= FILE_BLOCK_SZ
      /\ ChainLen(k) \in Nat /\ ChainLen(k) <= BUF_SZ
  BY WithinBounds
<1>3. IsArray(held, BUF_SZ) /\ \A i \in Bytes(BlockLen(k)) : held[i] = Block(k)[i]
  <2>1. IsArray(Block(k), BlockLen(k))
    BY BlockArray
  <2>2. BUF_SZ = IF BUF_SZ >= 0 + BlockLen(k) THEN BUF_SZ ELSE 0 + BlockLen(k)
    BY <1>1, <1>2
  <2>3. /\ IsArray(held, BUF_SZ)
        /\ \A i \in Bytes(BUF_SZ) :
              held[i] = IF 0 <= i /\ i < 0 + BlockLen(k) THEN Block(k)[i - 0]
                        ELSE IF i < BUF_SZ THEN block[i] ELSE Zero
    BY ONLY <2>1, <2>2, IsArray(block, BUF_SZ), WrittenArray
  <2>4. ASSUME NEW i \in Bytes(BlockLen(k)) PROVE held[i] = Block(k)[i]
    <3>1. i \in Bytes(BUF_SZ) /\ 0 <= i /\ i < 0 + BlockLen(k) /\ i - 0 = i
      BY <1>1, <1>2 DEF Bytes
    <3> QED BY <2>3, <3>1
  <2> QED BY <2>3, <2>4
<1>4. new = Written(held, FILE_BLOCK_SZ, next)
  BY DEF Append
<1> HIDE DEF held
<1>5. /\ IsArray(new, BUF_SZ)
      /\ \A i \in Bytes(BUF_SZ) :
            new[i] = IF FILE_BLOCK_SZ <= i /\ i < FILE_BLOCK_SZ + SHA256_MD_SZ
                     THEN next[i - FILE_BLOCK_SZ]
                     ELSE IF i < BUF_SZ THEN held[i] ELSE Zero
  <2>1. FILE_BLOCK_SZ \in Nat
        /\ BUF_SZ = IF BUF_SZ >= FILE_BLOCK_SZ + SHA256_MD_SZ THEN BUF_SZ
                    ELSE FILE_BLOCK_SZ + SHA256_MD_SZ
    BY <1>1
  <2> QED BY ONLY <1>3, <1>4, <2>1, IsArray(next, SHA256_MD_SZ), WrittenArray
<1>6. ASSUME NEW i \in Bytes(ChainLen(k)) PROVE new[i] = Chain[k][i]
  <2>1. i \in Bytes(BUF_SZ) /\ i \in Nat /\ i < BUF_SZ /\ i < ChainLen(k)
    BY <1>1, <1>2 DEF Bytes
  <2>2. CASE i < FILE_BLOCK_SZ
    <3>1. i \in Bytes(BlockLen(k))
      <4>1. BlockLen(k) = ChainLen(k) \/ BlockLen(k) = FILE_BLOCK_SZ
        BY LenFacts
      <4> QED BY <1>2, <2>1, <2>2, <4>1 DEF Bytes
    <3>2. new[i] = held[i]
      BY <1>1, <1>5, <2>1, <2>2
    <3> QED BY <1>3, <3>1, <3>2, ChainFacts
  <2>3. CASE i >= FILE_BLOCK_SZ
    <3>1. k # NumBlocks - 1 \/ ChainLen(k) <= FILE_BLOCK_SZ
      BY <1>2, LenFacts
    <3>2. k # NumBlocks - 1
      BY <1>1, <1>2, <2>1, <2>3, <3>1
    <3>3. /\ i - FILE_BLOCK_SZ \in Bytes(SHA256_MD_SZ)
          /\ FILE_BLOCK_SZ + (i - FILE_BLOCK_SZ) = i
      BY <1>1, <2>1, <2>3 DEF Bytes
    <3>4. new[i] = next[i - FILE_BLOCK_SZ]
      BY <1>1, <1>5, <2>1, <2>3
    <3>5. Chain[k][FILE_BLOCK_SZ + (i - FILE_BLOCK_SZ)] = TagOf(k + 1)[i - FILE_BLOCK_SZ]
      BY <3>2, <3>3, ChainFacts
    <3> QED BY <3>3, <3>4, <3>5
  <2> QED BY <1>1, <2>1, <2>2, <2>3
<1>7. Slice(new, 0, ChainLen(k)) = Chain[k]
  <2>1. /\ IsArray(Slice(new, 0, ChainLen(k)), ChainLen(k))
        /\ \A i \in Bytes(ChainLen(k)) : Slice(new, 0, ChainLen(k))[i] = new[0 + i]
    BY <1>2, SliceArray
  <2>2. \A i \in Bytes(ChainLen(k)) : 0 + i = i
    BY DEF Bytes
  <2>3. IsArray(Chain[k], ChainLen(k))
    BY ChainFacts
  <2> QED BY <1>6, <2>1, <2>2, <2>3, ArraysEqual
<1>8. sha256(new, ChainLen(k)) = TagOf(k)
  <2>1. Slice(Chain[k], 0, ChainLen(k)) = Chain[k] /\ Length(Chain[k]) = ChainLen(k)
    BY ChainFacts, WholeSlice
  <2>2. sha256(new, ChainLen(k)) = sha256(Chain[k], Length(Chain[k]))
    BY <1>7, <2>1 DEF sha256
  <2>3. k < NumBlocks
    BY BlockNumbers
  <2> QED BY <2>2, <2>3 DEF TagOf
<1> QED BY <1>5, <1>7, <1>8

\* A complete second file holds each block where the chain has it.
LEMMA StoredWhole ==
    ASSUME Video, Length(file_tagged) = Total, NEW k \in 0 .. (NumBlocks - 1)
    PROVE  Stored(k) = Slice(file_tagged, k * BUF_SZ, ChainLen(k))
BY LenFacts DEF Stored

\* Writing one block more, from the end, leaves those after it as they are.
LEMMA BlockWritten ==
    ASSUME Video, IsArray(file_tagged, Length(file_tagged)), Length(file_tagged) <= Total,
           NEW k \in 0 .. (NumBlocks - 1), EmptyBelow((k + 1) * BUF_SZ),
           file' = file, file_tagged' = Written(file_tagged, k * BUF_SZ, Chain[k])
    PROVE  /\ IsArray(file_tagged', Length(file_tagged')) /\ Length(file_tagged') <= Total
           /\ EmptyBelow(k * BUF_SZ)'
           /\ Length(file_tagged) <= Length(file_tagged')
           /\ IntactFrom(k + 1) => IntactFrom(k)'
<1> DEFINE from == k * BUF_SZ
           old  == Length(file_tagged)
           size == ChainLen(k)
           len  == IF old >= from + size THEN old ELSE from + size
<1>1. /\ from \in Nat /\ size \in Nat /\ size <= BUF_SZ /\ old \in Nat /\ Total \in Nat
      /\ BUF_SZ \in Nat \ {0} /\ NumBlocks \in Nat /\ k \in Nat /\ k < NumBlocks
  <2>1. size \in 1..BUF_SZ /\ from \in Nat /\ BUF_SZ \in Nat \ {0}
    BY LenFacts, SizesPositive
  <2>2. size \in Nat /\ size <= BUF_SZ
    BY <2>1
  <2>3. old \in Nat
    BY DEF IsArray
  <2>4. NumBlocks \in Nat /\ k \in Nat /\ k < NumBlocks
    BY BlockNumbers
  <2> QED BY <2>1, <2>2, <2>3, <2>4, TotalNat
<1>2. from + size <= Total /\ (k = NumBlocks - 1 => from + size = Total)
  BY WithinBounds
<1>3. (k + 1) * BUF_SZ = from + BUF_SZ
  BY <1>1, Steps
<1>4. IsArray(Chain[k], size)
  BY ChainFacts
<1> HIDE DEF from, old, size
<1>5. /\ IsArray(file_tagged', len)
      /\ \A i \in Bytes(len) :
            file_tagged'[i] = IF from <= i /\ i < from + size THEN Chain[k][i - from]
                              ELSE IF i < old THEN file_tagged[i] ELSE Zero
  <2>1. IsArray(file_tagged, old) /\ file_tagged' = Written(file_tagged, from, Chain[k])
    BY DEF old, from
  <2>2. from \in Nat
    BY <1>1
  <2> QED BY ONLY <1>4, <2>1, <2>2, WrittenArray
<1>6. Length(file_tagged') = len
  BY <1>5, ArrayLength
<1>7. len \in Nat /\ len <= Total /\ old <= len /\ from + size <= len
  <2>1. old <= Total
    BY DEF old
  <2> QED BY <1>1, <1>2, <2>1
<1> HIDE DEF len
<1>8. EmptyBelow(from)'
  <2>1. ASSUME NEW i \in Bytes(len), i < from PROVE file_tagged'[i] = Zero
    <3>1. file_tagged'[i] = IF i < old THEN file_tagged[i] ELSE Zero
      BY <1>1, <1>5, <2>1 DEF Bytes
    <3>2. CASE i < old
      <4>1. i \in DOMAIN file_tagged
        BY <1>7, <3>2 DEF Bytes, IsArray, old
      <4>2. i < (k + 1) * BUF_SZ
        BY <1>1, <1>3, <2>1, <1>7 DEF Bytes
      <4> QED BY <3>1, <3>2, <4>1, <4>2 DEF EmptyBelow
    <3> QED BY <3>1, <3>2
  <2>2. DOMAIN file_tagged' = Bytes(len) /\ from' = from
    BY <1>5, SizesPositive DEF IsArray, from
  <2> QED BY <2>1, <2>2 DEF EmptyBelow
<1>9. ASSUME IntactFrom(k + 1) PROVE IntactFrom(k)'
  <2>1. len = Total
    <3>1. CASE k = NumBlocks - 1
      BY <1>1, <1>2, <1>7, <3>1
    <3>2. CASE k # NumBlocks - 1
      <4>1. k + 1 < NumBlocks
        BY <1>1, <3>2
      <4>2. old = Total
        BY <1>9, <4>1 DEF IntactFrom, old
      <4> QED BY <1>1, <1>7, <4>2
    <3> QED BY <3>1, <3>2
  <2>2. Video' /\ NumBlocks' = NumBlocks /\ Chain' = Chain /\ Total' = Total
        /\ \A j : ChainLen(j)' = ChainLen(j)
    BY Stable
  <2>3. Length(file_tagged') = Total'
    BY <1>6, <2>1, <2>2
  <2>4. ASSUME NEW j \in k .. (NumBlocks - 1) PROVE Stored(j)' = Chain[j]
    <3>1. /\ j \in 0 .. (NumBlocks - 1) /\ j \in Nat /\ j * BUF_SZ \in Nat
          /\ ChainLen(j) \in Nat /\ j * BUF_SZ + ChainLen(j) <= Total
      <4>1. j \in 0 .. (NumBlocks - 1) /\ j \in Nat
        BY <1>1
      <4> QED BY <4>1, LenFacts, WithinBounds
    <3>2. Stored(j)' = Slice(file_tagged', j * BUF_SZ, ChainLen(j))
      <4>1. Min({BUF_SZ, Length(file_tagged') - j * BUF_SZ}) = ChainLen(j)
        BY <1>6, <2>1, <3>1, LenFacts
      <4> QED BY <4>1 DEF Stored, BUF_SZ
    <3>3. /\ IsArray(Slice(file_tagged', j * BUF_SZ, ChainLen(j)), ChainLen(j))
          /\ \A i \in Bytes(ChainLen(j)) :
                Slice(file_tagged', j * BUF_SZ, ChainLen(j))[i] = file_tagged'[j * BUF_SZ + i]
      BY <3>1, SliceArray
    <3>4. IsArray(Chain[j], ChainLen(j))
      BY <3>1, ChainFacts
    <3>5. ASSUME NEW i \in Bytes(ChainLen(j))
          PROVE  file_tagged'[j * BUF_SZ + i] = Chain[j][i]
      <4>1. i \in Nat /\ i < ChainLen(j) /\ j * BUF_SZ + i \in Bytes(len)
        BY <2>1, <3>1, <1>1 DEF Bytes
      <4>2. CASE j = k
        <5>1. from <= j * BUF_SZ + i /\ j * BUF_SZ + i < from + size
              /\ (j * BUF_SZ + i) - from = i
          BY <1>1, <3>1, <4>1, <4>2 DEF from, size
        <5> QED BY <1>5, <4>1, <4>2, <5>1
      <4>3. CASE j # k
        <5>1. j > k /\ j \in (k + 1) .. (NumBlocks - 1) /\ k + 1 < NumBlocks
          BY <1>1, <3>1, <4>3
        <5>2. k * BUF_SZ + BUF_SZ <= j * BUF_SZ
          BY <1>1, <3>1, <5>1, Steps
        <5>3. ~(j * BUF_SZ + i < from + size)
          BY <1>1, <3>1, <4>1, <5>2 DEF from
        <5>4. Length(file_tagged) = Total /\ Stored(j) = Chain[j]
          BY <1>9, <5>1 DEF IntactFrom
        <5>5. j * BUF_SZ + i < old
          BY <1>1, <3>1, <4>1, <5>4 DEF old
        <5>6. file_tagged'[j * BUF_SZ + i] = file_tagged[j * BUF_SZ + i]
          BY <1>5, <4>1, <5>3, <5>5
        <5>7. Chain[j] = Slice(file_tagged, j * BUF_SZ, ChainLen(j))
          BY <3>1, <5>4, StoredWhole
        <5> QED BY <3>1, <5>6, <5>7, SliceArray
      <4> QED BY <4>2, <4>3
    <3>6. Slice(file_tagged', j * BUF_SZ, ChainLen(j)) = Chain[j]
      <4> HIDE DEF Chain, ChainLen
      <4> QED BY <3>3, <3>4, <3>5, ArraysEqual
    <3> QED BY <3>2, <3>6
  <2> HIDE DEF Stored, Chain, NumBlocks, Total
  <2> QED BY <2>2, <2>3, <2>4 DEF IntactFrom
<1> QED BY <1>5, <1>6, <1>7, <1>8, <1>9 DEF from, old

LEMMA TagBlockInv ==
    ASSUME IInv, TagBlock
    PROVE  IInv'
<1>1. /\ pc = "tag" /\ pc' = "tag" /\ file_pos >= 0 /\ said = {} /\ said' = {}
      /\ faults \in {{}, {"write"}}
      /\ UNCHANGED <<file, check>>
      /\ blk_cnt = 0 /\ blk_cnt' = 0 /\ read_pos' = 0 /\ eof' = FALSE /\ Video /\ Types
  BY DEF TagBlock, IInv, Tagging, check
<1>2. /\ IsArray(buf, BUF_SZ) /\ IsArray(tag, SHA256_MD_SZ) /\ IsArray(prev_tag, SHA256_MD_SZ)
      /\ IsArray(file_tagged, Length(file_tagged)) /\ read_pos = 0
      /\ file_pos \in Int /\ faults \subseteq Faults
  BY <1>1 DEF Types, IInv, Tagging
<1>3. PICK m \in 0..NumBlocks :
         /\ TaggedFrom(m)
         /\ file_pos = (m - 1) * FILE_BLOCK_SZ /\ file_tagged_pos = (m - 1) * BUF_SZ
         /\ blk_size = (IF m = NumBlocks /\ m # 0 THEN BlockLen(m - 1) ELSE FILE_BLOCK_SZ)
         /\ m # 0 => blk_tagged_size = ChainLen(m - 1)
  BY <1>1 DEF IInv, Tagging
<1> DEFINE k == m - 1
<1>4. k \in 0 .. (NumBlocks - 1) /\ k + 1 = m /\ k \in Nat /\ NumBlocks \in Nat /\ k < NumBlocks
  <2>1. NumBlocks \in Nat
    BY <1>1, BlockNumbers
  <2>2. ASSUME m = 0 PROVE FALSE
    <3>1. file_pos = (0 - 1) * FILE_BLOCK_SZ
      BY <1>3, <2>2
    <3>2. (0 - 1) * FILE_BLOCK_SZ = -FILE_BLOCK_SZ /\ FILE_BLOCK_SZ \in Nat \ {0}
      BY SizesPositive
    <3> QED BY <1>1, <3>1, <3>2
  <2> QED BY <2>1, <2>2
<1>5. /\ file_pos = k * FILE_BLOCK_SZ /\ file_tagged_pos = k * BUF_SZ
      /\ blk_size = BlockLen(k) /\ blk_tagged_size = ChainLen(k)
      /\ tag = TagOf(k + 1) /\ EmptyBelow((k + 1) * BUF_SZ) /\ Length(file_tagged) <= Total
      /\ faults = {} => IntactFrom(k + 1)
  <2>1. blk_size = BlockLen(k)
    BY <1>3, <1>4 DEF BlockLen
  <2>2. m # 0
    BY <1>4
  <2> HIDE DEF BlockLen, ChainLen, TagOf, Total, EmptyBelow, IntactFrom
  <2> QED BY <1>3, <1>4, <2>1, <2>2 DEF TaggedFrom
<1> HIDE DEF k
<1>6. Slice(file, file_pos, blk_size) = Block(k)
  BY <1>1, <1>4, <1>5, BlockArray
<1>7. buf' = Append(Written(buf, 0, Block(k)), tag)
  BY <1>6 DEF TagBlock
<1>8. /\ IsArray(buf', BUF_SZ) /\ Slice(buf', 0, ChainLen(k)) = Chain[k]
      /\ sha256(buf', ChainLen(k)) = TagOf(k)
  BY ONLY <1>1, <1>2, <1>4, <1>5, <1>7, BlockInHand
<1>9. /\ tag' = TagOf(k)
      /\ blk_size' = FILE_BLOCK_SZ /\ blk_tagged_size' = BUF_SZ
      /\ file_pos' = file_pos - FILE_BLOCK_SZ /\ file_tagged_pos' = file_tagged_pos - BUF_SZ
  BY <1>5, <1>8 DEF TagBlock
<1>10. IsArray(tag', SHA256_MD_SZ)
  BY TagArray DEF TagBlock
<1>11. /\ Video' /\ NumBlocks' = NumBlocks /\ Total' = Total
       /\ \A j : TagOf(j)' = TagOf(j) /\ ChainLen(j)' = ChainLen(j)
  BY <1>1, Stable
\* The second file now holds the blocks from k on, unless the write failed.
<1>12. /\ IsArray(file_tagged', Length(file_tagged')) /\ Length(file_tagged') <= Total
       /\ EmptyBelow(k * BUF_SZ)' /\ faults' \in {{}, {"write"}} /\ faults' \subseteq Faults
       /\ faults' = {} => IntactFrom(k)'
  <2>1. CASE /\ file_tagged' = Written(file_tagged, file_tagged_pos,
                                       Slice(buf', 0, blk_tagged_size))
             /\ faults' = faults
    <3>1. file_tagged' = Written(file_tagged, k * BUF_SZ, Chain[k])
      BY <1>5, <1>8, <2>1
    <3>2. /\ IsArray(file_tagged', Length(file_tagged')) /\ Length(file_tagged') <= Total
          /\ EmptyBelow(k * BUF_SZ)'
          /\ IntactFrom(k + 1) => IntactFrom(k)'
      BY ONLY <1>1, <1>2, <1>4, <1>5, <3>1, BlockWritten
    <3> QED BY <1>1, <1>2, <1>5, <2>1, <3>2
  <2>2. CASE Fault("write") /\ file_tagged' = file_tagged
    <3>1. faults' = {"write"} /\ "write" \in Faults
      BY <2>2 DEF Fault
    <3>2. EmptyBelow(k * BUF_SZ)
      <4>1. k * BUF_SZ \in Nat /\ (k + 1) * BUF_SZ = k * BUF_SZ + BUF_SZ /\ BUF_SZ \in Nat
        BY <1>4, Steps, SizesPositive
      <4>2. ASSUME NEW i \in DOMAIN file_tagged, i < k * BUF_SZ PROVE i < (k + 1) * BUF_SZ
        <5>1. i \in Int
          BY <1>2 DEF IsArray, Bytes
        <5> QED BY <4>1, <4>2, <5>1
      <4> QED BY <1>5, <4>2 DEF EmptyBelow
    <3>3. EmptyBelow(k * BUF_SZ)'
      BY <1>1, <2>2, <3>2, StableFile
    <3> QED BY <1>2, <1>5, <2>2, <3>1, <3>3
  <2> QED BY <2>1, <2>2 DEF TagBlock, NoFault
<1>13. TaggedFrom(k)'
  <2> HIDE DEF TagOf, Total, IntactFrom
  <2> QED BY <1>9, <1>11, <1>12 DEF TaggedFrom
<1>14. Tagging'
  <2> DEFINE At(j) == /\ TaggedFrom(j)
                      /\ file_pos = (j - 1) * FILE_BLOCK_SZ /\ file_tagged_pos = (j - 1) * BUF_SZ
                      /\ blk_size = (IF j = NumBlocks /\ j # 0 THEN BlockLen(j - 1) ELSE FILE_BLOCK_SZ)
                      /\ j # 0 => blk_tagged_size = ChainLen(j - 1)
  <2>1. file_pos' = (k - 1) * FILE_BLOCK_SZ /\ file_tagged_pos' = (k - 1) * BUF_SZ
    BY <1>4, <1>5, <1>9, Steps, SizesPositive
  <2>2. k # 0 => ChainLen(k - 1) = BUF_SZ
    BY <1>4 DEF ChainLen
  <2>3. k # NumBlocks
    BY <1>4
  <2>4. At(k)'
    <3> HIDE DEF TaggedFrom, ChainLen, NumBlocks
    <3> QED BY <1>9, <1>11, <1>13, <2>1, <2>2, <2>3
  <2>5. k \in 0..NumBlocks'
    BY <1>4, <1>11
  <2> HIDE DEF At
  <2>6. \E j \in 0..NumBlocks' : At(j)'
    BY <2>4, <2>5
  <2> USE DEF At
  <2> QED BY <1>1, <1>12, <2>6 DEF Tagging
<1>15. Types'
  <2>1. /\ file_pos' \in Int /\ file_tagged_pos' \in Int
        /\ file_pos' * BUF_SZ = file_tagged_pos' * FILE_BLOCK_SZ
    <3>1. file_pos' = (k - 1) * FILE_BLOCK_SZ /\ file_tagged_pos' = (k - 1) * BUF_SZ
      BY <1>4, <1>5, <1>9, Steps, SizesPositive
    <3>2. k - 1 \in Int /\ FILE_BLOCK_SZ \in Int /\ BUF_SZ \in Int
      BY <1>4, SizesPositive
    <3> QED BY <3>1, <3>2
  <2>2. blk_size' \in 0..FILE_BLOCK_SZ /\ blk_tagged_size' \in 0..BUF_SZ
    BY <1>9, SizesPositive
  <2>3. read_pos' \in 0..Length(file_tagged')
    <3>1. Length(file_tagged') \in Nat
      BY <1>12 DEF IsArray
    <3> QED BY <1>1, <3>1
  <2>4. prev_tag' = prev_tag
    BY <1>1 DEF check
  <2> QED BY <1>1, <1>2, <1>8, <1>10, <1>12, <2>1, <2>2, <2>3, <2>4 DEF Types
<1>16. Verifying' /\ DamageIsNoticed'
  BY <1>1, NothingRead DEF Verifying, DamageIsNoticed
<1> QED BY <1>11, <1>14, <1>15, <1>16 DEF IInv

\* What a read leaves in the buffer.
LEMMA BlockRead ==
    ASSUME Video, Types, pc = "verify", Verifying, Got > 0, Fetch
    PROVE  /\ IsArray(buf', BUF_SZ) /\ Got \in Nat \ {0} /\ Got <= BUF_SZ
           /\ blk_cnt \in 0 .. (NumBlocks - 1) /\ read_pos = blk_cnt * BUF_SZ
           /\ read_pos' = read_pos + Got /\ read_pos' \in 0..Length(file_tagged)
           /\ IsArray(Stored(blk_cnt), Got) /\ Slice(buf', 0, Got) = Stored(blk_cnt)
           /\ \A i \in Bytes(Got) :
                 /\ buf'[i] = Stored(blk_cnt)[i] /\ Stored(blk_cnt)[i] = file_tagged[read_pos + i]
                 /\ read_pos + i \in DOMAIN file_tagged
<1>1. /\ Got \in 0..BUF_SZ /\ read_pos + Got \in 0..Length(file_tagged)
      /\ Length(file_tagged) \in Nat /\ read_pos \in Nat
      /\ blk_cnt = NumBlocks => Got = 0
      /\ blk_cnt < NumBlocks =>
            /\ blk_cnt \in 0 .. (NumBlocks - 1) /\ read_pos = blk_cnt * BUF_SZ
            /\ Stored(blk_cnt) = Slice(file_tagged, read_pos, Got)
  BY NextRead
<1>2. Got \in Nat \ {0} /\ Got <= BUF_SZ /\ BUF_SZ \in Nat /\ read_pos + Got <= Length(file_tagged)
  BY <1>1, SizesPositive
<1>3. blk_cnt < NumBlocks
  <2>1. blk_cnt \in 0..NumBlocks /\ NumBlocks \in Nat
    BY BlockNumbers DEF Verifying, Verified
  <2> QED BY <1>1, <1>2, <2>1
<1>4. /\ blk_cnt \in 0 .. (NumBlocks - 1) /\ read_pos = blk_cnt * BUF_SZ
      /\ Stored(blk_cnt) = Slice(file_tagged, read_pos, Got)
  BY <1>1, <1>3
<1> DEFINE data == Stored(blk_cnt)
           g    == Got
<1>5. IsArray(data, g) /\ \A i \in Bytes(g) : data[i] = file_tagged[read_pos + i]
  BY <1>1, <1>2, <1>4, SliceArray
<1>6. buf' = Written(buf, 0, data) /\ read_pos' = read_pos + g
  BY <1>4 DEF Fetch
<1>7. g \in Nat /\ g <= BUF_SZ
  BY <1>2
<1>8. IsArray(buf, BUF_SZ) /\ DOMAIN file_tagged = Bytes(Length(file_tagged))
  BY DEF Types, IsArray
<1> HIDE DEF data, g
<1>9. /\ IsArray(buf', BUF_SZ)
      /\ \A i \in Bytes(BUF_SZ) :
            buf'[i] = IF 0 <= i /\ i < 0 + g THEN data[i - 0]
                      ELSE IF i < BUF_SZ THEN buf[i] ELSE Zero
  <2>1. 0 \in Nat /\ BUF_SZ = IF BUF_SZ >= 0 + g THEN BUF_SZ ELSE 0 + g
    BY <1>2, <1>7
  <2> QED BY ONLY <1>5, <1>6, <1>8, <2>1, WrittenArray
<1>10. ASSUME NEW i \in Bytes(g) PROVE buf'[i] = data[i] /\ buf'[0 + i] = buf'[i]
  <2>1. i \in Bytes(BUF_SZ) /\ 0 <= i /\ i < 0 + g /\ i - 0 = i /\ 0 + i = i
    BY <1>2, <1>7 DEF Bytes
  <2> QED BY <1>9, <2>1
<1>11. Slice(buf', 0, g) = data
  <2>1. IsArray(Slice(buf', 0, g), g) /\ \A i \in Bytes(g) : Slice(buf', 0, g)[i] = buf'[0 + i]
    BY <1>7, SliceArray
  <2> QED BY <1>5, <1>10, <2>1, ArraysEqual
<1>12. ASSUME NEW i \in Bytes(g) PROVE read_pos + i \in DOMAIN file_tagged
  BY <1>1, <1>2, <1>8 DEF Bytes, g
<1>13. read_pos' \in 0..Length(file_tagged)
  BY <1>1, <1>6 DEF g
<1> QED BY <1>2, <1>4, <1>5, <1>6, <1>9, <1>10, <1>11, <1>12, <1>13 DEF data, g

\* Its tag is the expected one only if it is the block of the chain, and then
\* it is.
LEMMA TagIdentifies ==
    ASSUME Video, Types, pc = "verify", Verifying, Got > 0, Fetch
    PROVE  /\ prev_tag = sha256(buf', Got) => Stored(blk_cnt) = Chain[blk_cnt]
           /\ faults = {} => prev_tag = sha256(buf', Got)
           /\ Stored(blk_cnt) = Chain[blk_cnt] => Got = ChainLen(blk_cnt)
<1> DEFINE c == blk_cnt
           g == Got
<1>1. /\ c \in 0 .. (NumBlocks - 1) /\ read_pos = c * BUF_SZ /\ g \in Nat \ {0}
      /\ IsArray(Stored(c), g) /\ Slice(buf', 0, g) = Stored(c)
      /\ \A i \in Bytes(g) : Stored(c)[i] = file_tagged[read_pos + i]
      /\ \A i \in Bytes(g) : read_pos + i \in DOMAIN file_tagged
  BY BlockRead
<1> HIDE DEF g
<1>2. NumBlocks \in Nat /\ c \in Nat /\ c < NumBlocks
  BY <1>1, BlockNumbers
<1>3. ASSUME NEW k \in 0 .. (NumBlocks - 1)
      PROVE  /\ TagOf(k) = sha256(Chain[k], Length(Chain[k]))
             /\ Slice(Chain[k], 0, Length(Chain[k])) = Chain[k]
             /\ Length(Chain[k]) = ChainLen(k) /\ Chain[k][0] # Zero
  <2>1. k < NumBlocks
    BY <1>2
  <2>2. IsArray(Chain[k], ChainLen(k)) /\ Length(Chain[k]) = ChainLen(k) /\ Chain[k][0] # Zero
    BY ChainFacts
  <2> HIDE DEF Chain, ChainLen, NumBlocks
  <2> QED BY <2>1, <2>2, WholeSlice DEF TagOf
<1>4. ASSUME NEW k \in 0 .. (NumBlocks - 1), TagOf(k) = sha256(buf', g)
      PROVE  Stored(c) = Chain[k]
  <2>1. Slice(Chain[k], 0, Length(Chain[k])) = Slice(buf', 0, g)
    BY <1>3, <1>4, TagsTell
  <2> QED BY <1>1, <1>3, <2>1
<1>5. Expecting
  BY DEF Verifying
<1>6. ASSUME prev_tag = sha256(buf', g) PROVE Stored(c) = Chain[c]
  <2>1. CASE prev_tag = TagOf(c)
    BY <1>1, <1>4, <1>6, <2>1
  \* No block of zeros has a tag that was left over.
  <2>2. ASSUME c = 0, NEW m \in 1..NumBlocks, prev_tag = TagOf(m), EmptyBelow(m * BUF_SZ)
        PROVE  FALSE
    <3>1. 0 \in Bytes(g) /\ read_pos + 0 = 0 /\ 0 * BUF_SZ = 0
      BY <1>1, <2>2, SizesPositive DEF Bytes
    <3>2. 0 < m * BUF_SZ
      <4>1. (0 * BUF_SZ) + BUF_SZ <= m * BUF_SZ /\ m * BUF_SZ \in Int
        BY <1>2, Steps, SizesPositive
      <4> QED BY <3>1, <4>1, SizesPositive
    <3>3. Stored(c)[0] = Zero
      <4>1. 0 \in DOMAIN file_tagged /\ Stored(c)[0] = file_tagged[0]
        BY <1>1, <3>1
      <4> QED BY <2>2, <3>2, <4>1 DEF EmptyBelow
    <3>4. CASE m = NumBlocks
      <4>1. 0 \in Bytes(SHA256_MD_SZ)
        BY SizesPositive DEF Bytes
      <4>2. ~(m < NumBlocks)
        BY <1>2, <3>4
      <4>3. TagOf(m) = Zeros(SHA256_MD_SZ)
        BY <4>2 DEF TagOf
      <4>4. prev_tag[0] = Zero
        BY <2>2, <4>1, <4>3 DEF Zeros
      <4>5. prev_tag[0] = <<"tag", Slice(buf', 0, g), 0>>
        BY <1>6, <4>1 DEF sha256
      <4> QED BY <4>4, <4>5, BytesDiffer
    <3>5. CASE m # NumBlocks
      <4>1. m \in 0 .. (NumBlocks - 1)
        BY <1>2, <3>5
      <4>2. Stored(c) = Chain[m]
        BY <1>4, <1>6, <2>2, <4>1
      <4> QED BY <1>3, <3>3, <4>1, <4>2
    <3> QED BY <3>4, <3>5
  <2>3. c # NumBlocks
    BY <1>2
  <2> HIDE DEF Stored, Chain, TagOf, EmptyBelow, NumBlocks
  <2> QED BY <1>5, <2>1, <2>2, <2>3 DEF Expecting
<1>7. ASSUME Stored(c) = Chain[c] PROVE g = ChainLen(c)
  <2>1. Length(Stored(c)) = g
    BY <1>1, ArrayLength
  <2>2. Length(Chain[c]) = ChainLen(c)
    BY <1>1, <1>3
  <2> QED BY <1>7, <2>1, <2>2
<1>8. ASSUME faults = {} PROVE prev_tag = sha256(buf', g)
  <2>1. Stored(c) = Chain[c]
    BY <1>1, <1>8 DEF Verifying, Contents, IntactFrom
  <2>2. prev_tag = TagOf(c)
    <3>1. c # NumBlocks
      BY <1>2
    <3> HIDE DEF TagOf, EmptyBelow, NumBlocks
    <3> QED BY <1>8, <1>5, <3>1 DEF Expecting
  <2>3. g = ChainLen(c) /\ Length(Chain[c]) = ChainLen(c)
    BY <1>1, <1>3, <1>7, <2>1
  <2>4. Slice(Chain[c], 0, Length(Chain[c])) = Slice(buf', 0, g)
    BY <1>1, <1>3, <2>1
  <2>5. sha256(Chain[c], Length(Chain[c])) = sha256(buf', g)
    BY <2>4 DEF sha256
  <2> QED BY <1>1, <1>3, <2>2, <2>5
<1> QED BY <1>6, <1>7, <1>8 DEF g

LEMMA VerifyBlockInv ==
    ASSUME IInv, VerifyBlock
    PROVE  IInv'
<1> DEFINE c == blk_cnt
           g == Got
<1>1. /\ pc = "verify" /\ Got > 0 /\ Fetch /\ tag' = sha256(buf', Got)
      /\ UNCHANGED <<file, file_tagged, loop, faults>>
      /\ Video /\ Types /\ Verifying
  BY DEF VerifyBlock, IInv
<1>2. /\ IsArray(buf', BUF_SZ) /\ g \in Nat \ {0} /\ g <= BUF_SZ
      /\ c \in 0 .. (NumBlocks - 1) /\ read_pos = c * BUF_SZ
      /\ read_pos' = read_pos + g /\ read_pos' \in 0..Length(file_tagged)
      /\ IsArray(Stored(c), g) /\ Slice(buf', 0, g) = Stored(c)
      /\ \A i \in Bytes(g) : buf'[i] = Stored(c)[i]
  BY <1>1, BlockRead
<1>3. /\ prev_tag = tag' => Stored(c) = Chain[c]
      /\ faults = {} => prev_tag = tag'
      /\ Stored(c) = Chain[c] => g = ChainLen(c)
  BY <1>1, TagIdentifies
<1> HIDE DEF g
<1>4. /\ Verified /\ Contents /\ faults # {"open"}
      /\ faults = {} => said = {"File encoded successfully"}
  BY <1>1 DEF Verifying
<1>5. /\ Video' /\ NumBlocks' = NumBlocks /\ Total' = Total /\ NumBlocks \in Nat
      /\ \A k : TagOf(k)' = TagOf(k) /\ Stored(k)' = Stored(k)
      /\ Chain' = Chain
  BY <1>1, Stable, StableFile, BlockNumbers
<1>6. Contents'
  <2> HIDE DEF IntactFrom, Total
  <2> QED BY <1>1, <1>4, <1>5, StableFile DEF Contents
<1>7. IsArray(tag', SHA256_MD_SZ) /\ read_pos' \in 0..Length(file_tagged')
  BY <1>1, <1>2, TagArray
<1>8. ASSUME /\ prev_tag = tag' /\ prev_tag' = carried_tag(buf') /\ blk_cnt' = blk_cnt + 1
             /\ pc' = pc /\ said' = said
      PROVE  IInv'
  <2>1. Stored(c) = Chain[c] /\ g = ChainLen(c)
    BY <1>3, <1>8
  <2>2. c \in Nat /\ c + 1 \in 0..NumBlocks
    BY <1>2, <1>5
  <2>3. Verified'
    <3>1. ASSUME NEW k \in 0 .. ((c + 1) - 1) PROVE Stored(k)' = Chain'[k]
      <4>1. Stored(k) = Chain[k]
        <5>1. CASE k = c
          BY <2>1, <5>1
        <5>2. CASE k # c
          <6>1. k \in 0 .. (c - 1)
            BY <2>2, <5>2
          <6> QED BY <1>4, <6>1 DEF Verified
        <5> QED BY <5>1, <5>2
      <4> QED BY <1>5, <4>1
    <3> HIDE DEF Stored, Chain, NumBlocks
    <3> QED BY <1>5, <1>8, <2>2, <3>1 DEF Verified
  <2>4. IsArray(prev_tag', SHA256_MD_SZ)
    <3>1. SHA256_MD_SZ \in Nat /\ FILE_BLOCK_SZ \in Int
      BY SizesPositive
    <3> QED BY <1>8, <3>1, SliceArray DEF carried_tag
  <2>5. Types'
    BY <1>1, <1>2, <1>7, <1>8, <2>4 DEF Types, loop
  <2>6. Expecting' /\ read_pos' = (IF blk_cnt' = NumBlocks' THEN Total' ELSE blk_cnt' * BUF_SZ)
    <3>1. CASE c = NumBlocks - 1
      <4>1. c * BUF_SZ + ChainLen(c) = Total
        BY <1>1, <1>2, <3>1, LenFacts
      <4>2. blk_cnt' = NumBlocks'
        BY <1>5, <1>8, <3>1
      <4> HIDE DEF NumBlocks, Total, TagOf, EmptyBelow
      <4>3. read_pos' = Total'
        BY <1>2, <1>5, <2>1, <4>1
      <4> QED BY <4>2, <4>3 DEF Expecting
    <3>2. CASE c # NumBlocks - 1
      <4>1. ChainLen(c) = BUF_SZ
        BY <1>1, <1>2, <3>2, LenFacts
      <4>2. read_pos' = blk_cnt' * BUF_SZ /\ blk_cnt' # NumBlocks'
        <5>1. (c + 1) * BUF_SZ = c * BUF_SZ + BUF_SZ
          BY <2>2, Steps, SizesPositive
        <5>2. c + 1 # NumBlocks
          BY <1>5, <2>2, <3>2
        <5> QED BY <1>2, <1>5, <1>8, <2>1, <4>1, <5>1, <5>2
      \* The tag carried in the block is the one of the block after it.
      <4>3. prev_tag' = TagOf(c + 1)
        <5>1. IsArray(TagOf(c + 1), SHA256_MD_SZ)
          <6>1. c + 1 < NumBlocks
            BY <1>5, <2>2, <3>2
          <6> QED BY <6>1, TagArray DEF TagOf
        <5>2. ASSUME NEW i \in Bytes(SHA256_MD_SZ) PROVE prev_tag'[i] = TagOf(c + 1)[i]
          <6>1. FILE_BLOCK_SZ + i \in Bytes(g) /\ SHA256_MD_SZ \in Nat /\ FILE_BLOCK_SZ \in Int
            BY <2>1, <4>1, SizesPositive DEF Bytes
          <6>2. prev_tag'[i] = buf'[FILE_BLOCK_SZ + i]
            BY <1>8, <6>1, SliceArray DEF carried_tag
          <6>3. buf'[FILE_BLOCK_SZ + i] = Chain[c][FILE_BLOCK_SZ + i]
            BY <1>2, <2>1, <6>1
          <6>4. Chain[c][FILE_BLOCK_SZ + i] = TagOf(c + 1)[i]
            BY <1>1, <1>2, <3>2, ChainFacts
          <6> QED BY <6>2, <6>3, <6>4
        <5> QED BY <2>4, <5>1, <5>2, ArraysEqual
      <4>4. prev_tag' = TagOf(blk_cnt)'
        <5>1. blk_cnt' = c + 1 /\ NumBlocks' = NumBlocks /\ Chain' = Chain
          BY <1>5, <1>8
        <5> HIDE DEF Chain, NumBlocks
        <5> QED BY <4>3, <5>1 DEF TagOf
      <4> HIDE DEF NumBlocks, Total, TagOf, EmptyBelow
      <4> QED BY <4>2, <4>4 DEF Expecting
    <3> QED BY <3>1, <3>2
  <2>7. Verifying'
    BY <1>1, <1>4, <1>6, <1>8, <2>3, <2>6 DEF Verifying
  <2>8. Tagging' /\ DamageIsNoticed'
    BY <1>1, <1>8 DEF Tagging, DamageIsNoticed
  <2> QED BY <1>5, <2>5, <2>7, <2>8 DEF IInv
<1>9. ASSUME /\ prev_tag # tag' /\ said' = said \cup {"file integrity check failed"}
             /\ pc' = "outcome" /\ prev_tag' = prev_tag /\ blk_cnt' = blk_cnt
      PROVE  IInv'
  <2>1. faults' # {} /\ Failed' /\ faults' # {"open"}
    BY <1>1, <1>3, <1>4, <1>9 DEF Failed
  <2>2. Verified'
    <3> HIDE DEF Stored, Chain, NumBlocks
    <3> QED BY <1>4, <1>5, <1>9 DEF Verified
  <2>3. Types'
    BY <1>1, <1>2, <1>7, <1>9 DEF Types, loop
  <2>4. Verifying'
    BY <1>6, <1>9, <2>1, <2>2 DEF Verifying
  <2>5. Tagging' /\ DamageIsNoticed'
    BY <1>9 DEF Tagging, DamageIsNoticed
  <2> QED BY <1>5, <2>3, <2>4, <2>5 DEF IInv
<1> QED BY <1>8, <1>9 DEF VerifyBlock, Matches

----------------------------------------------------------------------------
(* The theorems.                                                           *)

LEMMA NextInv ==
    ASSUME IInv, [Next]_vars
    PROVE  IInv'
<1>1. CASE OpenFails
  BY <1>1, OpenFailsInv
<1>2. CASE Locate
  BY <1>2, LocateInv
<1>3. CASE TagBlock
  BY <1>3, TagBlockInv
<1>4. CASE ReadFails
  BY <1>4, ReadFailsInv
<1>5. CASE EndTagging
  BY <1>5, EndTaggingInv
<1>6. CASE Report
  BY <1>6, ReportInv
<1>7. CASE Damage
  BY <1>7, DamageInv
<1>8. CASE VerifyBlock
  BY <1>8, VerifyBlockInv
<1>9. CASE EndVerify
  BY <1>9, EndVerifyInv
<1>10. CASE VerifyReadFails
  BY <1>10, VerifyReadFailsInv
<1>11. CASE Outcome
  BY <1>11, OutcomeInv
<1>12. CASE UNCHANGED vars
  <2>1. /\ UNCHANGED <<pc, file, file_tagged, buf, tag, loop, check, said, faults>>
        /\ UNCHANGED <<blk_size, blk_tagged_size, file_pos, file_tagged_pos>>
        /\ UNCHANGED <<prev_tag, blk_cnt, read_pos>> /\ (eof' <=> eof)
    BY <1>12 DEF vars, loop, check
  <2>2. Video' <=> Video
    BY <2>1, Stable
  <2>3. Types' <=> Types
    BY <2>1 DEF Types
  <2>4. /\ NumBlocks' = NumBlocks /\ Total' = Total /\ Chain' = Chain
        /\ \A k : /\ TagOf(k)' = TagOf(k) /\ Stored(k)' = Stored(k)
                  /\ BlockLen(k)' = BlockLen(k) /\ ChainLen(k)' = ChainLen(k)
        /\ \A n : /\ EmptyBelow(n)' <=> EmptyBelow(n)
                  /\ IntactFrom(n)' <=> IntactFrom(n)
    BY <2>1, Stable, StableFile
  <2> HIDE DEF NumBlocks, Total, Chain, TagOf, Stored, BlockLen, ChainLen, EmptyBelow, IntactFrom
  <2>5. \A m : TaggedFrom(m)' <=> TaggedFrom(m)
    BY <2>1, <2>4 DEF TaggedFrom
  <2>6. Tagging'
    <3> HIDE DEF TaggedFrom
    <3> QED BY <2>1, <2>4, <2>5 DEF IInv, Tagging
  <2>7. (Verified' <=> Verified) /\ (Contents' <=> Contents) /\ (Failed' <=> Failed)
    BY <2>1, <2>4 DEF Verified, Contents, Failed
  <2>8. Expecting' <=> Expecting
    <3>1. TagOf(blk_cnt)' = TagOf(blk_cnt)
      BY <2>1, <2>4 DEF TagOf
    <3> QED BY <2>1, <2>4, <3>1 DEF Expecting
  <2>9. Verifying'
    <3> HIDE DEF Verified, Contents, Failed, Expecting
    <3> QED BY <2>1, <2>4, <2>7, <2>8 DEF IInv, Verifying
  <2>10. DamageIsNoticed'
    BY <2>1, <2>4 DEF IInv, DamageIsNoticed
  <2> QED BY <2>2, <2>3, <2>6, <2>9, <2>10 DEF IInv
<1> QED BY <1>1, <1>2, <1>3, <1>4, <1>5, <1>6, <1>7, <1>8, <1>9, <1>10, <1>11, <1>12 DEF Next

\* The inductive invariant holds in every state of every run.
THEOREM Invariance == Spec => []IInv
<1>1. IInv /\ [Next]_vars => IInv'
  BY NextInv
<1> QED BY <1>1, InitInv, PTL DEF Spec

\* The buffers keep their sizes, the file positions of the two loops stay those
\* of one block, and no read is past the end (week3.c:75-84, 93-140, 169-198).
THEOREM TypeCorrect == Spec => []TypeOK
<1>1. IInv => TypeOK
  <2> SUFFICES ASSUME IInv PROVE TypeOK
    OBVIOUS
  <2>1. blk_cnt \in 0..NumBlocks /\ NumBlocks \in Nat
    BY BlockNumbers DEF IInv, Verifying, Verified
  <2>2. blk_cnt \in Nat
    BY <2>1
  <2> QED BY <2>2 DEF IInv, Types, TypeOK, IsArray
<1> QED BY <1>1, Invariance, PTL

\* Whatever the sizes of the video, of a block and of a tag, the loop that writes
\* the second file from its end backwards leaves exactly the chain in it, and h0
\* is the tag of its first block (week3.c:75-140).
THEOREM TaggedFileIsChain == Spec => []TaggedFileIsTheChain
<1>1. IInv => TaggedFileIsTheChain
  <2> SUFFICES ASSUME IInv, pc = "tagged", faults = {}
               PROVE  IF NumBlocks = 0
                      THEN Length(file_tagged) = 0
                      ELSE /\ Length(file_tagged) = Length(file) + (NumBlocks - 1) * SHA256_MD_SZ
                           /\ \A k \in 0 .. (NumBlocks - 1) : Stored(k) = Chain[k]
                           /\ tag = sha256(Chain[0], Length(Chain[0]))
    BY DEF TaggedFileIsTheChain
  <2>1. Video /\ Types /\ NumBlocks \in Nat /\ Length(file_tagged) \in Nat
    BY BlockNumbers DEF IInv, Types, IsArray
  <2>2. tag = TagOf(0) /\ Length(file_tagged) <= Total /\ IntactFrom(0)
    <3>1. PICK m \in 0..NumBlocks : TaggedFrom(m) /\ m = 0
      BY DEF IInv, Tagging
    <3> QED BY <3>1 DEF TaggedFrom
  <2>3. CASE NumBlocks = 0
    BY <2>1, <2>2, <2>3 DEF Total
  <2>4. CASE NumBlocks # 0
    <3> DEFINE n == NumBlocks - 1
    <3>1. 0 < NumBlocks /\ n \in Nat /\ n \in 0 .. (NumBlocks - 1)
      BY <2>1, <2>4
    <3>2. Length(file_tagged) = Total /\ \A k \in 0 .. (NumBlocks - 1) : Stored(k) = Chain[k]
      BY <2>2, <3>1 DEF IntactFrom
    <3>3. tag = sha256(Chain[0], Length(Chain[0]))
      BY <2>2, <3>1 DEF TagOf
    <3>4. Total = n * BUF_SZ + ChainLen(n)
      BY <2>4 DEF Total
    <3>5. ChainLen(n) = Length(file) - n * FILE_BLOCK_SZ
      BY DEF ChainLen
    <3> HIDE DEF n
    <3>6. n * BUF_SZ = n * FILE_BLOCK_SZ + n * SHA256_MD_SZ
          /\ n * FILE_BLOCK_SZ \in Int /\ n * SHA256_MD_SZ \in Int /\ Length(file) \in Int
      BY <2>1, <3>1, SizesPositive, VideoFacts
    <3>7. Length(file_tagged) = Length(file) + n * SHA256_MD_SZ
      BY <3>2, <3>4, <3>5, <3>6
    <3> QED BY <2>4, <3>2, <3>3, <3>7 DEF n
  <2> QED BY <2>3, <2>4
<1> QED BY <1>1, Invariance, PTL

\* A block counted as verified is the block of the video with its tag, for files
\* of every size and whatever happened to the second one (week3.c:169-198).
THEOREM VerifiedAreAuthentic == Spec => []VerifiedBlocksAreAuthentic
<1>1. IInv => VerifiedBlocksAreAuthentic
  <2> SUFFICES ASSUME IInv, NEW k \in 0 .. (blk_cnt - 1)
               PROVE  k < NumBlocks /\ Stored(k) = Chain[k]
    BY DEF VerifiedBlocksAreAuthentic
  <2>1. blk_cnt \in 0..NumBlocks /\ NumBlocks \in Nat /\ Stored(k) = Chain[k]
    BY BlockNumbers DEF IInv, Verifying, Verified
  <2> QED BY <2>1
<1> QED BY <1>1, Invariance, PTL

\* Damage to the second file is reported; without it, and if every read and write
\* worked, all blocks are verified and only success is (week3.c:162-209).
THEOREM DamageNoticed == Spec => []DamageIsNoticed
<1>1. IInv => DamageIsNoticed
  BY DEF IInv
<1> QED BY <1>1, Invariance, PTL

----------------------------------------------------------------------------
(* What a success says of the second file.                                 *)

Success == "File verified successfully"

OnlyVerified ==
    \A k \in 0 .. Length(file_tagged) : k * BUF_SZ < Length(file_tagged) =>
       k < NumBlocks /\ Stored(k) = Chain[k]

\* Before the outcome no success has been printed; a loop that ended without a
\* mismatch has read the whole file.
Succeeding ==
    /\ pc # "end" => Success \notin said
    /\ pc = "outcome" => Failed \/ OnlyVerified
    /\ pc = "end" /\ Success \in said => Failed \/ OnlyVerified

LEMMA OnlyVerifiedStays ==
    ASSUME UNCHANGED <<file, file_tagged>>
    PROVE  OnlyVerified' <=> OnlyVerified
<1>1. /\ NumBlocks' = NumBlocks /\ Chain' = Chain
      /\ \A k : Stored(k)' = Stored(k)
  BY Stable, StableFile
<1> HIDE DEF NumBlocks, Chain, Stored
<1> QED BY <1>1 DEF OnlyVerified

LEMMA WholeFileRead ==
    ASSUME IInv, EndVerify
    PROVE  OnlyVerified
<1>1. pc = "verify" /\ Got = 0 /\ Video /\ Types /\ Verifying
  BY DEF EndVerify, IInv
<1>2. read_pos = Length(file_tagged) /\ Length(file_tagged) \in Nat
  BY <1>1, NextRead
<1>3. /\ NumBlocks \in Nat /\ BUF_SZ \in Nat \ {0} /\ blk_cnt \in 0..NumBlocks
      /\ \A k \in 0 .. (blk_cnt - 1) : Stored(k) = Chain[k]
      /\ read_pos = (IF blk_cnt = NumBlocks THEN Total ELSE blk_cnt * BUF_SZ)
  BY <1>1, BlockNumbers, SizesPositive DEF Verifying, Verified
\* All of the file lies before the block that would be next.
<1>4. Length(file_tagged) <= blk_cnt * BUF_SZ
  <2>1. CASE blk_cnt # NumBlocks
    BY <1>2, <1>3, <2>1
  <2>2. CASE blk_cnt = NumBlocks
    <3>1. CASE NumBlocks = 0
      BY <1>2, <1>3, <2>2, <3>1 DEF Total
    <3>2. CASE NumBlocks # 0
      <4> DEFINE n == NumBlocks - 1
      <4>1. n \in 0 .. (NumBlocks - 1) /\ n \in Nat /\ NumBlocks = n + 1
        BY <1>3, <3>2
      <4>2. ChainLen(n) \in Nat /\ ChainLen(n) <= BUF_SZ
        <5>1. ChainLen(n) \in 1..BUF_SZ
          BY <1>1, <4>1, LenFacts
        <5> HIDE DEF n, ChainLen
        <5> QED BY <1>3, <5>1
      <4>3. Total = n * BUF_SZ + ChainLen(n)
        BY <3>2 DEF Total
      <4>4. (n + 1) * BUF_SZ = n * BUF_SZ + BUF_SZ
        BY <4>1, Steps, SizesPositive
      <4>5. n * BUF_SZ \in Nat
        BY <1>1, <4>1, LenFacts
      <4> HIDE DEF n, NumBlocks, Total
      <4> QED BY <1>2, <1>3, <2>2, <4>1, <4>2, <4>3, <4>4, <4>5
    <3> QED BY <3>1, <3>2
  <2> QED BY <2>1, <2>2
<1>5. ASSUME NEW k \in 0 .. Length(file_tagged), k * BUF_SZ < Length(file_tagged)
      PROVE  k < NumBlocks /\ Stored(k) = Chain[k]
  <2>1. k \in Nat /\ blk_cnt \in Nat /\ k * BUF_SZ < blk_cnt * BUF_SZ
    <3>1. k \in Nat /\ blk_cnt \in Nat
      BY <1>2, <1>3
    <3>2. k * BUF_SZ \in Int /\ blk_cnt * BUF_SZ \in Int
      BY <1>3, <3>1
    <3> QED BY <1>2, <1>4, <1>5, <3>1, <3>2
  <2>2. k < blk_cnt
    <3>1. \A x, y \in Nat, z \in Nat \ {0} : x * z < y * z => x < y
      OBVIOUS
    <3> QED BY <1>3, <2>1, <3>1
  <2>3. k \in 0 .. (blk_cnt - 1) /\ k < NumBlocks
    BY <1>3, <2>1, <2>2
  <2> QED BY <1>3, <2>3
<1> QED BY <1>5 DEF OnlyVerified

LEMMA SucceedingNext ==
    ASSUME IInv, Succeeding, [Next]_vars
    PROVE  Succeeding'
<1> USE DEF Success, Failed
<1>1. CASE OpenFails
  BY <1>1 DEF OpenFails, Succeeding
<1>2. CASE Locate
  BY <1>2 DEF Locate, Succeeding
<1>3. CASE TagBlock
  BY <1>3 DEF TagBlock, Succeeding
<1>4. CASE ReadFails
  BY <1>4 DEF ReadFails, Succeeding
<1>5. CASE EndTagging
  BY <1>5 DEF EndTagging, Succeeding
<1>6. CASE Report
  <2>1. pc = "tagged" /\ Success \notin said
    BY <1>6 DEF Report, Succeeding
  <2>2. pc' \in {"verify", "end"} /\ Success \notin said'
    BY <1>6, <2>1 DEF Report
  <2> QED BY <2>2 DEF Succeeding
<1>7. CASE Damage
  BY <1>7 DEF Damage, Succeeding
<1>8. CASE VerifyBlock
  <2>1. pc = "verify" /\ Success \notin said
    BY <1>8 DEF VerifyBlock, Succeeding
  <2>2. \/ pc' = "verify" /\ said' = said
        \/ pc' = "outcome" /\ said' = said \cup {"file integrity check failed"}
    BY <1>8 DEF VerifyBlock
  <2> QED BY <2>1, <2>2 DEF Succeeding
<1>9. CASE EndVerify
  <2>1. OnlyVerified
    BY <1>9, WholeFileRead
  <2>2. OnlyVerified'
    BY <1>9, <2>1, OnlyVerifiedStays DEF EndVerify
  <2> HIDE DEF OnlyVerified
  <2> QED BY <1>9, <2>2 DEF EndVerify, Succeeding
<1>10. CASE VerifyReadFails
  BY <1>10 DEF VerifyReadFails, Succeeding
<1>11. CASE Outcome
  <2>1. OnlyVerified' <=> OnlyVerified
    BY <1>11, OnlyVerifiedStays DEF Outcome
  <2> HIDE DEF OnlyVerified
  <2> QED BY <1>11, <2>1 DEF Outcome, Succeeding
<1>12. CASE UNCHANGED vars
  <2>1. OnlyVerified' <=> OnlyVerified
    BY <1>12, OnlyVerifiedStays DEF vars
  <2> HIDE DEF OnlyVerified
  <2> QED BY <1>12, <2>1 DEF vars, Succeeding
<1> QED BY <1>1, <1>2, <1>3, <1>4, <1>5, <1>6, <1>7, <1>8, <1>9, <1>10, <1>11, <1>12 DEF Next

\* A success without a failed check before it: the second file holds the first
\* blocks of the chain and nothing else, whatever was damaged, lost, or not read
\* or written (week3.c:169-209).
THEOREM SuccessMeansAPrefix == Spec => []SuccessIsOfAPrefix
<1>1. Init => Succeeding
  BY DEF Init, Succeeding
<1>2. IInv /\ Succeeding /\ [Next]_vars => Succeeding'
  BY SucceedingNext
<1>3. Succeeding => SuccessIsOfAPrefix
  <2> HIDE DEF Stored, Chain, NumBlocks
  <2>1. SUFFICES ASSUME Succeeding, Success \in said, ~Failed PROVE OnlyVerified
    BY DEF SuccessIsOfAPrefix, OnlyVerified, Success, Failed
  <2> QED BY <2>1 DEF Succeeding
<1> QED BY <1>1, <1>2, <1>3, Invariance, PTL DEF Spec

----------------------------------------------------------------------------
(* Every step leads towards the end.                                       *)

Stage ==
    CASE pc = "start" -> 5 [] pc = "tag" -> 4 [] pc = "tagged" -> 3
      [] pc = "verify" -> 2 [] pc = "outcome" -> 1 [] OTHER -> 0

\* The bytes still to tag, or to verify; that a byte of the second file may still
\* be damaged counts as one more.
BytesLeft ==
    CASE pc = "tag" -> file_pos + FILE_BLOCK_SZ
      [] pc = "verify" -> 2 * Available + (IF faults = {} THEN 1 ELSE 0)
      [] OTHER -> 0

Below == LexPairOrdering(OpToRel(<, Nat), OpToRel(<, Nat), Nat, Nat)

LEMMA BelowIs ==
    ASSUME NEW x \in Nat, NEW y \in Nat, NEW u \in Nat, NEW v \in Nat,
           x < u \/ (x = u /\ y < v)
    PROVE  <<<<x, y>>, <<u, v>>>> \in Below
BY DEF Below, LexPairOrdering, OpToRel

LEMMA BelowIsWellFounded == IsWellFoundedOn(Below, Nat \X Nat)
BY NatLessThanWellFounded, WFLexPairOrdering DEF Below

LEMMA BytesLeftNat ==
    ASSUME IInv
    PROVE  BytesLeft \in Nat /\ Stage \in Nat
<1>1. Stage \in Nat
  BY DEF Stage
<1>2. CASE pc = "tag"
  <2>1. PICK m \in 0..NumBlocks : file_pos = (m - 1) * FILE_BLOCK_SZ
    BY <1>2 DEF IInv, Tagging
  <2>2. NumBlocks \in Nat /\ FILE_BLOCK_SZ \in Nat
    BY BlockNumbers, SizesPositive DEF IInv
  <2>3. m \in Nat
    BY <2>1, <2>2
  <2>4. (m - 1) * FILE_BLOCK_SZ + FILE_BLOCK_SZ = m * FILE_BLOCK_SZ /\ m * FILE_BLOCK_SZ \in Nat
    BY <2>2, <2>3
  <2>5. BytesLeft \in Nat
    BY <1>2, <2>1, <2>4 DEF BytesLeft
  <2> QED BY <1>1, <2>5
<1>3. CASE pc = "verify"
  <2>1. Available \in Nat
    <3>1. Length(file_tagged) \in Nat /\ read_pos \in 0..Length(file_tagged)
      BY DEF IInv, Types, IsArray
    <3> QED BY <3>1 DEF Available
  <2> QED BY <1>1, <1>3, <2>1 DEF BytesLeft
<1>4. CASE pc \notin {"tag", "verify"}
  BY <1>1, <1>4 DEF BytesLeft
<1> QED BY <1>2, <1>3, <1>4

LEMMA StepsDescend ==
    ASSUME IInv, IInv', Next
    PROVE  Stage' < Stage \/ (Stage' = Stage /\ BytesLeft' < BytesLeft)
<1>1. CASE OpenFails \/ Locate \/ ReadFails \/ EndTagging \/ Report \/ EndVerify \/ VerifyReadFails \/ Outcome
  <2>1. \/ pc = "start" /\ pc' \in {"tag", "end"}
        \/ pc = "tag" /\ pc' = "tagged"
        \/ pc = "tagged" /\ pc' \in {"verify", "end"}
        \/ pc = "verify" /\ pc' \in {"outcome", "end"}
        \/ pc = "outcome" /\ pc' = "end"
    BY <1>1 DEF OpenFails, Locate, ReadFails, EndTagging, Report, EndVerify, VerifyReadFails,
                Outcome
  <2> QED BY <2>1 DEF Stage
<1>2. CASE TagBlock
  <2>1. pc = "tag" /\ pc' = "tag" /\ file_pos' = file_pos - FILE_BLOCK_SZ
    BY <1>2 DEF TagBlock
  <2>2. file_pos \in Int /\ FILE_BLOCK_SZ \in Nat \ {0}
    BY SizesPositive DEF IInv, Types
  <2>3. BytesLeft' < BytesLeft
    BY <2>1, <2>2 DEF BytesLeft
  <2> QED BY <2>1, <2>3 DEF Stage
<1>3. CASE Damage
  <2>1. /\ pc = "verify" /\ pc' = "verify" /\ read_pos' = read_pos /\ faults = {} /\ faults' # {}
        /\ DOMAIN file_tagged' = DOMAIN file_tagged
    BY <1>3 DEF Damage, Fault, check
  <2>2. Available' = Available /\ Available \in Int
    <3>1. Length(file_tagged) \in Nat /\ read_pos \in 0..Length(file_tagged)
      BY DEF IInv, Types, IsArray
    <3> QED BY <2>1, <3>1 DEF Available, Length
  <2>3. BytesLeft' < BytesLeft
    BY <2>1, <2>2 DEF BytesLeft
  <2> QED BY <2>1, <2>3 DEF Stage
<1>4. CASE VerifyBlock
  <2>1. /\ pc = "verify" /\ pc' \in {"verify", "outcome"} /\ file_tagged' = file_tagged
        /\ faults' = faults /\ Got > 0 /\ read_pos' = read_pos + Got
    BY <1>4 DEF VerifyBlock, Fetch
  <2>2. /\ Got \in Nat /\ Length(file_tagged) \in Nat /\ read_pos \in Nat
    <3>1. Got \in 0..BUF_SZ /\ BUF_SZ \in Nat /\ Length(file_tagged) \in Nat /\ read_pos \in Nat
      BY <2>1, NextRead, SizesPositive DEF IInv
    <3> QED BY <3>1
  <2>3. CASE pc' = "verify"
    <3>1. Available' < Available /\ Available \in Int /\ Available' \in Int
      <4> HIDE DEF Got, Length
      <4> QED BY <2>1, <2>2 DEF Available
    <3>2. BytesLeft' < BytesLeft
      BY <2>1, <2>3, <3>1 DEF BytesLeft
    <3> QED BY <2>1, <2>3, <3>2 DEF Stage
  <2>4. CASE pc' = "outcome"
    BY <2>1, <2>4 DEF Stage
  <2> QED BY <2>1, <2>3, <2>4
<1> QED BY <1>1, <1>2, <1>3, <1>4 DEF Next

Nearer == <<<<Stage', BytesLeft'>>, <<Stage, BytesLeft>>>> \in Below

\* Every step goes to a later stage of the program, or leaves fewer bytes to tag
\* or verify: neither loop can run forever, however large the file, and whatever
\* fails (week3.c:104-140, 169-198).
THEOREM EveryStepNearsTheEnd ==
    /\ IsWellFoundedOn(Below, Nat \X Nat)
    /\ Spec => [][Nearer]_vars
<1>1. IInv => Stage \in Nat /\ BytesLeft \in Nat
  BY BytesLeftNat
<1>2. IInv' => (Stage \in Nat /\ BytesLeft \in Nat)'
  BY <1>1, PTL
<1>3. IInv /\ IInv' /\ [Next]_vars => [Nearer]_vars
  <2> SUFFICES ASSUME IInv, IInv', Next PROVE Nearer
    OBVIOUS
  <2>1. Stage \in Nat /\ BytesLeft \in Nat
    BY <1>1
  <2>2. Stage' \in Nat /\ BytesLeft' \in Nat
    BY <1>2
  <2>3. Stage' < Stage \/ (Stage' = Stage /\ BytesLeft' < BytesLeft)
    BY StepsDescend
  <2> HIDE DEF Stage, BytesLeft
  <2> QED BY <2>1, <2>2, <2>3, BelowIs DEF Nearer
<1>4. Spec => [][Nearer]_vars
  BY <1>3, Invariance, PTL DEF Spec
<1> QED BY <1>4, BelowIsWellFounded
=============================================================================
