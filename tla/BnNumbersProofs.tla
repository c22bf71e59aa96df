-------------------------- MODULE BnNumbersProofs --------------------------
(***************************************************************************)
(* Facts about the numbers and lengths of BnNumbers, for every word size,  *)
(* every radix and every bound, and about the arrays that spell numbers:   *)
(* what the proofs about Bignum and BnWords rest on.                       *)
(***************************************************************************)
EXTENDS BnNumbers, FiniteSetTheorems, WellFoundedInduction, TLAPS

\* Every nonempty set of naturals has a least element.
LEMMA LeastElement ==
    ASSUME NEW S, S \subseteq Nat, S # {}
    PROVE  \E m \in S : \A y \in S : m <= y
<1> DEFINE less == {ss \in Nat \X Nat : ss[1] < ss[2]}
<1>1. IsWellFoundedOn(less, Nat)
  BY NatLessThanWellFounded DEF OpToRel
<1>2. PICK m \in S : \A y \in S : ~ (<<y, m>> \in less)
  BY <1>1, WFMin
<1>3. ASSUME NEW y \in S PROVE m <= y
  <2>1. ~ (<<y, m>> \in less)
    BY <1>2
  <2>2. <<y, m>> \in Nat \X Nat /\ <<y, m>>[1] = y /\ <<y, m>>[2] = m
    OBVIOUS
  <2>3. ~ (y < m)
    BY <2>1, <2>2
  <2>4. QED
    BY <2>3
<1>4. QED
  BY <1>3

\* What Min returns on the sets of naturals it is used on.
LEMMA MinFact ==
    ASSUME NEW S, S \subseteq Nat, S # {}
    PROVE  Min(S) \in S /\ \A y \in S : Min(S) <= y
BY LeastElement DEF Min

\* What Max returns on a nonempty set of naturals with an upper bound.
LEMMA MaxFact ==
    ASSUME NEW n \in Nat, NEW S, S \subseteq 0..n, S # {}
    PROVE  Max(S) \in S /\ \A y \in S : Max(S) >= y
<1> DEFINE T == {k \in 0..n : n - k \in S}
<1>1. T \subseteq Nat /\ T # {}
  <2>1. PICK s \in S : TRUE
    OBVIOUS
  <2>2. n - s \in 0..n /\ n - (n - s) = s
    BY <2>1
  <2>3. QED
    BY <2>1, <2>2
<1>2. PICK m \in T : \A y \in T : m <= y
  BY <1>1, LeastElement
<1>3. n - m \in S
  BY <1>2
<1>4. ASSUME NEW y \in S PROVE n - m >= y
  <2>1. n - y \in T
    BY n - (n - y) = y
  <2>2. QED
    BY <2>1, <1>2
<1>5. QED
  BY <1>3, <1>4 DEF Max

----------------------------------------------------------------------------
\* The powers of every base in use are positive.
LEMMA PowerPositive ==
    ASSUME NEW r \in Radixes \cup {Base}, NEW n \in 0..MaxPower
    PROVE  Power[r][n] \in Nat \ {0}
<1> USE SizeAssumption DEF MaxPower
<1>1. r \in Nat /\ r >= 2
  OBVIOUS
<1>2. \A k \in 0..MaxPower : Power[r][k] \in Nat
  BY PowerAssumption
<1> DEFINE Bad == {k \in 0..MaxPower : Power[r][k] = 0}
<1>0. Bad \subseteq Nat
  OBVIOUS
<1>3. ASSUME Bad # {} PROVE FALSE
  <2> HIDE DEF Bad
  <2>1. PICK m \in Bad : \A y \in Bad : m <= y
    BY <1>3, <1>0, LeastElement
  <2> USE DEF Bad
  <2>2. m # 0
    BY <2>1, PowerAssumption
  <2>3. m - 1 \in 0 .. (MaxPower - 1) /\ m - 1 \in 0..MaxPower /\ (m - 1) + 1 = m
    BY <2>1, <2>2
  <2>4. Power[r][m] = r * Power[r][m - 1]
    BY <2>3, PowerAssumption
  <2>5. Power[r][m - 1] # 0
    BY <2>1, <2>3
  <2>6. Power[r][m] # 0
    BY <2>4, <2>5, <1>1, <1>2, <2>3
  <2>7. QED
    BY <2>6, <2>1
<1>4. QED
  BY <1>2, <1>3

\* The weights of the words, in the form the lemmas below use.
LEMMA WeightFacts ==
    /\ MaxPower \in Nat /\ MaxWords \in 1..MaxPower
    /\ \A n \in 0..MaxPower : Weight[n] \in Nat \ {0}
    /\ Weight[0] = 1
    /\ \A n \in 0 .. (MaxPower - 1) : Weight[n + 1] = Base * Weight[n]
BY PowerPositive, PowerAssumption, SizeAssumption DEF MaxPower, Weight

\* One more word at least doubles the weight.
LEMMA WeightDoubles ==
    ASSUME NEW n \in 0 .. (MaxPower - 1)
    PROVE  Weight[n] + Weight[n] <= Weight[n + 1]
<1>1. n \in 0..MaxPower /\ Base \in Nat /\ Base >= 2
  BY WeightFacts, SizeAssumption
<1>2. Weight[n] \in Nat /\ Weight[n + 1] = Base * Weight[n]
  BY <1>1, WeightFacts
<1>3. ASSUME NEW w \in Nat, NEW c \in Nat, c >= 2 PROVE w + w <= c * w
  <2>1. c * w = w + w + (c - 2) * w
    BY <1>3
  <2>2. (c - 2) * w >= 0
    BY <1>3
  <2>3. QED
    BY <2>1, <2>2
<1>4. QED
  BY <1>1, <1>2, <1>3

\* More words weigh no less.
LEMMA WeightMonotone ==
    ASSUME NEW m \in 0..MaxPower, NEW n \in 0..MaxPower, m <= n
    PROVE  Weight[m] <= Weight[n]
<1> USE WeightFacts
<1> DEFINE Bad == {k \in 0..MaxPower : m <= k /\ Weight[k] < Weight[m]}
<1>0. Bad \subseteq Nat
  OBVIOUS
<1>1. ASSUME Bad # {} PROVE FALSE
  <2> HIDE DEF Bad
  <2>1. PICK k \in Bad : \A y \in Bad : k <= y
    BY <1>1, <1>0, LeastElement
  <2> USE DEF Bad
  <2>2. k # m /\ k - 1 \in 0 .. (MaxPower - 1) /\ (k - 1) + 1 = k /\ m <= k - 1
    BY <2>1
  <2>3. Weight[k - 1] + Weight[k - 1] <= Weight[k]
    BY <2>2, WeightDoubles
  <2>4. Weight[k - 1] >= Weight[m]
    BY <2>1, <2>2
  <2>5. QED
    BY <2>1, <2>2, <2>3, <2>4
<1>2. QED
  BY <1>1

\* The weight of a product's words.
LEMMA WeightSum ==
    ASSUME NEW m \in 0..MaxPower, NEW n \in 0..MaxPower, m + n <= MaxPower
    PROVE  Weight[m + n] = Weight[m] * Weight[n]
<1> USE WeightFacts
<1> DEFINE Bad == {k \in 0..n : Weight[m + k] # Weight[m] * Weight[k]}
<1>0. Bad \subseteq Nat
  OBVIOUS
<1>1. ASSUME Bad # {} PROVE FALSE
  <2> HIDE DEF Bad
  <2>1. PICK k \in Bad : \A y \in Bad : k <= y
    BY <1>1, <1>0, LeastElement
  <2> USE DEF Bad
  <2>2. k # 0
    BY <2>1
  <2>3. /\ k - 1 \in 0..n /\ k - 1 \in 0 .. (MaxPower - 1) /\ (k - 1) + 1 = k
        /\ m + (k - 1) \in 0 .. (MaxPower - 1) /\ (m + (k - 1)) + 1 = m + k
    BY <2>1, <2>2
  <2>4. Weight[m + (k - 1)] = Weight[m] * Weight[k - 1]
    BY <2>1, <2>3
  <2>5. Weight[k] = Base * Weight[k - 1] /\ Weight[m + k] = Base * Weight[m + (k - 1)]
    BY <2>3
  <2>6. Base \in Nat /\ Weight[m] \in Nat /\ Weight[k - 1] \in Nat
    BY <2>3, SizeAssumption
  <2>7. Base * (Weight[m] * Weight[k - 1]) = Weight[m] * (Base * Weight[k - 1])
    BY <2>6
  <2>8. QED
    BY <2>1, <2>4, <2>5, <2>7
<1>2. QED
  BY <1>1

----------------------------------------------------------------------------
\* A number that fits in n words takes at most n, and fits in those it takes.
LEMMA WordsOfFits ==
    ASSUME NEW n \in 1..MaxWords, NEW x \in Nat, x < Weight[n]
    PROVE  /\ WordsOf(x) \in 1..n /\ x < Weight[WordsOf(x)]
           /\ \A k \in 1..MaxWords : x < Weight[k] => WordsOf(x) <= k
<1> DEFINE S == {k \in 1..MaxWords : x < Weight[k]}
<1>1. S \subseteq Nat /\ S # {} /\ n \in S
  OBVIOUS
<1> HIDE DEF S
<1>2. Min(S) \in S /\ \A y \in S : Min(S) <= y
  BY <1>1, MinFact
<1> USE DEF S
<1>3. WordsOf(x) = Min(S)
  BY DEF WordsOf
<1>4. QED
  BY <1>1, <1>2, <1>3, SizeAssumption

\* The buffer bn_init allocates holds every numeral of its length, within the
\* bound.
LEMMA NumeralFits ==
    ASSUME NEW radix \in Radixes, NEW slen \in 0..MaxDigits, slen > 0,
           Power[radix][slen] <= Weight[MaxWords],
           NEW v \in 0 .. (Power[radix][slen] - 1)
    PROVE  /\ get_blen_from_slen(slen, radix) \in 1..MaxWords
           /\ v \in Nat /\ v < Weight[get_blen_from_slen(slen, radix)]
<1> DEFINE S == {k \in 1..MaxWords : Weight[k] >= Power[radix][slen]}
<1>1. Power[radix][slen] \in Nat
  BY PowerPositive, SizeAssumption DEF MaxPower
<1>2. S \subseteq Nat /\ MaxWords \in S
  BY SizeAssumption
<1> HIDE DEF S
<1>3. Min(S) \in S
  BY <1>2, MinFact
<1> USE DEF S
<1>4. get_blen_from_slen(slen, radix) = Min(S)
  BY DEF get_blen_from_slen
<1>5. \A k \in 1..MaxWords : Weight[k] \in Nat
  BY WeightFacts
<1>6. QED
  BY <1>1, <1>3, <1>4, <1>5

\* A number below the weight of n words is not changed by keeping n words.
LEMMA LowWords ==
    ASSUME NEW n \in 0..MaxPower, NEW x \in Nat
    PROVE  /\ x % Weight[n] \in Nat /\ x % Weight[n] < Weight[n]
           /\ x < Weight[n] => x % Weight[n] = x
<1>1. ASSUME NEW w \in Nat \ {0}
      PROVE  /\ x % w \in Nat /\ x % w < w
             /\ x < w => x % w = x
  OBVIOUS
<1>2. Weight[n] \in Nat \ {0}
  BY WeightFacts
<1>3. QED
  BY <1>1, <1>2

\* An addition that stays in its buffer gives a length within that buffer
\* that counts every word of both operands and every carry.
LEMMA SumFits ==
    ASSUME NEW xlen \in 1..MaxWords, NEW ylen \in 1..MaxWords,
           xlen + 1 <= MaxWords,
           NEW x \in Nat, x < Weight[xlen], NEW y \in Nat, y < Weight[ylen],
           ~SumOverruns(x, xlen, y, ylen)
    PROVE  /\ SumLen(x, xlen, y, ylen) \in 1 .. (xlen + 1)
           /\ x + y < Weight[SumLen(x, xlen, y, ylen)]
<1> DEFINE wlen == xlen + 1
           C == CarriesInto(x, y, wlen)
           S == {xlen - 1, ylen - 1} \cup C
           L == 1 + Max(S)
<1>1. ylen <= wlen /\ wlen \notin C
  BY DEF SumOverruns, required_capacity
<1>2. C \subseteq 1..xlen
  BY <1>1 DEF CarriesInto
<1>3. S \subseteq 0..xlen /\ S # {} /\ xlen - 1 \in S /\ ylen - 1 \in S
  BY <1>1, <1>2
<1>4. Max(S) \in S /\ \A k \in S : Max(S) >= k
  <2> HIDE DEF S
  <2>1. xlen \in Nat
    OBVIOUS
  <2>2. QED
    BY <2>1, <1>3, MaxFact
<1>5. L \in 1..wlen /\ xlen <= L /\ ylen <= L
  BY <1>3, <1>4
<1>6. L \notin C
  <2>1. ASSUME L \in C PROVE FALSE
    <3>1. Max(S) >= L
      BY <2>1, <1>4
    <3>2. Max(S) \in Nat
      BY <1>3, <1>4
    <3>3. QED
      BY <3>1, <3>2
  <2>2. QED
    BY <2>1
<1>7. L \in 0..MaxPower /\ xlen \in 0..MaxPower /\ ylen \in 0..MaxPower
  <2> HIDE DEF L
  <2>1. QED
    BY <1>5, WeightFacts
<1>8. x < Weight[L] /\ y < Weight[L]
  <2> HIDE DEF L
  <2>1. Weight[xlen] <= Weight[L] /\ Weight[ylen] <= Weight[L]
    BY <1>5, <1>7, WeightMonotone
  <2>2. Weight[xlen] \in Nat /\ Weight[ylen] \in Nat /\ Weight[L] \in Nat
    BY <1>7, WeightFacts
  <2>3. QED
    BY <2>1, <2>2
<1>9. x % Weight[L] = x /\ y % Weight[L] = y
  BY <1>7, <1>8, LowWords
<1>10. x + y < Weight[L]
  <2> HIDE DEF L
  <2>1. ~ ((x % Weight[L]) + (y % Weight[L]) >= Weight[L])
    BY <1>5, <1>6 DEF CarriesInto
  <2>2. Weight[L] \in Nat
    BY <1>7, WeightFacts
  <2>3. QED
    BY <2>1, <2>2, <1>9
<1>11. SumLen(x, xlen, y, ylen) = L
  BY DEF SumLen, required_capacity
<1>12. QED
  BY <1>5, <1>10, <1>11

\* When neither operand has leading zero words and y is no larger than x, the
\* addition stays in its buffer: the comment "Cannot overflow" (bignum.c:273)
\* is true of such numbers.
LEMMA SumStaysInside ==
    ASSUME NEW xlen \in 1..MaxWords, NEW ylen \in 1..MaxWords,
           xlen + 1 <= MaxWords,
           NEW x \in Nat, x < Weight[xlen], NEW y \in Nat, y <= x,
           ylen = WordsOf(y)
    PROVE  ~SumOverruns(x, xlen, y, ylen)
<1> DEFINE wlen == xlen + 1
<1>1. xlen \in 0 .. (MaxPower - 1) /\ wlen \in 0..MaxPower /\ xlen \in 0..MaxPower
  BY WeightFacts
<1>2. Weight[xlen] \in Nat /\ Weight[wlen] \in Nat /\ Weight[xlen] + Weight[xlen] <= Weight[wlen]
  BY <1>1, WeightFacts, WeightDoubles
<1>3. ylen <= xlen
  BY <1>2, WordsOfFits
<1>4. x < Weight[wlen] /\ y < Weight[wlen] /\ x + y < Weight[wlen]
  BY <1>2
<1>5. x % Weight[wlen] = x /\ y % Weight[wlen] = y
  BY <1>1, <1>4, LowWords
<1>6. wlen \notin CarriesInto(x, y, wlen)
  BY <1>2, <1>4, <1>5 DEF CarriesInto
<1>7. QED
  BY <1>3, <1>6 DEF SumOverruns, required_capacity

\* Then the sum has no leading zero words either.
LEMMA SumStaysNormal ==
    ASSUME NEW xlen \in 1..MaxWords, NEW ylen \in 1..MaxWords,
           xlen + 1 <= MaxWords,
           NEW x \in Nat, x < Weight[xlen], xlen = WordsOf(x),
           NEW y \in Nat, y <= x, ylen = WordsOf(y)
    PROVE  SumLen(x, xlen, y, ylen) <= WordsOf(x + y)
<1> DEFINE wlen == xlen + 1
           C == CarriesInto(x, y, wlen)
           S == {xlen - 1, ylen - 1} \cup C
           L == 1 + Max(S)
<1>1. xlen \in 0 .. (MaxPower - 1) /\ wlen \in 0..MaxPower /\ xlen \in 0..MaxPower
      /\ wlen \in 1..MaxWords
  BY WeightFacts
<1>2. Weight[xlen] \in Nat /\ Weight[wlen] \in Nat /\ Weight[xlen] + Weight[xlen] <= Weight[wlen]
  BY <1>1, WeightFacts, WeightDoubles
<1>3. ylen <= xlen /\ x + y < Weight[wlen] /\ x + y \in Nat
  BY <1>2, WordsOfFits
<1>4. WordsOf(x + y) \in 1..wlen /\ x + y < Weight[WordsOf(x + y)]
  BY <1>1, <1>3, WordsOfFits
<1>5. WordsOf(x + y) \in 0..MaxPower /\ Weight[WordsOf(x + y)] \in Nat
  BY <1>1, <1>4, WeightFacts
<1>6. xlen <= WordsOf(x + y)
  <2>1. x < Weight[WordsOf(x + y)]
    BY <1>3, <1>4, <1>5
  <2>2. WordsOf(x + y) \in 1..MaxWords
    <3> HIDE DEF wlen
    <3>1. QED
      BY <1>1, <1>4, SizeAssumption
  <2>3. QED
    BY <2>1, <2>2, WordsOfFits
<1>7. S \subseteq 0..wlen /\ S # {} /\ wlen \in Nat
  BY <1>3 DEF CarriesInto
<1>8. Max(S) \in S
  <2> HIDE DEF S, wlen
  <2>1. QED
    BY ONLY <1>7, MaxFact, ZenonT(30)
<1>9. CASE xlen \in C
  <2>1. x % Weight[xlen] = x /\ y % Weight[xlen] = y
    BY <1>1, <1>2, LowWords
  <2>2. x + y >= Weight[xlen]
    BY <1>2, <1>9, <2>1 DEF CarriesInto
  <2>3. WordsOf(x + y) # xlen
    BY <1>2, <1>3, <1>4, <2>2
  <2>4. wlen \notin C
    BY SumStaysInside DEF SumOverruns, required_capacity
  <2>5. Max(S) \in 0..xlen
    BY <1>3, <1>8, <2>4 DEF CarriesInto
  <2>6. QED
    BY <1>4, <1>6, <2>3, <2>5 DEF SumLen, required_capacity
<1>10. CASE xlen \notin C
  <2>1. wlen \notin C
    BY SumStaysInside DEF SumOverruns, required_capacity
  <2>2. Max(S) \in 0 .. (xlen - 1)
    BY <1>3, <1>8, <1>10, <2>1 DEF CarriesInto
  <2>3. QED
    BY <1>4, <1>6, <2>2 DEF SumLen, required_capacity
<1>11. QED
  BY <1>9, <1>10

\* A product has a length within its buffer, in which it fits.
LEMMA ProductFits ==
    ASSUME NEW xlen \in 1..MaxWords, NEW ylen \in 1..MaxWords,
           xlen + ylen <= MaxWords,
           NEW x \in Nat, x < Weight[xlen], NEW y \in Nat, y < Weight[ylen]
    PROVE  /\ x * y \in Nat
           /\ ProductLen(x * y, xlen + ylen) \in 1 .. (xlen + ylen)
           /\ x * y < Weight[ProductLen(x * y, xlen + ylen)]
<1>1. xlen \in 0..MaxPower /\ ylen \in 0..MaxPower /\ xlen + ylen <= MaxPower
  BY WeightFacts
<1>2. Weight[xlen] \in Nat /\ Weight[ylen] \in Nat
  BY <1>1, WeightFacts
<1>3. ASSUME NEW v \in Nat, NEW w \in Nat, x < v, y < w PROVE x * y < v * w
  <2>1. x * y <= x * w
    BY <1>3
  <2>2. x * w < v * w
    BY <1>3
  <2>3. QED
    BY <2>1, <2>2
<1>4. x * y < Weight[xlen + ylen]
  BY <1>1, <1>2, <1>3, WeightSum
<1>5. x * y \in Nat
  OBVIOUS
<1>6. CASE x * y >= Weight[xlen + ylen - 1]
  BY <1>4, <1>5, <1>6 DEF ProductLen
<1>7. CASE ~ (x * y >= Weight[xlen + ylen - 1])
  <2>1. xlen + ylen - 1 \in 0..MaxPower
    BY <1>1, WeightFacts
  <2>2. Weight[xlen + ylen - 1] \in Nat
    BY <2>1, WeightFacts
  <2>3. x * y < Weight[xlen + ylen - 1]
    BY <1>5, <1>7, <2>2
  <2>4. QED
    BY <1>5, <1>7, <2>3 DEF ProductLen
<1>8. QED
  BY <1>6, <1>7

----------------------------------------------------------------------------
(* Sums.                                                                   *)

\* SumFunction folds over a set by a recursive function on its subsets, which
\* takes the elements in an unknown order.
Picked(s) == CHOOSE x \in s : TRUE
FoldStep(f, g, s) == IF s = {} THEN 0 ELSE f[Picked(s)] + g[s \ {Picked(s)}]
Folds(f, S, g) == g = [s \in SUBSET S |-> FoldStep(f, g, s)]

\* g unfolds on the subsets of at most n elements.
FoldsUpTo(f, S, g, n) ==
    /\ g = [s \in SUBSET S |-> g[s]]
    /\ \A s \in SUBSET S : Cardinality(s) <= n => g[s] = FoldStep(f, g, s)

LEMMA PickedFacts ==
    ASSUME NEW S, IsFiniteSet(S), NEW s \in SUBSET S, s # {}
    PROVE  /\ Picked(s) \in s /\ s \ {Picked(s)} \in SUBSET S
           /\ Cardinality(s) \in Nat \ {0}
           /\ Cardinality(s \ {Picked(s)}) = Cardinality(s) - 1
<1>1. IsFiniteSet(s)
  BY FS_Subset
<1>2. Picked(s) \in s
  BY DEF Picked
<1>3. Cardinality(s) \in Nat /\ Cardinality(s) # 0
  BY <1>1, FS_CardinalityType, FS_EmptySet
<1>4. Cardinality(s \ {Picked(s)}) = Cardinality(s) - 1
  BY <1>1, <1>2, FS_RemoveElement
<1> QED BY <1>2, <1>3, <1>4

LEMMA FoldExists ==
    ASSUME NEW f, NEW S, IsFiniteSet(S)
    PROVE  \E g : Folds(f, S, g)
<1>1. ASSUME NEW n \in Nat PROVE \E g : FoldsUpTo(f, S, g, n)
  <2> DEFINE Bad == {k \in Nat : ~ \E g : FoldsUpTo(f, S, g, k)}
  <2>1. SUFFICES ASSUME Bad # {} PROVE FALSE
    OBVIOUS
  <2>2. PICK m \in Bad : \A y \in Bad : m <= y
    <3>1. Bad \subseteq Nat
      OBVIOUS
    <3> HIDE DEF Bad
    <3> QED BY <2>1, <3>1, LeastElement
  <2>3. m \in Nat /\ ~ \E g : FoldsUpTo(f, S, g, m)
    BY <2>2
  <2>4. CASE m = 0
    <3> DEFINE g == [s \in SUBSET S |-> 0]
    <3>1. ASSUME NEW s \in SUBSET S, Cardinality(s) <= 0 PROVE s = {}
      <4>1. SUFFICES ASSUME s # {} PROVE FALSE
        OBVIOUS
      <4>2. Cardinality(s) \in Nat \ {0}
        BY <4>1, PickedFacts
      <4> QED BY <3>1, <4>2
    <3>2. g = [s \in SUBSET S |-> g[s]] /\ \A s \in SUBSET S : g[s] = 0
      OBVIOUS
    <3> HIDE DEF g
    <3>3. FoldsUpTo(f, S, g, 0)
      BY <3>1, <3>2 DEF FoldsUpTo, FoldStep
    <3> QED BY <2>3, <2>4, <3>3
  <2>5. CASE m # 0
    <3>1. m - 1 \in Nat /\ m - 1 \notin Bad
      BY <2>2, <2>3, <2>5
    <3>2. PICK h : FoldsUpTo(f, S, h, m - 1)
      BY <3>1
    <3> DEFINE g == [s \in SUBSET S |-> FoldStep(f, h, s)]
    <3>3. g = [s \in SUBSET S |-> g[s]] /\ \A s \in SUBSET S : g[s] = FoldStep(f, h, s)
      OBVIOUS
    <3> HIDE DEF g
    <3>4. ASSUME NEW s \in SUBSET S, Cardinality(s) <= m PROVE g[s] = FoldStep(f, g, s)
      <4>1. CASE s = {}
        BY <3>3, <4>1 DEF FoldStep
      <4>2. CASE s # {}
        <5>1. /\ s \ {Picked(s)} \in SUBSET S
              /\ Cardinality(s \ {Picked(s)}) <= m - 1
          BY <2>3, <3>4, <4>2, PickedFacts
        <5>2. g[s \ {Picked(s)}] = h[s \ {Picked(s)}]
          BY <3>2, <3>3, <5>1 DEF FoldsUpTo
        <5> QED BY <3>3, <4>2, <5>2 DEF FoldStep
      <4> QED BY <4>1, <4>2
    <3>5. FoldsUpTo(f, S, g, m)
      BY <3>3, <3>4 DEF FoldsUpTo
    <3> QED BY <2>3, <3>5
  <2> QED BY <2>4, <2>5
<1>2. Cardinality(S) \in Nat
  BY FS_CardinalityType
<1>3. PICK g : FoldsUpTo(f, S, g, Cardinality(S))
  BY <1>1, <1>2
<1>4. \A s \in SUBSET S : g[s] = FoldStep(f, g, s)
  BY <1>3, FS_Subset DEF FoldsUpTo
<1>5. [s \in SUBSET S |-> g[s]] = [s \in SUBSET S |-> FoldStep(f, g, s)]
  BY <1>4
<1>6. Folds(f, S, g)
  BY <1>3, <1>5 DEF Folds, FoldsUpTo
<1> QED BY <1>6

LEMMA SumIsFold ==
    ASSUME NEW f, NEW S, IsFiniteSet(S)
    PROVE  \E g : Folds(f, S, g) /\ SumFunctionOnSet(f, S) = g[S]
<1> DEFINE iter[s \in SUBSET S] ==
             IF s = {} THEN 0
             ELSE LET x == CHOOSE y \in s : TRUE
                  IN  f[x] + iter[s \ {x}]
<1>1. SumFunctionOnSet(f, S) = iter[S]
  BY DEF SumFunctionOnSet, FoldFunctionOnSet, MapThenFoldSet
<1>2. PICK g : Folds(f, S, g)
  BY FoldExists
<1>3. g = [s \in SUBSET S |->
            IF s = {} THEN 0
            ELSE LET x == CHOOSE y \in s : TRUE
                 IN  f[x] + g[s \ {x}]]
  BY <1>2 DEF Folds, FoldStep, Picked
<1>4. iter = [s \in SUBSET S |->
            IF s = {} THEN 0
            ELSE LET x == CHOOSE y \in s : TRUE
                 IN  f[x] + iter[s \ {x}]]
  BY <1>3 DEF iter
<1> HIDE DEF iter
<1>5. iter = [s \in SUBSET S |-> FoldStep(f, iter, s)]
  BY <1>4 DEF FoldStep, Picked
<1> QED BY <1>1, <1>5 DEF Folds

\* The functions that fold over two sets agree on the subsets of both.
LEMMA FoldsAgree ==
    ASSUME NEW f, NEW S, IsFiniteSet(S), NEW T, NEW g, Folds(f, S, g), NEW h, Folds(f, T, h),
           NEW s \in SUBSET S, s \in SUBSET T
    PROVE  g[s] = h[s]
<1> DEFINE Bad == {n \in Nat : \E t \in SUBSET S : /\ t \in SUBSET T /\ Cardinality(t) = n
                                                   /\ g[t] # h[t]}
<1>1. SUFFICES ASSUME g[s] # h[s] PROVE FALSE
  OBVIOUS
<1>2. Cardinality(s) \in Nat
  BY FS_Subset, FS_CardinalityType
<1>3. Bad # {} /\ Bad \subseteq Nat
  BY <1>1, <1>2
<1>4. PICK n \in Bad : \A y \in Bad : n <= y
  <2> HIDE DEF Bad
  <2> QED BY <1>3, LeastElement
<1>5. PICK t \in SUBSET S : t \in SUBSET T /\ Cardinality(t) = n /\ g[t] # h[t]
  BY <1>4
<1>6. g[t] = FoldStep(f, g, t) /\ h[t] = FoldStep(f, h, t)
  BY <1>5 DEF Folds
<1>7. t # {}
  BY <1>5, <1>6 DEF FoldStep
<1> DEFINE u == t \ {Picked(t)}
<1>8. u \in SUBSET S /\ u \in SUBSET T /\ Cardinality(u) = n - 1 /\ n \in Nat \ {0}
  BY <1>5, <1>7, PickedFacts
<1>9. g[u] = h[u]
  <2>1. n - 1 \in Nat /\ n - 1 \notin Bad
    BY <1>4, <1>8
  <2> QED BY <1>8, <2>1
<1> QED BY <1>5, <1>6, <1>9 DEF FoldStep

LEMMA SumUnfolds ==
    ASSUME NEW f, NEW S, IsFiniteSet(S)
    PROVE  /\ S = {} => SumFunctionOnSet(f, S) = 0
           /\ S # {} => SumFunctionOnSet(f, S)
                        = f[Picked(S)] + SumFunctionOnSet(f, S \ {Picked(S)})
<1>1. PICK g : Folds(f, S, g) /\ SumFunctionOnSet(f, S) = g[S]
  BY SumIsFold
<1>2. g[S] = FoldStep(f, g, S)
  BY <1>1 DEF Folds
<1>3. ASSUME S # {} PROVE g[S \ {Picked(S)}] = SumFunctionOnSet(f, S \ {Picked(S)})
  <2> DEFINE T == S \ {Picked(S)}
  <2>1. IsFiniteSet(T) /\ T \in SUBSET S /\ T \in SUBSET T
    BY FS_RemoveElement
  <2> HIDE DEF T
  <2>2. PICK h : Folds(f, T, h) /\ SumFunctionOnSet(f, T) = h[T]
    BY <2>1, SumIsFold
  <2>3. g[T] = h[T]
    BY <1>1, <2>1, <2>2, FoldsAgree
  <2> QED BY <2>2, <2>3 DEF T
<1> QED BY <1>1, <1>2, <1>3 DEF FoldStep

\* A sum of integers is an integer, and any of its terms may be taken first.
SumsWell(f, S) ==
    /\ SumFunctionOnSet(f, S) \in Int
    /\ \A x \in S : SumFunctionOnSet(f, S) = f[x] + SumFunctionOnSet(f, S \ {x})

LEMMA SumOfTerms ==
    ASSUME NEW f, NEW S, IsFiniteSet(S), \A x \in S : f[x] \in Int
    PROVE  SumsWell(f, S)
<1> DEFINE Bad == {n \in Nat : \E T \in SUBSET S : Cardinality(T) = n /\ ~SumsWell(f, T)}
<1>1. SUFFICES ASSUME ~SumsWell(f, S) PROVE FALSE
  OBVIOUS
<1>2. Bad # {} /\ Bad \subseteq Nat
  BY <1>1, FS_CardinalityType
<1>3. PICK n \in Bad : \A y \in Bad : n <= y
  <2> HIDE DEF Bad
  <2> QED BY <1>2, LeastElement
<1>4. PICK T \in SUBSET S : Cardinality(T) = n /\ ~SumsWell(f, T)
  BY <1>3
<1>5. IsFiniteSet(T) /\ n \in Nat
  BY <1>4, FS_Subset
<1>6. ASSUME NEW U \in SUBSET S, Cardinality(U) = n - 1, n # 0 PROVE SumsWell(f, U)
  <2>1. n - 1 \in Nat /\ n - 1 \notin Bad
    BY <1>3, <1>5, <1>6
  <2> QED BY <1>6, <2>1
<1>7. ASSUME NEW U \in SUBSET T, NEW x \in U
      PROVE  IsFiniteSet(U \ {x}) /\ Cardinality(U \ {x}) = Cardinality(U) - 1
             /\ U \ {x} \in SUBSET S
  BY <1>5, FS_Subset, FS_RemoveElement
<1>8. T # {}
  <2>1. SUFFICES ASSUME T = {} PROVE FALSE
    OBVIOUS
  <2>2. SumFunctionOnSet(f, T) = 0
    BY <1>5, <2>1, SumUnfolds
  <2> QED BY <1>4, <2>1, <2>2 DEF SumsWell
<1> DEFINE c == Picked(T)
<1>9. /\ c \in T /\ n # 0 /\ f[c] \in Int
      /\ SumFunctionOnSet(f, T) = f[c] + SumFunctionOnSet(f, T \ {c})
  <2>1. c \in T /\ n # 0
    BY <1>4, <1>8, PickedFacts
  <2> QED BY <1>5, <1>8, <2>1, SumUnfolds
<1> HIDE DEF c
<1>10. SumsWell(f, T \ {c})
  BY <1>4, <1>6, <1>7, <1>9
<1>11. SumFunctionOnSet(f, T) \in Int
  BY <1>9, <1>10 DEF SumsWell
<1>12. ASSUME NEW x \in T
       PROVE  SumFunctionOnSet(f, T) = f[x] + SumFunctionOnSet(f, T \ {x})
  <2>1. CASE x = c
    BY <1>9, <2>1
  <2>2. CASE x # c
    <3> DEFINE rest == SumFunctionOnSet(f, (T \ {c}) \ {x})
    <3>1. (T \ {c}) \ {x} = (T \ {x}) \ {c} /\ x \in T \ {c} /\ c \in T \ {x}
      BY <1>9, <2>2
    <3>2. SumsWell(f, T \ {x})
      BY <1>4, <1>6, <1>7, <1>9
    <3>3. SumFunctionOnSet(f, T \ {c}) = f[x] + rest
      BY <1>10, <3>1 DEF SumsWell
    <3>4. SumFunctionOnSet(f, T \ {x}) = f[c] + rest
      BY <3>1, <3>2 DEF SumsWell
    <3>5. f[x] \in Int /\ SumFunctionOnSet(f, T \ {x}) \in Int /\ SumFunctionOnSet(f, T \ {c}) \in Int
      BY <1>10, <3>2 DEF SumsWell
    <3>6. SumFunctionOnSet(f, T) = f[c] + SumFunctionOnSet(f, T \ {c})
      BY <1>9
    <3>7. rest \in Int
      <4>1. IsFiniteSet((T \ {c}) \ {x})
        BY <1>7, <3>1
      <4>3. SumsWell(f, (T \ {c}) \ {x})
        <5>0. T \ {c} \in SUBSET T /\ T \in SUBSET T
          OBVIOUS
        <5>1a. Cardinality(T \ {c}) = Cardinality(T) - 1
          BY <1>7, <1>9, <5>0
        <5>1b. /\ Cardinality((T \ {c}) \ {x}) = Cardinality(T \ {c}) - 1
               /\ (T \ {c}) \ {x} \in SUBSET S
          BY <1>7, <3>1, <5>0
        <5>1. Cardinality((T \ {c}) \ {x}) = n - 2 /\ (T \ {c}) \ {x} \in SUBSET S
          BY <1>4, <1>5, <5>1a, <5>1b
        <5>2. n - 2 \in Nat
          BY <4>1, <5>1, FS_CardinalityType
        <5>3. n - 2 \notin Bad
          BY <1>3, <1>5, <5>2
        <5> QED BY <5>1, <5>2, <5>3
      <4> QED BY <4>3 DEF SumsWell
    <3> HIDE DEF rest
    <3> QED BY <1>9, <3>3, <3>4, <3>5, <3>6, <3>7
  <2> QED BY <2>1, <2>2
<1> QED BY <1>4, <1>11, <1>12 DEF SumsWell

\* Sums of the same terms are equal.
LEMMA SumsAgree ==
    ASSUME NEW f, NEW g, NEW S, IsFiniteSet(S), \A x \in S : f[x] = g[x]
    PROVE  SumFunctionOnSet(f, S) = SumFunctionOnSet(g, S)
<1> DEFINE Differ(T) == SumFunctionOnSet(f, T) # SumFunctionOnSet(g, T)
           Bad == {n \in Nat : \E T \in SUBSET S : Cardinality(T) = n /\ Differ(T)}
<1>1. SUFFICES ASSUME Differ(S) PROVE FALSE
  OBVIOUS
<1>2. Bad # {} /\ Bad \subseteq Nat
  BY <1>1, FS_CardinalityType
<1>3. PICK n \in Bad : \A y \in Bad : n <= y
  <2> HIDE DEF Bad
  <2> QED BY <1>2, LeastElement
<1>4. PICK T \in SUBSET S : Cardinality(T) = n /\ Differ(T)
  BY <1>3
<1>5. IsFiniteSet(T) /\ n \in Nat
  BY <1>4, FS_Subset
<1>6. T # {}
  BY <1>4, <1>5, SumUnfolds
<1> DEFINE c == Picked(T)
           U == T \ {c}
<1>7. c \in T /\ U \in SUBSET S /\ Cardinality(U) = n - 1 /\ n - 1 \in Nat
  BY <1>4, <1>6, PickedFacts
<1>8. ~Differ(U)
  <2>1. n - 1 \notin Bad
    BY <1>3, <1>5, <1>7
  <2> QED BY <1>7, <2>1
<1>9. /\ SumFunctionOnSet(f, T) = f[c] + SumFunctionOnSet(f, U)
      /\ SumFunctionOnSet(g, T) = g[c] + SumFunctionOnSet(g, U)
  BY <1>5, <1>6, SumUnfolds
<1> HIDE DEF U, c
<1> QED BY <1>4, <1>7, <1>8, <1>9

\* The last term of a sum over an interval.
LEMMA SumExtends ==
    ASSUME NEW lo \in Int, NEW n \in Int, lo <= n, NEW f, DOMAIN f = lo..n,
           \A i \in lo..n : f[i] \in Int,
           NEW g, DOMAIN g = lo .. (n - 1), \A i \in lo .. (n - 1) : g[i] = f[i]
    PROVE  SumFunction(g) \in Int /\ SumFunction(f) = SumFunction(g) + f[n]
<1>1. (lo..n) \ {n} = lo .. (n - 1) /\ n \in lo..n
  OBVIOUS
<1>2. IsFiniteSet(lo..n) /\ IsFiniteSet(lo .. (n - 1))
  BY FS_Interval
<1>3. SumsWell(f, lo..n) /\ SumsWell(f, lo .. (n - 1))
  <2>1. \A i \in lo .. (n - 1) : f[i] \in Int
    OBVIOUS
  <2> QED BY <1>2, <2>1, SumOfTerms
<1>4. SumFunctionOnSet(g, lo .. (n - 1)) = SumFunctionOnSet(f, lo .. (n - 1))
  BY <1>2, SumsAgree
<1>5. SumFunctionOnSet(f, lo..n) = f[n] + SumFunctionOnSet(f, lo .. (n - 1))
  BY <1>1, <1>3 DEF SumsWell
<1>6. SumFunctionOnSet(f, lo .. (n - 1)) \in Int /\ f[n] \in Int
  BY <1>1, <1>3 DEF SumsWell
<1> QED BY <1>4, <1>5, <1>6 DEF SumFunction

LEMMA SumEmpty ==
    ASSUME NEW f, DOMAIN f = {}
    PROVE  SumFunction(f) = 0
BY FS_EmptySet, SumUnfolds DEF SumFunction

----------------------------------------------------------------------------
\* Induction over the numbers up to n, for a set.
LEMMA UpTo ==
    ASSUME NEW n \in Nat, NEW S, 0 \in S, \A k \in 0 .. (n - 1) : k \in S => k + 1 \in S
    PROVE  \A k \in 0..n : k \in S
<1> DEFINE Bad == {k \in 0..n : k \notin S}
<1>1. SUFFICES ASSUME Bad # {} PROVE FALSE
  OBVIOUS
<1>2. Bad \subseteq Nat
  OBVIOUS
<1>3. PICK m \in Bad : \A y \in Bad : m <= y
  <2> HIDE DEF Bad
  <2> QED BY <1>1, <1>2, LeastElement
<1>4. m \in 1..n /\ m - 1 \in 0 .. (n - 1) /\ (m - 1) + 1 = m
  BY <1>3
<1>5. m - 1 \notin Bad
  BY <1>3, <1>4
<1> QED BY <1>3, <1>4, <1>5

\* A sum over an interval may be taken over one that starts at 0.
LEMMA SumShifted ==
    ASSUME NEW lo \in Int, NEW n \in Nat, NEW f, DOMAIN f = lo .. (lo + n - 1),
           NEW g, DOMAIN g = 0 .. (n - 1),
           \A k \in 0 .. (n - 1) : f[lo + k] \in Int /\ g[k] = f[lo + k]
    PROVE  SumFunction(f) = SumFunction(g)
<1> DEFINE F(m) == [k \in lo .. (lo + m - 1) |-> f[k]]
           G(m) == [k \in 0 .. (m - 1) |-> g[k]]
           S == {m \in 0..n : SumFunction(F(m)) = SumFunction(G(m))}
<1>1. 0 \in S
  <2>1. DOMAIN F(0) = {} /\ DOMAIN G(0) = {}
    OBVIOUS
  <2> HIDE DEF F, G
  <2>2. SumFunction(F(0)) = 0 /\ SumFunction(G(0)) = 0
    BY <2>1, SumEmpty
  <2> QED BY <2>2
<1>2. ASSUME NEW m \in 0 .. (n - 1), m \in S PROVE m + 1 \in S
  <2>1. /\ lo \in Int /\ lo + m \in Int /\ lo <= lo + m /\ 0 <= m /\ m \in Int
        /\ (lo + (m + 1)) - 1 = lo + m /\ (m + 1) - 1 = m /\ m + 1 \in 0..n
    OBVIOUS
  <2>2. \A k \in 0..m : f[lo + k] \in Int /\ g[k] = f[lo + k]
    OBVIOUS
  <2>3. \A k \in lo .. (lo + m) : f[k] \in Int
    <3>1. ASSUME NEW k \in lo .. (lo + m) PROVE f[k] \in Int
      <4>1. k - lo \in 0..m /\ lo + (k - lo) = k
        BY <2>1
      <4> QED BY <2>2, <4>1
    <3> QED BY <3>1
  <2>4. /\ F(m + 1) = [k \in lo .. (lo + m) |-> f[k]] /\ G(m + 1) = [k \in 0..m |-> g[k]]
        /\ DOMAIN F(m) = lo .. ((lo + m) - 1) /\ DOMAIN G(m) = 0 .. (m - 1)
        /\ \A k \in lo .. ((lo + m) - 1) : F(m)[k] = f[k]
        /\ \A k \in 0 .. (m - 1) : G(m)[k] = g[k]
    BY <2>1
  <2>5. /\ DOMAIN F(m + 1) = lo .. (lo + m) /\ DOMAIN G(m + 1) = 0..m
        /\ \A k \in lo .. (lo + m) : F(m + 1)[k] = f[k]
        /\ \A k \in 0..m : G(m + 1)[k] = g[k]
    BY <2>4
  <2> HIDE DEF F, G
  <2>6. /\ \A k \in lo .. ((lo + m) - 1) : F(m)[k] = F(m + 1)[k]
        /\ \A k \in lo .. (lo + m) : F(m + 1)[k] \in Int
    <3>1. \A k \in lo .. ((lo + m) - 1) : k \in lo .. (lo + m)
      BY <2>1
    <3> QED BY <2>3, <2>4, <2>5, <3>1
  <2>7. /\ \A k \in 0 .. (m - 1) : G(m)[k] = G(m + 1)[k]
        /\ \A k \in 0..m : G(m + 1)[k] \in Int
    <3>1. \A k \in 0 .. (m - 1) : k \in 0..m
      BY <2>1
    <3> QED BY <2>2, <2>4, <2>5, <3>1
  <2>8. SumFunction(F(m + 1)) = SumFunction(F(m)) + F(m + 1)[lo + m]
    <3> DEFINE hi == lo + m
    <3>1. /\ lo \in Int /\ hi \in Int /\ lo <= hi /\ DOMAIN F(m + 1) = lo..hi
          /\ DOMAIN F(m) = lo .. (hi - 1) /\ \A k \in lo .. (hi - 1) : F(m)[k] = F(m + 1)[k]
          /\ \A k \in lo..hi : F(m + 1)[k] \in Int
      BY <2>1, <2>4, <2>5, <2>6
    <3> HIDE DEF hi
    <3>2. SumFunction(F(m + 1)) = SumFunction(F(m)) + F(m + 1)[hi]
      BY ONLY <3>1, SumExtends
    <3> QED BY <3>2 DEF hi
  <2>9. SumFunction(G(m + 1)) = SumFunction(G(m)) + G(m + 1)[m]
    BY ONLY <2>1, <2>4, <2>5, <2>7, SumExtends
  <2>10. F(m + 1)[lo + m] = G(m + 1)[m]
    <3>1. lo + m \in lo .. (lo + m) /\ m \in 0..m
      BY <2>1
    <3> QED BY <2>2, <2>5, <3>1
  <2> QED BY <1>2, <2>1, <2>8, <2>9, <2>10
<1> HIDE DEF S
<1>3. n \in S
  <2>1. \A m \in 0..n : m \in S
    BY <1>1, <1>2, UpTo
  <2> QED BY <2>1
<1>4. /\ DOMAIN F(n) = DOMAIN f /\ \A k \in DOMAIN f : F(n)[k] = f[k]
      /\ DOMAIN G(n) = DOMAIN g /\ \A k \in DOMAIN g : G(n)[k] = g[k]
      /\ IsFiniteSet(DOMAIN f) /\ IsFiniteSet(DOMAIN g)
  BY FS_Interval
<1>5. SumFunction(F(n)) = SumFunction(G(n))
  BY <1>3 DEF S
<1> HIDE DEF F, G
<1>6. SumFunctionOnSet(F(n), DOMAIN f) = SumFunctionOnSet(f, DOMAIN f)
  <2>1. IsFiniteSet(DOMAIN f) /\ \A k \in DOMAIN f : F(n)[k] = f[k]
    BY <1>4
  <2> DEFINE D == DOMAIN f
             fn == F(n)
  <2> HIDE DEF D, fn
  <2>2. IsFiniteSet(D) /\ \A k \in D : fn[k] = f[k]
    BY <2>1 DEF D, fn
  <2>3. SumFunctionOnSet(fn, D) = SumFunctionOnSet(f, D)
    BY ONLY <2>2, SumsAgree
  <2> QED BY ONLY <2>3 DEF D, fn
<1>7. SumFunctionOnSet(G(n), DOMAIN g) = SumFunctionOnSet(g, DOMAIN g)
  <2>1. IsFiniteSet(DOMAIN g) /\ \A k \in DOMAIN g : G(n)[k] = g[k]
    BY <1>4
  <2> DEFINE D == DOMAIN g
             gn == G(n)
  <2> HIDE DEF D, gn
  <2>2. IsFiniteSet(D) /\ \A k \in D : gn[k] = g[k]
    BY <2>1 DEF D, gn
  <2>3. SumFunctionOnSet(gn, D) = SumFunctionOnSet(g, D)
    BY ONLY <2>2, SumsAgree
  <2> QED BY <2>3 DEF D, gn
<1> QED BY <1>4, <1>5, <1>6, <1>7 DEF SumFunction

----------------------------------------------------------------------------
(* The numbers arrays spell.                                               *)

\* The number the first n words spell.
Low(x, n) == SumFunction([k \in 0 .. (n - 1) |-> x[k] * Weight[k]])

\* An array of n words.
IsArray(x, n) == n \in 0..MaxPower /\ x \in Arrays(n)

LEMMA ArrayFacts ==
    ASSUME NEW n, NEW x, IsArray(x, n)
    PROVE  /\ n \in Nat /\ DOMAIN x = 0 .. (n - 1) /\ wcount(x) = n
           /\ \A k \in 0 .. (n - 1) : /\ x[k] \in Word /\ x[k] \in Nat /\ x[k] < Base
                                      /\ k \in Nat /\ k < n /\ k \in 0..n /\ k + 1 \in 0..n
                                      /\ k \in 0..MaxPower /\ k \in 0 .. (MaxPower - 1)
<1>1. n \in 0..MaxPower /\ MaxPower \in Nat /\ DOMAIN x = 0 .. (n - 1)
  BY WeightFacts DEF IsArray, Arrays
<1>2. wcount(x) = n
  <2>1. n \in Nat /\ Cardinality(0 .. (n - 1)) = IF 0 <= n - 1 THEN (n - 1) - 0 + 1 ELSE 0
    BY <1>1, FS_Interval
  <2> QED BY <1>1, <2>1 DEF wcount
<1>3. \A k \in 0 .. (n - 1) : x[k] \in Word
  BY DEF IsArray, Arrays
<1>4. \A w \in Word : w \in Nat /\ w < Base
  BY SizeAssumption DEF Word
<1> QED BY <1>1, <1>2, <1>3, <1>4

LEMMA NumberIsLow ==
    ASSUME NEW n, NEW x, IsArray(x, n)
    PROVE  Number(x) = Low(x, n)
BY ArrayFacts DEF Number, Low

LEMMA LowStep ==
    ASSUME NEW n, NEW x, IsArray(x, n), NEW m \in 0 .. (n - 1)
    PROVE  Low(x, m) \in Int /\ Low(x, m + 1) = Low(x, m) + x[m] * Weight[m]
<1> DEFINE f == [k \in 0 .. ((m + 1) - 1) |-> x[k] * Weight[k]]
           g == [k \in 0 .. (m - 1) |-> x[k] * Weight[k]]
<1>1. m \in Nat /\ m < n /\ n \in Nat /\ (m + 1) - 1 = m
  BY ArrayFacts
<1>2. \A k \in 0..m : f[k] = x[k] * Weight[k] /\ k \in 0 .. (n - 1)
  BY <1>1
<1>3. \A k \in 0..m : f[k] \in Int
  <2>1. ASSUME NEW k \in 0..m PROVE x[k] \in Nat /\ Weight[k] \in Nat
    BY <1>2, ArrayFacts, WeightFacts
  <2> QED BY <1>2, <2>1
<1>4. DOMAIN f = 0..m /\ DOMAIN g = 0 .. (m - 1)
  BY <1>1
<1>5. \A k \in 0 .. (m - 1) : g[k] = f[k]
  BY <1>1, <1>2
<1>6. f[m] = x[m] * Weight[m] /\ 0 <= m /\ m \in Int
  BY <1>1, <1>2
<1> HIDE DEF f, g
<1>7. SumFunction(g) \in Int /\ SumFunction(f) = SumFunction(g) + f[m]
  <2>1. DOMAIN f = 0..m /\ DOMAIN g = 0 .. (m - 1) /\ 0 \in Int /\ m \in Int /\ 0 <= m
    BY <1>4, <1>6
  <2> QED BY ONLY <2>1, <1>3, <1>5, SumExtends
<1> QED BY <1>6, <1>7 DEF f, g, Low

LEMMA LowOfNone ==
    ASSUME NEW x
    PROVE  Low(x, 0) = 0
<1> DEFINE f == [k \in 0 .. (0 - 1) |-> x[k] * Weight[k]]
<1>1. DOMAIN f = {}
  OBVIOUS
<1> HIDE DEF f
<1>2. SumFunction(f) = 0
  BY <1>1, SumEmpty
<1> QED BY <1>2 DEF f, Low

\* The first m words spell a number below the weight of the next one.
LEMMA LowFacts ==
    ASSUME NEW n, NEW x, IsArray(x, n)
    PROVE  \A m \in 0..n : Low(x, m) \in Nat /\ Low(x, m) < Weight[m]
<1> DEFINE S == {m \in 0..n : Low(x, m) \in Nat /\ Low(x, m) < Weight[m]}
<1>1. n \in Nat
  BY ArrayFacts
<1>2. 0 \in S
  BY <1>1, LowOfNone, WeightFacts
<1>3. ASSUME NEW m \in 0 .. (n - 1), m \in S PROVE m + 1 \in S
  <2>1. /\ x[m] \in Nat /\ x[m] < Base /\ m + 1 \in 0..n
        /\ m \in 0..MaxPower /\ m \in 0 .. (MaxPower - 1)
    BY ArrayFacts
  <2>2. Weight[m] \in Nat \ {0} /\ Weight[m + 1] = Base * Weight[m] /\ Base \in Nat
    BY <2>1, WeightFacts, SizeAssumption
  <2>3. Low(x, m + 1) = Low(x, m) + x[m] * Weight[m]
    BY LowStep
  <2>4. Low(x, m) \in Nat /\ Low(x, m) < Weight[m]
    BY <1>3
  <2> DEFINE w == Weight[m]
             d == x[m]
             lw == Low(x, m)
  <2>5. lw \in Nat /\ d \in Nat /\ w \in Nat /\ lw < w /\ d < Base /\ Base \in Nat
    BY <2>1, <2>2, <2>4
  <2> HIDE DEF w, d, lw
  <2>6. d * w \in Nat /\ Base * w = d * w + w + (Base - 1 - d) * w /\ (Base - 1 - d) * w \in Nat
    BY <2>5
  <2>7. lw + d * w \in Nat /\ lw + d * w < Base * w
    BY <2>5, <2>6
  <2> QED BY <2>1, <2>2, <2>3, <2>7 DEF w, d, lw
<1> HIDE DEF S
<1>4. \A m \in 0..n : m \in S
  BY <1>1, <1>2, <1>3, UpTo
<1> QED BY <1>4 DEF S

\* Only the first m words count.
LEMMA LowDepends ==
    ASSUME NEW x, NEW y, NEW m, \A k \in 0 .. (m - 1) : x[k] = y[k]
    PROVE  Low(x, m) = Low(y, m)
<1>1. [k \in 0 .. (m - 1) |-> x[k] * Weight[k]] = [k \in 0 .. (m - 1) |-> y[k] * Weight[k]]
  OBVIOUS
<1> QED BY <1>1 DEF Low

\* More words spell no smaller number.
LEMMA LowMonotone ==
    ASSUME NEW n, NEW x, IsArray(x, n), NEW m \in 0..n
    PROVE  \A k \in 0..n : m <= k => Low(x, m) <= Low(x, k)
<1> DEFINE S == {k \in 0..n : m <= k => Low(x, m) <= Low(x, k)}
<1>1. n \in Nat /\ m \in Nat
  BY ArrayFacts
<1>2. 0 \in S
  BY <1>1, LowFacts
<1>3. ASSUME NEW k \in 0 .. (n - 1), k \in S PROVE k + 1 \in S
  <2>1. x[k] \in Nat /\ k + 1 \in 0..n /\ k \in 0..n /\ k \in 0..MaxPower /\ k \in Nat
    BY ArrayFacts
  <2>2. Weight[k] \in Nat
    BY <2>1, WeightFacts
  <2>3. Low(x, k + 1) = Low(x, k) + x[k] * Weight[k]
    BY LowStep
  <2>4. x[k] * Weight[k] \in Nat
    BY <2>1, <2>2
  <2>5. Low(x, m) \in Nat /\ Low(x, k) \in Nat /\ Low(x, k + 1) \in Nat
    BY <2>1, LowFacts
  <2>6. CASE m = k + 1
    BY <2>1, <2>5, <2>6
  <2>7. CASE m # k + 1
    <3>1. m <= k + 1 => Low(x, m) <= Low(x, k)
      BY <1>1, <1>3, <2>1, <2>7
    <3> QED BY <2>1, <2>3, <2>4, <2>5, <3>1
  <2> QED BY <2>6, <2>7
<1> HIDE DEF S
<1>4. \A k \in 0..n : k \in S
  BY <1>1, <1>2, <1>3, UpTo
<1> QED BY <1>4 DEF S

\* A word above the number's weight is zero, and then the words below it spell
\* the number.
LEMMA LowAbove ==
    ASSUME NEW n, NEW x, IsArray(x, n), NEW m \in 0..n
    PROVE  /\ (\A k \in m .. (n - 1) : x[k] = 0) => Low(x, n) = Low(x, m)
           /\ Low(x, n) < Weight[m] => \A k \in m .. (n - 1) : x[k] = 0
<1>1. n \in Nat /\ m \in Nat /\ m \in 0..MaxPower /\ MaxPower \in Nat
  BY ArrayFacts, WeightFacts DEF IsArray
<1>2. ASSUME \A k \in m .. (n - 1) : x[k] = 0 PROVE Low(x, n) = Low(x, m)
  <2> DEFINE S == {k \in 0..n : m <= k => Low(x, k) = Low(x, m)}
  <2>1. 0 \in S
    BY <1>1
  <2>2. ASSUME NEW k \in 0 .. (n - 1), k \in S PROVE k + 1 \in S
    <3>1. x[k] \in Nat /\ k + 1 \in 0..n /\ k \in 0..MaxPower /\ k \in Nat /\ k \in 0..n
      BY ArrayFacts
    <3>2. Low(x, k + 1) = Low(x, k) + x[k] * Weight[k] /\ Weight[k] \in Nat /\ Low(x, k) \in Nat
      BY <3>1, LowStep, WeightFacts, LowFacts
    <3>3. CASE m <= k
      <4>1. x[k] = 0 /\ Low(x, k) = Low(x, m)
        BY <1>1, <1>2, <2>2, <3>1, <3>3
      <4> QED BY <3>1, <3>2, <4>1
    <3>4. CASE ~(m <= k)
      BY <1>1, <3>1, <3>4
    <3> QED BY <3>3, <3>4
  <2> HIDE DEF S
  <2>3. \A k \in 0..n : k \in S
    BY <1>1, <2>1, <2>2, UpTo
  <2> QED BY <1>1, <2>3 DEF S
<1>3. ASSUME Low(x, n) < Weight[m], NEW k \in m .. (n - 1) PROVE x[k] = 0
  <2>1. k \in 0 .. (n - 1)
    BY <1>1
  <2>2. x[k] \in Nat /\ k + 1 \in 0..n /\ k \in 0..MaxPower /\ k \in Nat /\ k \in 0..n /\ k >= m
    BY <1>1, <2>1, ArrayFacts
  <2>3. /\ Low(x, k + 1) = Low(x, k) + x[k] * Weight[k]
        /\ Weight[k] \in Nat /\ Low(x, k) \in Nat /\ Low(x, k + 1) \in Nat /\ Low(x, n) \in Nat
        /\ Weight[m] \in Nat
    BY <1>1, <2>1, <2>2, LowStep, WeightFacts, LowFacts
  <2>4. Low(x, k + 1) <= Low(x, n)
    BY <1>1, <2>2, LowMonotone
  <2>5. Weight[m] <= Weight[k]
    BY <1>1, <2>2, WeightMonotone
  <2> DEFINE t == x[k] * Weight[k]
  <2>6. t < Weight[k] /\ t \in Nat
    <3>1. t \in Nat
      BY <2>2, <2>3
    <3>2. Low(x, k + 1) = Low(x, k) + t
      BY <2>3
    <3> HIDE DEF t
    <3> QED BY <1>3, <2>3, <2>4, <2>5, <3>1, <3>2
  <2>7. SUFFICES ASSUME x[k] # 0 PROVE FALSE
    OBVIOUS
  <2>8. x[k] * Weight[k] = Weight[k] + (x[k] - 1) * Weight[k] /\ (x[k] - 1) * Weight[k] \in Nat
    BY <2>2, <2>3, <2>7
  <2> QED BY <2>3, <2>6, <2>8
<1> QED BY <1>2, <1>3

\* Writing one word.
LEMMA LowUpdate ==
    ASSUME NEW n, NEW x, IsArray(x, n), NEW j \in 0 .. (n - 1), NEW w \in Word
    PROVE  /\ IsArray([x EXCEPT ![j] = w], n)
           /\ \A m \in 0..n : Low([x EXCEPT ![j] = w], m)
                 = IF m <= j THEN Low(x, m) ELSE Low(x, m) + (w - x[j]) * Weight[j]
<1> DEFINE y == [x EXCEPT ![j] = w]
           S == {m \in 0..n : Low(y, m) = IF m <= j THEN Low(x, m)
                                          ELSE Low(x, m) + (w - x[j]) * Weight[j]}
<1>1. IsArray(y, n)
  BY DEF IsArray, Arrays
<1>2. n \in Nat /\ j \in Nat /\ x[j] \in Nat /\ w \in Nat /\ Weight[j] \in Nat
  BY ArrayFacts, WeightFacts, SizeAssumption DEF Word
<1>3. \A k \in 0 .. (n - 1) : y[k] = IF k = j THEN w ELSE x[k]
  BY ArrayFacts
<1>4. 0 \in S
  BY <1>2, LowOfNone
<1>5. ASSUME NEW m \in 0 .. (n - 1), m \in S PROVE m + 1 \in S
  <2>1. x[m] \in Nat /\ m + 1 \in 0..n /\ m \in 0..MaxPower /\ m \in Nat /\ m \in 0..n
    BY ArrayFacts
  <2>2. /\ Low(x, m + 1) = Low(x, m) + x[m] * Weight[m] /\ Weight[m] \in Nat
        /\ Low(y, m + 1) = Low(y, m) + y[m] * Weight[m] /\ Low(x, m) \in Nat
        /\ Low(x, m + 1) \in Nat /\ Low(y, m) \in Nat
    BY <1>1, <2>1, LowStep, WeightFacts, LowFacts
  <2>3. CASE m < j
    BY <1>2, <1>3, <1>5, <2>1, <2>2, <2>3
  <2>4. CASE m = j
    <3>1. Low(y, m) = Low(x, m) /\ y[m] = w
      BY <1>3, <1>5, <2>1, <2>4
    <3>2. Low(y, m + 1) = Low(x, m) + w * Weight[j]
      BY <2>2, <2>4, <3>1
    <3>3. Low(x, m + 1) = Low(x, m) + x[j] * Weight[j]
      BY <2>2, <2>4
    <3>4. (w - x[j]) * Weight[j] = w * Weight[j] - x[j] * Weight[j]
      BY <1>2
    <3>5. Low(y, m + 1) = Low(x, m + 1) + (w - x[j]) * Weight[j]
      BY <1>2, <2>2, <3>2, <3>3, <3>4
    <3> QED BY <1>2, <2>1, <2>4, <3>5
  <2>5. CASE m > j
    <3>1. Low(y, m) = Low(x, m) + (w - x[j]) * Weight[j] /\ y[m] = x[m]
      BY <1>2, <1>3, <1>5, <2>1, <2>5
    <3> DEFINE e == (w - x[j]) * Weight[j]
               t == x[m] * Weight[m]
    <3>2. e \in Int /\ t \in Int
      BY <1>2, <2>1, <2>2
    <3>3. Low(y, m + 1) = Low(x, m) + e + t /\ Low(x, m + 1) = Low(x, m) + t
      BY <2>2, <3>1
    <3> HIDE DEF e, t
    <3>4. Low(y, m + 1) = Low(x, m + 1) + e
      BY <2>2, <3>2, <3>3
    <3> QED BY <1>2, <2>1, <2>5, <3>4 DEF e
  <2> QED BY <1>2, <2>1, <2>3, <2>4, <2>5
<1> HIDE DEF S
<1>6. \A m \in 0..n : m \in S
  BY <1>2, <1>4, <1>5, UpTo
<1> QED BY <1>1, <1>6 DEF S

\* One addition to a word: what its carry is worth is what the word lost.
LEMMA CarryStep ==
    ASSUME NEW n, NEW x, IsArray(x, n), NEW j \in 0 .. (n - 1), NEW v \in Word
    PROVE  LET w == (x[j] + v) % Base
           IN  /\ w \in Word
               /\ w < x[j] <=> x[j] + v >= Base
               /\ ~(w < x[j]) => w >= v
               /\ Low([x EXCEPT ![j] = w], n) + (IF w < x[j] THEN Weight[j + 1] ELSE 0)
                     = Low(x, n) + v * Weight[j]
<1> DEFINE w == (x[j] + v) % Base
           d == x[j]
           u == Weight[j]
<1>1. /\ d \in Nat /\ d < Base /\ v \in Nat /\ v < Base /\ Base \in Nat /\ u \in Nat
      /\ Weight[j + 1] = Base * u /\ n \in 0..n /\ ~(n <= j) /\ n \in Nat /\ j \in Nat
  <2>1. j \in 0..MaxPower /\ j \in 0 .. (MaxPower - 1)
    BY ArrayFacts
  <2> QED BY <2>1, ArrayFacts, WeightFacts, SizeAssumption DEF Word
<1>2. w = IF d + v >= Base THEN d + v - Base ELSE d + v
  <2>1. ASSUME NEW t \in Nat, t < Base PROVE t % Base = t
    BY <1>1, <2>1
  <2>2. ASSUME NEW t \in Nat, t >= Base, t < Base + Base PROVE t % Base = t - Base
    <3>1. t - Base \in Nat /\ t - Base < Base
      BY <1>1, <2>2
    <3>2. t % Base = (t - Base) % Base
      BY <1>1, <2>2
    <3> QED BY <2>1, <3>1, <3>2
  <2>3. d + v \in Nat /\ d + v < Base + Base
    BY <1>1
  <2> QED BY <2>1, <2>2, <2>3, <1>1
<1>3. w \in Word /\ (w < d <=> d + v >= Base) /\ (~(w < d) => w >= v)
  BY <1>1, <1>2 DEF Word
<1> HIDE DEF w
<1>4. Low([x EXCEPT ![j] = w], n) = Low(x, n) + (w - d) * u
  BY <1>1, <1>3, LowUpdate
<1>5. Low(x, n) \in Nat
  BY <1>1, LowFacts
<1> HIDE DEF d, u
<1>6. CASE w < d
  <2>1. w - d = v - Base
    BY <1>1, <1>2, <1>3, <1>6
  <2>2. (v - Base) * u + Base * u = v * u
    BY <1>1
  <2>3. v * u \in Nat /\ Base * u \in Nat /\ (v - Base) * u \in Int
    BY <1>1
  <2>4. Low([x EXCEPT ![j] = w], n) + Base * u = Low(x, n) + v * u
    BY <1>4, <1>5, <2>1, <2>2, <2>3
  <2> QED BY <1>1, <1>3, <1>6, <2>4 DEF w, d, u
<1>7. CASE ~(w < d)
  <2>1. w - d = v
    BY <1>1, <1>2, <1>3, <1>7
  <2>2. v * u \in Nat
    BY <1>1
  <2>3. Low([x EXCEPT ![j] = w], n) + 0 = Low(x, n) + v * u
    BY <1>4, <1>5, <2>1, <2>2
  <2> QED BY <1>3, <1>7, <2>3 DEF w, d, u
<1> QED BY <1>6, <1>7

\* The same for a subtraction and its borrow.
LEMMA BorrowStep ==
    ASSUME NEW n, NEW x, IsArray(x, n), NEW j \in 0 .. (n - 1), NEW v \in Word
    PROVE  LET w == (x[j] - v) % Base
           IN  /\ w \in Word
               /\ w > x[j] <=> x[j] < v
               /\ Low([x EXCEPT ![j] = w], n) - (IF w > x[j] THEN Weight[j + 1] ELSE 0)
                     = Low(x, n) - v * Weight[j]
<1> DEFINE w == (x[j] - v) % Base
           d == x[j]
           u == Weight[j]
<1>1. /\ d \in Nat /\ d < Base /\ v \in Nat /\ v < Base /\ Base \in Nat /\ u \in Nat
      /\ Weight[j + 1] = Base * u /\ n \in 0..n /\ ~(n <= j) /\ n \in Nat /\ j \in Nat
  <2>1. j \in 0..MaxPower /\ j \in 0 .. (MaxPower - 1)
    BY ArrayFacts
  <2> QED BY <2>1, ArrayFacts, WeightFacts, SizeAssumption DEF Word
<1>2. w = IF d < v THEN d - v + Base ELSE d - v
  BY <1>1
<1>3. w \in Word /\ (w > d <=> d < v)
  <2> HIDE DEF w, d, u
  <2>1. CASE d < v
    <3>1. w = d - v + Base
      BY <1>2, <2>1
    <3> QED BY ONLY <1>1, <2>1, <3>1 DEF Word
  <2>2. CASE ~(d < v)
    <3>1. w = d - v
      BY <1>2, <2>2
    <3> QED BY ONLY <1>1, <2>2, <3>1 DEF Word
  <2> QED BY <2>1, <2>2
<1> HIDE DEF w
<1>4. Low([x EXCEPT ![j] = w], n) = Low(x, n) + (w - d) * u
  BY <1>1, <1>3, LowUpdate
<1>5. Low(x, n) \in Nat
  BY <1>1, LowFacts
<1> HIDE DEF d, u
<1>6. CASE w > d
  <2>1. w - d = Base - v
    BY <1>1, <1>2, <1>3, <1>6
  <2>2. (Base - v) * u = Base * u - v * u
    BY <1>1
  <2>3. v * u \in Nat /\ Base * u \in Nat
    BY <1>1
  <2>4. Low([x EXCEPT ![j] = w], n) - Base * u = Low(x, n) - v * u
    BY <1>4, <1>5, <2>1, <2>2, <2>3
  <2> QED BY <1>1, <1>3, <1>6, <2>4 DEF w, d, u
<1>7. CASE ~(w > d)
  <2>1. w - d = 0 - v
    BY <1>1, <1>2, <1>3, <1>7
  <2>2. v * u \in Nat /\ (0 - v) * u = 0 - (v * u)
    BY <1>1
  <2>3. Low([x EXCEPT ![j] = w], n) - 0 = Low(x, n) - v * u
    BY <1>4, <1>5, <2>1, <2>2
  <2> QED BY <1>3, <1>7, <2>3 DEF w, d, u
<1> QED BY <1>6, <1>7

\* Scaling one word: what is written over it and what goes to the next one are
\* worth its product.
LEMMA ScaleStep ==
    ASSUME NEW n, NEW x, IsArray(x, n), NEW j \in 0 .. (n - 1), NEW m \in 0..Base
    PROVE  LET product == x[j] * m
           IN  /\ product \in Nat /\ product % Base \in Word
               /\ product \div Base \in Word
               /\ Low([x EXCEPT ![j] = product % Base], n) + (product \div Base) * Weight[j + 1]
                     = Low(x, n) + (m - 1) * (x[j] * Weight[j])
<1> DEFINE product == x[j] * m
           d == x[j]
           u == Weight[j]
           q == product \div Base
           w == product % Base
<1>1. /\ d \in Nat /\ d < Base /\ m \in Nat /\ m <= Base /\ Base \in Nat \ {0} /\ u \in Nat
      /\ Weight[j + 1] = Base * u /\ n \in 0..n /\ ~(n <= j) /\ n \in Nat /\ j \in Nat
  <2>1. j \in 0..MaxPower /\ j \in 0 .. (MaxPower - 1)
    BY ArrayFacts
  <2> QED BY <2>1, ArrayFacts, WeightFacts, SizeAssumption DEF Word
<1>2. product \in Nat
  BY <1>1
<1>3. product <= (Base - 1) * Base
  <2>1. d * m <= d * Base
    <3>1. d * Base = d * m + d * (Base - m) /\ d * (Base - m) \in Nat /\ d * m \in Nat
      BY <1>1
    <3> QED BY <3>1
  <2>2. d * Base <= (Base - 1) * Base
    <3>1. (Base - 1) * Base = d * Base + (Base - 1 - d) * Base
          /\ (Base - 1 - d) * Base \in Nat /\ d * Base \in Nat
      BY <1>1
    <3> QED BY <3>1
  <2>3. d * Base \in Nat /\ (Base - 1) * Base \in Nat /\ d * m \in Nat
    BY <1>1
  <2> QED BY <2>1, <2>2, <2>3
<1> HIDE DEF product
<1>4. w \in Word /\ q \in Nat /\ product = q * Base + w
  BY <1>1, <1>2 DEF Word
<1>5. q \in Word
  <2> HIDE DEF q, w
  <2>1. w \in Nat
    BY <1>4, SizeAssumption DEF Word
  <2>2. q * Base <= (Base - 1) * Base
    <3> DEFINE t == q * Base
               l == (Base - 1) * Base
    <3>1. t \in Nat /\ l \in Nat
      BY <1>1, <1>4
    <3>2. product = t + w /\ product <= l
      BY <1>3, <1>4
    <3> HIDE DEF t, l
    <3>3. t <= l
      BY <2>1, <3>1, <3>2
    <3> QED BY <3>3 DEF t, l
  <2>3. SUFFICES ASSUME q >= Base PROVE FALSE
    BY <1>1, <1>4 DEF Word
  <2>4. q * Base = (Base - 1) * Base + Base + (q - Base) * Base /\ (q - Base) * Base \in Nat
        /\ (Base - 1) * Base \in Nat /\ q * Base \in Nat
    BY <1>1, <1>4, <2>3
  <2> QED BY <1>1, <2>2, <2>4
<1> HIDE DEF q, w
<1>6. Low([x EXCEPT ![j] = w], n) = Low(x, n) + (w - d) * u
  BY <1>1, <1>4, LowUpdate
<1>7. Low(x, n) \in Nat
  BY <1>1, LowFacts
<1>8. w \in Nat
  BY <1>4, SizeAssumption DEF Word
<1>9. (w - d) * u + q * (Base * u) = (m - 1) * (d * u)
  <2>1. q * Base + w = d * m
    BY <1>4 DEF product
  <2>2. (q * Base + w) * u = (d * m) * u
    BY <2>1
  <2>3. (q * Base + w) * u = q * (Base * u) + w * u
    BY <1>1, <1>4, <1>8
  <2>4. (d * m) * u = m * (d * u) /\ (m - 1) * (d * u) = m * (d * u) - d * u
        /\ (w - d) * u = w * u - d * u
    BY <1>1, <1>8
  <2>5. q * (Base * u) \in Nat /\ w * u \in Nat /\ d * u \in Nat /\ m * (d * u) \in Nat
    BY <1>1, <1>4, <1>8
  <2> QED BY <2>2, <2>3, <2>4, <2>5
<1>10. (w - d) * u \in Int /\ q * (Base * u) \in Nat /\ (m - 1) * (d * u) \in Int
  BY <1>1, <1>4, <1>8
<1>11. Low([x EXCEPT ![j] = w], n) + q * (Base * u) = Low(x, n) + (m - 1) * (d * u)
  BY <1>6, <1>7, <1>9, <1>10
<1>12. product \in Nat /\ w \in Word /\ q \in Word
       /\ Low([x EXCEPT ![j] = w], n) + q * Weight[j + 1] = Low(x, n) + (m - 1) * (d * u)
  BY <1>1, <1>2, <1>4, <1>5, <1>11
<1> QED BY <1>12 DEF product, w, q, d, u

----------------------------------------------------------------------------
(* Numerals.                                                               *)

\* A sum of which every term is r times that of another.
LEMMA SumScaled ==
    ASSUME NEW n \in Nat, NEW r \in Int, NEW f, NEW g, DOMAIN f = 0 .. (n - 1),
           DOMAIN g = 0 .. (n - 1), \A k \in 0 .. (n - 1) : g[k] \in Int /\ f[k] = r * g[k]
    PROVE  SumFunction(g) \in Int /\ SumFunction(f) = r * SumFunction(g)
<1> DEFINE F(m) == [k \in 0 .. (m - 1) |-> f[k]]
           G(m) == [k \in 0 .. (m - 1) |-> g[k]]
           S == {m \in 0..n : SumFunction(G(m)) \in Int
                              /\ SumFunction(F(m)) = r * SumFunction(G(m))}
<1>1. 0 \in S
  <2>1. DOMAIN F(0) = {} /\ DOMAIN G(0) = {}
    OBVIOUS
  <2> HIDE DEF F, G
  <2>2. SumFunction(F(0)) = 0 /\ SumFunction(G(0)) = 0
    BY <2>1, SumEmpty
  <2> QED BY <2>2
<1>2. ASSUME NEW m \in 0 .. (n - 1), m \in S PROVE m + 1 \in S
  <2>1. m \in Nat /\ (m + 1) - 1 = m /\ m + 1 \in 0..n
    OBVIOUS
  <2>2. /\ DOMAIN G(m + 1) = 0..m /\ DOMAIN G(m) = 0 .. (m - 1)
        /\ DOMAIN F(m + 1) = 0..m /\ DOMAIN F(m) = 0 .. (m - 1)
    BY <2>1
  <2>3. \A k \in 0..m : /\ G(m + 1)[k] = g[k] /\ F(m + 1)[k] = f[k] /\ g[k] \in Int
                        /\ f[k] = r * g[k]
    BY <2>1
  <2>4. \A k \in 0..m : r * g[k] \in Int
    BY <2>3
  <2>5. \A k \in 0 .. (m - 1) : G(m)[k] = G(m + 1)[k] /\ F(m)[k] = F(m + 1)[k]
    BY <2>1
  <2> HIDE DEF F, G
  <2>6. \A k \in 0..m : F(m + 1)[k] \in Int /\ G(m + 1)[k] \in Int
    BY <2>3, <2>4
  <2>7. 0 \in Int /\ m \in Int /\ 0 <= m /\ m \in 0..m
    BY <2>1
  <2>8. SumFunction(G(m)) \in Int /\ SumFunction(G(m + 1)) = SumFunction(G(m)) + G(m + 1)[m]
    <3>1. /\ DOMAIN G(m + 1) = 0..m /\ DOMAIN G(m) = 0 .. (m - 1)
          /\ \A k \in 0..m : G(m + 1)[k] \in Int
          /\ \A k \in 0 .. (m - 1) : G(m)[k] = G(m + 1)[k]
      BY ONLY <2>2, <2>5, <2>6
    <3> QED BY ONLY <2>7, <3>1, SumExtends
  <2>9. SumFunction(F(m)) \in Int /\ SumFunction(F(m + 1)) = SumFunction(F(m)) + F(m + 1)[m]
    <3>1. /\ DOMAIN F(m + 1) = 0..m /\ DOMAIN F(m) = 0 .. (m - 1)
          /\ \A k \in 0..m : F(m + 1)[k] \in Int
          /\ \A k \in 0 .. (m - 1) : F(m)[k] = F(m + 1)[k]
      BY ONLY <2>2, <2>5, <2>6
    <3> QED BY ONLY <2>7, <3>1, SumExtends
  <2>10. SumFunction(F(m)) = r * SumFunction(G(m))
    BY <1>2
  <2>11. ASSUME NEW s \in Int, NEW d \in Int PROVE r * s + r * d = r * (s + d) /\ s + d \in Int
    BY <2>11
  <2>12. /\ F(m + 1)[m] = r * g[m] /\ G(m + 1)[m] = g[m] /\ g[m] \in Int
    BY <2>3, <2>7
  <2>13. SumFunction(F(m + 1)) = r * SumFunction(G(m + 1)) /\ SumFunction(G(m + 1)) \in Int
    <3>1. /\ SumFunction(F(m + 1)) = r * SumFunction(G(m)) + r * g[m]
          /\ SumFunction(G(m + 1)) = SumFunction(G(m)) + g[m]
      BY ONLY <2>8, <2>9, <2>10, <2>12
    <3>2. /\ r * SumFunction(G(m)) + r * g[m] = r * (SumFunction(G(m)) + g[m])
          /\ SumFunction(G(m)) + g[m] \in Int
      BY ONLY <2>8, <2>11, <2>12
    <3> QED BY ONLY <3>1, <3>2
  <2> QED BY <2>1, <2>13
<1> HIDE DEF S
<1>3. n \in S
  <2>1. \A m \in 0..n : m \in S
    BY <1>1, <1>2, UpTo
  <2> QED BY <2>1
<1>4. SumFunction(F(n)) = SumFunction(f) /\ SumFunction(G(n)) = SumFunction(g)
  <2>1. /\ DOMAIN F(n) = 0 .. (n - 1) /\ DOMAIN G(n) = 0 .. (n - 1)
        /\ \A k \in 0 .. (n - 1) : F(n)[k] = f[k]
        /\ \A k \in 0 .. (n - 1) : G(n)[k] = g[k]
    OBVIOUS
  <2> HIDE DEF F, G
  <2>2. IsFiniteSet(0 .. (n - 1))
    BY FS_Interval
  <2>3. SumFunctionOnSet(F(n), 0 .. (n - 1)) = SumFunctionOnSet(f, 0 .. (n - 1))
        /\ SumFunctionOnSet(G(n), 0 .. (n - 1)) = SumFunctionOnSet(g, 0 .. (n - 1))
    BY <2>1, <2>2, SumsAgree
  <2> QED BY <2>1, <2>3 DEF SumFunction
<1> HIDE DEF F, G
<1>5. SumFunction(G(n)) \in Int /\ SumFunction(F(n)) = r * SumFunction(G(n))
  BY <1>3 DEF S
<1> QED BY <1>4, <1>5

\* The value of the first n digits of a numeral, most significant first, and
\* of what is written least significant first.
Numeral(x, base, n) == SumFunction([k \in 0 .. (n - 1) |-> x[k] * Power[base][n - 1 - k]])

LEMMA PowerFacts ==
    ASSUME NEW base \in Radixes
    PROVE  /\ base \in Nat /\ base >= 2 /\ Power[base][0] = 1
           /\ \A n \in 0..MaxPower : Power[base][n] \in Nat \ {0}
           /\ \A n \in 0 .. (MaxPower - 1) : Power[base][n + 1] = base * Power[base][n]
BY PowerPositive, PowerAssumption, SizeAssumption

LEMMA PowerMonotone ==
    ASSUME NEW base \in Radixes, NEW m \in 0..MaxPower
    PROVE  \A n \in 0..MaxPower : m <= n => Power[base][m] <= Power[base][n]
<1> DEFINE S == {n \in 0..MaxPower : m <= n => Power[base][m] <= Power[base][n]}
<1>1. MaxPower \in Nat
  BY WeightFacts
<1>2. 0 \in S
  BY <1>1, PowerFacts
<1>3. ASSUME NEW n \in 0 .. (MaxPower - 1), n \in S PROVE n + 1 \in S
  <2>1. n \in 0..MaxPower /\ n + 1 \in 0..MaxPower
    BY <1>1
  <2>2. /\ Power[base][n] \in Nat /\ Power[base][n + 1] = base * Power[base][n]
        /\ Power[base][m] \in Nat /\ base \in Nat /\ base >= 2
    BY <2>1, PowerFacts
  <2>3. ASSUME NEW p \in Nat, NEW c \in Nat, c >= 2 PROVE p <= c * p
    <3>1. c * p = p + (c - 1) * p /\ (c - 1) * p >= 0
      BY <2>3
    <3> QED BY <3>1, <2>3
  <2>4. Power[base][n] <= Power[base][n + 1] /\ Power[base][n + 1] \in Nat
    BY <2>2, <2>3
  <2>5. m <= n + 1 => Power[base][m] <= Power[base][n + 1]
    BY <1>1, <1>3, <2>1, <2>2, <2>4
  <2> QED BY <2>1, <2>5
<1> HIDE DEF S
<1>4. \A n \in 0..MaxPower : n \in S
  BY <1>1, <1>2, <1>3, UpTo
<1> QED BY <1>4 DEF S

\* One more digit.
LEMMA NumeralStep ==
    ASSUME NEW base \in Radixes, NEW len \in 0..MaxPower, NEW x,
           \A k \in 0 .. (len - 1) : x[k] \in Nat, NEW n \in 0 .. (len - 1)
    PROVE  /\ Numeral(x, base, n) \in Int
           /\ Numeral(x, base, n + 1) = base * Numeral(x, base, n) + x[n]
<1> DEFINE g == [k \in 0 .. (n - 1) |-> x[k] * Power[base][n - 1 - k]]
           f == [k \in 0 .. (n - 1) |-> x[k] * Power[base][(n + 1) - 1 - k]]
           h == [k \in 0 .. ((n + 1) - 1) |-> x[k] * Power[base][(n + 1) - 1 - k]]
<1>1. n \in Nat /\ (n + 1) - 1 = n /\ MaxPower \in Nat /\ n < MaxPower /\ len \in Nat
  BY WeightFacts
<1>2. \A k \in 0..n : x[k] \in Nat /\ h[k] = x[k] * Power[base][n - k] /\ n - k \in 0..MaxPower
  BY <1>1
<1>3. \A k \in 0..n : Power[base][n - k] \in Nat
  BY <1>2, PowerFacts
<1>4. \A k \in 0..n : h[k] \in Int
  <2>1. ASSUME NEW k \in 0..n PROVE x[k] * Power[base][n - k] \in Int
    BY <1>2, <1>3
  <2> QED BY <1>2, <2>1
<1>5. \A k \in 0 .. (n - 1) : g[k] \in Int /\ f[k] = base * g[k] /\ f[k] = h[k]
  <2> SUFFICES ASSUME NEW k \in 0 .. (n - 1)
               PROVE  g[k] \in Int /\ f[k] = base * g[k] /\ f[k] = h[k]
    OBVIOUS
  <2>1. k \in 0..n /\ n - 1 - k \in 0 .. (MaxPower - 1) /\ (n - 1 - k) + 1 = n - k
        /\ n - 1 - k \in 0..MaxPower
    BY <1>1
  <2>2. Power[base][(n - 1 - k) + 1] = base * Power[base][n - 1 - k]
        /\ Power[base][n - 1 - k] \in Nat /\ base \in Nat
    BY <2>1, PowerFacts
  <2>3. g[k] = x[k] * Power[base][n - 1 - k] /\ f[k] = x[k] * Power[base][n - k]
        /\ f[k] = h[k]
    BY <1>1, <1>2, <2>1
  <2>4. ASSUME NEW d \in Nat, NEW p \in Nat, NEW c \in Nat
        PROVE  d * (c * p) = c * (d * p) /\ d * p \in Int
    BY <2>4
  <2>5. f[k] = x[k] * (base * Power[base][n - 1 - k])
    BY <2>1, <2>2, <2>3
  <2> QED BY <1>2, <2>1, <2>2, <2>3, <2>4, <2>5
<1>6. DOMAIN h = 0..n /\ DOMAIN f = 0 .. (n - 1) /\ DOMAIN g = 0 .. (n - 1)
  BY <1>1
<1>7. h[n] = x[n]
  <2>1. n \in 0..n /\ n - n = 0 /\ x[n] \in Nat
    BY <1>1, <1>2
  <2>2. h[n] = x[n] * Power[base][0]
    BY <1>2, <2>1
  <2> QED BY <2>1, <2>2, PowerFacts
<1> HIDE DEF f, g, h
<1>8. SumFunction(h) = SumFunction(f) + h[n]
  <2>1. 0 \in Int /\ n \in Int /\ 0 <= n /\ DOMAIN h = 0..n /\ DOMAIN f = 0 .. (n - 1)
    BY <1>1, <1>6
  <2>2. \A k \in 0 .. (n - 1) : f[k] = h[k]
    BY <1>5
  <2> QED BY ONLY <1>4, <2>1, <2>2, SumExtends
<1>9. SumFunction(g) \in Int /\ SumFunction(f) = base * SumFunction(g)
  <2>1. base \in Int /\ n \in Nat
    BY <1>1, PowerFacts
  <2> QED BY ONLY <1>5, <1>6, <2>1, SumScaled
<1> QED BY <1>7, <1>8, <1>9 DEF f, g, h, Numeral

LEMMA NumeralOfNone ==
    ASSUME NEW base, NEW x
    PROVE  Numeral(x, base, 0) = 0
<1> DEFINE f == [k \in 0 .. (0 - 1) |-> x[k] * Power[base][0 - 1 - k]]
<1>1. DOMAIN f = {}
  OBVIOUS
<1> HIDE DEF f
<1>2. SumFunction(f) = 0
  BY <1>1, SumEmpty
<1> QED BY <1>2 DEF f, Numeral

\* n digits spell a number below the n-th power of the base.
LEMMA NumeralFacts ==
    ASSUME NEW base \in Radixes, NEW len \in 0..MaxPower, NEW x,
           \A k \in 0 .. (len - 1) : x[k] \in Nat /\ x[k] < base
    PROVE  \A n \in 0..len : Numeral(x, base, n) \in Nat
                             /\ Numeral(x, base, n) < Power[base][n]
<1> DEFINE S == {n \in 0..len : Numeral(x, base, n) \in Nat
                                /\ Numeral(x, base, n) < Power[base][n]}
<1>1. len \in Nat /\ MaxPower \in Nat
  BY WeightFacts
<1>2. 0 \in S
  BY <1>1, NumeralOfNone, PowerFacts
<1>3. ASSUME NEW n \in 0 .. (len - 1), n \in S PROVE n + 1 \in S
  <2>1. n \in 0 .. (MaxPower - 1) /\ n \in 0..MaxPower /\ n + 1 \in 0..len
    BY <1>1
  <2>2. Numeral(x, base, n + 1) = base * Numeral(x, base, n) + x[n]
    BY NumeralStep
  <2>3. Power[base][n + 1] = base * Power[base][n] /\ Power[base][n] \in Nat
        /\ base \in Nat /\ x[n] \in Nat /\ x[n] < base
    BY <2>1, PowerFacts
  <2>4. Numeral(x, base, n) \in Nat /\ Numeral(x, base, n) < Power[base][n]
    BY <1>3
  <2>5. ASSUME NEW v \in Nat, NEW p \in Nat, NEW c \in Nat, NEW d \in Nat, v < p, d < c
        PROVE  c * v + d \in Nat /\ c * v + d < c * p
    <3>1. c * p = c * v + c * (p - v) /\ c * (p - v) = c + c * (p - v - 1)
          /\ c * (p - v - 1) \in Nat /\ c * v \in Nat
      BY <2>5
    <3> QED BY <2>5, <3>1
  <2>6. base * Numeral(x, base, n) + x[n] \in Nat
        /\ base * Numeral(x, base, n) + x[n] < base * Power[base][n]
    BY <2>3, <2>4, <2>5
  <2> QED BY <2>1, <2>2, <2>3, <2>6
<1> HIDE DEF S
<1>4. \A n \in 0..len : n \in S
  BY <1>1, <1>2, <1>3, UpTo
<1> QED BY <1>4 DEF S

\* A number is its base times one number plus one digit in one way only.
LEMMA OneLastDigit ==
    ASSUME NEW base \in Nat, NEW u \in Nat, NEW v \in Nat,
           NEW d \in 0 .. (base - 1), NEW e \in 0 .. (base - 1),
           base * u + d = base * v + e
    PROVE  u = v /\ d = e
<1>1. ASSUME NEW x \in Nat, NEW y \in Nat, NEW p \in 0 .. (base - 1), NEW q \in 0 .. (base - 1),
             base * x + p = base * y + q
      PROVE  ~(x < y)
  <2> SUFFICES ASSUME x < y PROVE FALSE
    OBVIOUS
  <2>1. base * y = base * x + base * (y - x)
    OBVIOUS
  <2>2. base * (y - x) = base + base * (y - x - 1) /\ base * (y - x - 1) \in Nat
    OBVIOUS
  <2> DEFINE r == base * (y - x)
             s == base * (y - x - 1)
             z == base * x
  <2>3. z \in Nat /\ r = base + s /\ s \in Nat /\ z + p = (z + r) + q
    BY <1>1, <2>1, <2>2
  <2> HIDE DEF r, s, z
  <2> QED BY <2>3
<1>2. ~(u < v) /\ ~(v < u)
  BY <1>1
<1>3. u = v
  BY <1>2
<1>4. base * u = base * v /\ base * u \in Nat
  BY <1>3
<1> QED BY <1>3, <1>4

\* Two numerals of one value have the same digits, counted from the last one; what
\* the longer one has more is worth nothing.
LEMMA SameNumeral ==
    ASSUME NEW base \in Radixes,
           NEW m \in 0..MaxPower, NEW x, \A k \in 0 .. (m - 1) : x[k] \in Nat /\ x[k] < base,
           NEW n \in m..MaxPower, NEW y, \A k \in 0 .. (n - 1) : y[k] \in Nat /\ y[k] < base,
           Numeral(x, base, m) = Numeral(y, base, n)
    PROVE  /\ \A k \in 0 .. (m - 1) : x[k] = y[n - m + k]
           /\ Numeral(y, base, n - m) = 0
<1> DEFINE S == {j \in 0..m : /\ Numeral(x, base, m - j) = Numeral(y, base, n - j)
                              /\ \A k \in (m - j) .. (m - 1) : x[k] = y[n - m + k]}
<1>1. m \in Nat /\ n \in Nat /\ MaxPower \in Nat /\ base \in Nat /\ m <= n /\ n \in 0..MaxPower
  BY WeightFacts, PowerFacts
<1>2. 0 \in S
  BY <1>1
<1>3. ASSUME NEW j \in 0 .. (m - 1), j \in S PROVE j + 1 \in S
  <2> DEFINE p == m - (j + 1)
             q == n - (j + 1)
  <2>1. /\ p \in 0 .. (m - 1) /\ q \in 0 .. (n - 1) /\ p + 1 = m - j /\ q + 1 = n - j
        /\ q = n - m + p /\ j + 1 \in 0..m /\ p \in 0..m /\ q \in 0..n
    BY <1>1
  <2>2. \A k \in p .. (m - 1) : k = p \/ k \in (m - j) .. (m - 1)
    BY <1>1, <2>1
  <2>3. \A k \in (m - j) .. (m - 1) : x[k] = y[n - m + k]
    BY <1>3
  <2>4. Numeral(x, base, p + 1) = Numeral(y, base, q + 1)
    BY <1>3, <2>1
  <2> HIDE DEF p, q
  <2>5. Numeral(x, base, p + 1) = base * Numeral(x, base, p) + x[p]
    BY <1>1, <2>1, NumeralStep
  <2>6. Numeral(y, base, q + 1) = base * Numeral(y, base, q) + y[q]
    BY <1>1, <2>1, NumeralStep
  <2>7. Numeral(x, base, p) \in Nat
    BY <1>1, <2>1, NumeralFacts
  <2>8. Numeral(y, base, q) \in Nat
    BY <1>1, <2>1, NumeralFacts
  <2>9. x[p] \in 0 .. (base - 1) /\ y[q] \in 0 .. (base - 1)
    BY <1>1, <2>1
  <2>10. Numeral(x, base, p) = Numeral(y, base, q) /\ x[p] = y[q]
    BY <1>1, <2>4, <2>5, <2>6, <2>7, <2>8, <2>9, OneLastDigit
  <2>11. \A k \in p .. (m - 1) : x[k] = y[n - m + k]
    BY <2>1, <2>2, <2>3, <2>10
  <2> QED BY <2>1, <2>10, <2>11 DEF p, q
<1> HIDE DEF S
<1>4. m \in S
  <2>1. \A j \in 0..m : j \in S
    BY <1>1, <1>2, <1>3, UpTo
  <2> QED BY <1>1, <2>1
<1>5. m - m = 0 /\ Numeral(x, base, 0) = 0
  BY <1>1, NumeralOfNone
<1> QED BY <1>4, <1>5 DEF S

\* A numeral worth nothing has no other digit than 0.
LEMMA ZeroNumeral ==
    ASSUME NEW base \in Radixes,
           NEW n \in 0..MaxPower, NEW y, \A k \in 0 .. (n - 1) : y[k] \in Nat /\ y[k] < base,
           Numeral(y, base, n) = 0
    PROVE  \A k \in 0 .. (n - 1) : y[k] = 0
<1> DEFINE x == [k \in 0 .. (n - 1) |-> 0]
           S == {j \in 0..n : Numeral(x, base, j) = 0}
<1>1. n \in Nat /\ base \in Nat /\ base >= 2 /\ n \in n..MaxPower
  BY WeightFacts, PowerFacts
<1>2. \A k \in 0 .. (n - 1) : x[k] = 0
  OBVIOUS
<1>3. \A k \in 0 .. (n - 1) : x[k] \in Nat /\ x[k] < base
  BY <1>1, <1>2
<1> HIDE DEF x
<1>4. 0 \in S
  BY <1>1, NumeralOfNone
<1>5. ASSUME NEW j \in 0 .. (n - 1), j \in S PROVE j + 1 \in S
  <2>1. Numeral(x, base, j + 1) = base * Numeral(x, base, j) + x[j]
    BY <1>3, NumeralStep
  <2>2. Numeral(x, base, j) = 0 /\ x[j] = 0 /\ base * 0 = 0 /\ j + 1 \in 0..n
    BY <1>1, <1>2, <1>5
  <2> QED BY <2>1, <2>2
<1> HIDE DEF S
<1>6. n \in S
  <2>1. \A j \in 0..n : j \in S
    BY <1>1, <1>4, <1>5, UpTo
  <2> QED BY <1>1, <2>1
<1>7. Numeral(x, base, n) = 0
  BY <1>6 DEF S
<1>8. \A k \in 0 .. (n - 1) : x[k] = y[n - n + k]
  BY <1>1, <1>3, <1>7, SameNumeral
<1>9. \A k \in 0 .. (n - 1) : n - n + k = k
  BY <1>1
<1> QED BY <1>2, <1>8, <1>9
=============================================================================
