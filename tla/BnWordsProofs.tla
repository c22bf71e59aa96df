---------------------------- MODULE BnWordsProofs ----------------------------
(***************************************************************************)
(* The word loops and bn_tostring compute what BnNumbers says, for every   *)
(* word size, every length of the operands and every radix.                *)
(***************************************************************************)
EXTENDS BnWords, BnNumbersProofs, WellFoundedInduction

----------------------------------------------------------------------------
(* The invariant of the loops.                                             *)

\* Where the loop is, a carry chain counting as part of what follows it.
Phase == IF loop_pc = "chain" THEN chain.after ELSE loop_pc

\* The array a chain of that phase runs in.
Target == IF Phase = "scaled" THEN Scaled ELSE "dst"

\* What the array is worth: the number in it and the carry that still runs, or
\* the borrow.
Sign == IF op = "sub" THEN -1 ELSE 1
Pending == IF loop_pc = "chain" /\ Wrapped THEN Sign * Weight[at + 1] ELSE 0
Value == Number(arrays[Target]) + Pending

\* The arrays have the sizes the functions give them.
Sizes ==
    /\ op \in Ops
    /\ arrays = [dst |-> arrays.dst, tmp |-> arrays.tmp]
    /\ IsArray(arrays.dst, wcount(arrays.dst)) /\ wcount(arrays.dst) \in 1..MaxWords
    /\ IsArray(arrays.tmp, wcount(arrays.tmp)) /\ wcount(arrays.tmp) \in 1..MaxWords
    /\ IsArray(b, wcount(b)) /\ wcount(b) # 0
    /\ op \in {"add", "sub", "mul"} => IsArray(a, wcount(a))
    /\ op = "add" => wcount(arrays.dst) = wcount(a) /\ wcount(a) >= 2
    /\ op = "sub" => wcount(arrays.dst) = wcount(a) /\ Number(a) >= Number(b)
    /\ op = "mul" =>
          /\ wcount(a) \in 1..MaxLen /\ wcount(b) \in 1..MaxLen
          /\ wcount(arrays.dst) = wcount(a) + wcount(b)
          /\ Phase \in {"scale", "scaled", "accumulate", "accumulated"} =>
                wcount(arrays.tmp) = wcount(a) + 1
    /\ op = "init" =>
          /\ a[0] \in Radixes /\ wcount(b) \in 1..MaxDigits
          /\ \A k \in DOMAIN b : b[k] < a[0]
          /\ wcount(arrays.dst) = get_blen_from_slen(wcount(b), a[0])

\* Each phase belongs to its function.
Phases ==
    /\ loop_pc \in Locations
    /\ Phase \in {"row", "done", "oob"}
       \/ (Phase = "added" /\ op = "add") \/ (Phase = "trim" /\ op = "sub")
       \/ (Phase \in {"scale", "scaled"} /\ op \in {"mul", "init"})
       \/ (Phase \in {"accumulate", "accumulated"} /\ op = "mul")
       \/ (Phase = "digit" /\ op = "init")
    /\ loop_pc = "chain" =>
          /\ chain.array = Target
          /\ Phase \in {"added", "trim", "scaled", "accumulated", "digit"}

\* The indices point into their arrays.
Indices ==
    /\ row \in 0 .. wcount(b) /\ msw \in 0 .. (wcount(arrays.dst) - 1)
    /\ msw_tmp \in Nat /\ at \in Nat /\ old \in Word /\ col \in -1..MaxWords
    /\ Phase \notin {"row", "done", "oob"} => row < wcount(b)
    /\ Phase \in {"added", "trim", "scaled", "accumulated", "digit"} =>
          at < wcount(arrays[Target])
    /\ Phase \in {"scale", "scaled"} => msw_tmp < wcount(arrays[Scaled])
    /\ Phase = "scale" => col < wcount(arrays[Scaled])
    /\ Phase = "scaled" => 0 <= col /\ col < at
    /\ Phase \in {"accumulate", "accumulated"} =>
          0 <= col /\ col <= msw_tmp + 1 /\ msw_tmp < wcount(arrays.tmp)
    /\ Phase = "accumulated" => col <= msw_tmp
    /\ Phase = "digit" => msw_tmp < wcount(arrays.dst)

Layout == Sizes /\ Phases /\ Indices

\* The result for the first n words of b, or digits.
Consumed(n) ==
    CASE op = "add"  -> Number(a) + Prefix(n)
      [] op = "sub"  -> Number(a) - Prefix(n)
      [] op = "mul"  -> Number(a) * Prefix(n)
      [] op = "init" -> NumeralPrefix(n)

\* What is scaled, before it is, and its scaled and its unscaled part when the
\* lowest n words are still to be scaled.
Unscaled == IF op = "mul" THEN Number(a) ELSE NumeralPrefix(row)
HalfScaled(n) ==
    LET low == Low(arrays[Scaled], n)
    IN  low + Multiplier * (Unscaled - low)

Exact ==
    /\ Phase \in {"row", "done"} => Number(arrays.dst) = Consumed(row)
    /\ Phase \in {"added", "trim", "digit"} => Value = Consumed(row + 1)
    /\ Phase = "scale" => Number(arrays[Scaled]) = HalfScaled(col + 1)
    /\ Phase = "scaled" => Value = HalfScaled(col)
    /\ Phase \in {"scale", "scaled"} /\ op = "mul" => Number(arrays.dst) = Consumed(row)
    /\ Phase \in {"accumulate", "accumulated"} =>
          /\ Number(arrays.tmp) = Number(a) * b[row]
          /\ LET done == IF Phase = "accumulate" THEN col ELSE col + 1
             IN  Value = Consumed(row) + Low(arrays.tmp, done) * Weight[row]

\* The words above the most significant one are zero.
ZeroAbove(array, n) == \A k \in DOMAIN array : k > n => array[k] = 0

Tops ==
    /\ Phase \in {"row", "done"} /\ op = "init" => ZeroAbove(arrays.dst, msw)
    /\ Phase = "scale" => ZeroAbove(arrays[Scaled], msw_tmp)
    /\ Phase = "scaled" => ZeroAbove(arrays[Scaled], Higher(msw_tmp, at))
    /\ Phase \in {"accumulate", "accumulated"} => ZeroAbove(arrays.tmp, msw_tmp)
    /\ Phase = "digit" => ZeroAbove(arrays.dst, Higher(msw_tmp, at))
    /\ op = "mul" /\ Phase \in {"row", "done", "scale", "scaled", "accumulate"} =>
          ZeroAbove(arrays.dst, msw)
    /\ Phase = "accumulated" => ZeroAbove(arrays.dst, Higher(msw, at))
    /\ op = "add" /\ a[wcount(a) - 1] = 0 =>
          /\ Phase \in {"row", "done"} => ZeroAbove(arrays.dst, msw)
          /\ Phase = "added" => ZeroAbove(arrays.dst, Higher(msw, at))
    /\ op = "sub" /\ Phase # "oob" => Value < Weight[msw + 1]

----------------------------------------------------------------------------
(* What the steps of a chain do to the arrays.                             *)

Names == {"dst", "tmp"}
IsArrays(x) == x = [dst |-> x.dst, tmp |-> x.tmp]

SameShape(x, y) ==
    /\ IsArrays(y)
    /\ \A u \in Names : /\ wcount(y[u]) = wcount(x[u]) /\ DOMAIN y[u] = DOMAIN x[u]
                        /\ IsArray(x[u], wcount(x[u])) => IsArray(y[u], wcount(y[u]))

\* x and y have the same words but for word j of t.
OneWritten(x, y, t, j, w) ==
    /\ SameShape(x, y)
    /\ y[t] = [x[t] EXCEPT ![j] = w]
    /\ \A u \in Names : u # t => y[u] = x[u]
    /\ \A k \in DOMAIN x[t] : k # j => y[t][k] = x[t][k]
    /\ y[t][j] = w

LEMMA WordWritten ==
    ASSUME NEW x, IsArrays(x), NEW t \in Names, IsArray(x[t], wcount(x[t])),
           NEW j \in 0 .. (wcount(x[t]) - 1), NEW w \in Word
    PROVE  OneWritten(x, [x EXCEPT ![t][j] = w], t, j, w)
<1> DEFINE y == [x EXCEPT ![t][j] = w]
           z == [x[t] EXCEPT ![j] = w]
<1>1. DOMAIN x = Names
  BY DEF IsArrays, Names
<1>2. y[t] = z /\ \A u \in Names : u # t => y[u] = x[u]
  BY <1>1
<1>3. DOMAIN y = Names /\ IsArrays(y)
  <2>1. y = [u \in Names |-> y[u]]
    BY <1>1
  <2>2. [u \in Names |-> y[u]] = [dst |-> y.dst, tmp |-> y.tmp]
    BY DEF Names
  <2> QED BY <2>1, <2>2 DEF IsArrays, Names
<1>4. IsArray(z, wcount(x[t])) /\ DOMAIN z = DOMAIN x[t] /\ wcount(z) = wcount(x[t])
  BY LowUpdate, ArrayFacts
<1>5. j \in DOMAIN x[t] /\ (\A k \in DOMAIN x[t] : k # j => z[k] = x[t][k]) /\ z[j] = w
  BY ArrayFacts
<1> HIDE DEF y, z
<1>6. OneWritten(x, y, t, j, w)
  <2>1. ASSUME NEW u \in Names
        PROVE  /\ wcount(y[u]) = wcount(x[u]) /\ DOMAIN y[u] = DOMAIN x[u]
               /\ IsArray(x[u], wcount(x[u])) => IsArray(y[u], wcount(y[u]))
    <3>1. CASE u = t
      BY <1>2, <1>4, <3>1
    <3>2. CASE u # t
      BY <1>2, <3>2
    <3> QED BY <3>1, <3>2
  <2> QED BY <1>2, <1>3, <1>5, <2>1 DEF OneWritten, SameShape, z
<1> QED BY <1>6 DEF y

LEMMA SizesFacts ==
    ASSUME Sizes
    PROVE  /\ IsArrays(arrays) /\ op \in {"add", "sub", "mul", "init"}
           /\ \A t \in Names : /\ IsArray(arrays[t], wcount(arrays[t]))
                               /\ wcount(arrays[t]) \in 1..MaxWords /\ wcount(arrays[t]) \in Nat
                               /\ DOMAIN arrays[t] = 0 .. (wcount(arrays[t]) - 1)
                               /\ \A k \in DOMAIN arrays[t] : arrays[t][k] \in Word
           /\ Target \in Names /\ Scaled \in Names
           /\ wcount(b) \in Nat \ {0}
           /\ DOMAIN b = 0 .. (wcount(b) - 1) /\ \A k \in DOMAIN b : b[k] \in Word
<1>1. \A t \in Names : IsArray(arrays[t], wcount(arrays[t])) /\ wcount(arrays[t]) \in 1..MaxWords
  BY DEF Sizes, Names
<1>2. \A t \in Names : /\ wcount(arrays[t]) \in Nat
                       /\ DOMAIN arrays[t] = 0 .. (wcount(arrays[t]) - 1)
                       /\ \A k \in DOMAIN arrays[t] : arrays[t][k] \in Word
  <2> SUFFICES ASSUME NEW t \in Names
               PROVE  /\ wcount(arrays[t]) \in Nat
                      /\ DOMAIN arrays[t] = 0 .. (wcount(arrays[t]) - 1)
                      /\ \A k \in DOMAIN arrays[t] : arrays[t][k] \in Word
    OBVIOUS
  <2> QED BY <1>1, ArrayFacts
<1>3. IsArrays(arrays) /\ op \in {"add", "sub", "mul", "init"}
  BY LoopAssumption DEF Sizes, IsArrays
<1>4. Scaled \in Names /\ Target \in Names
  BY DEF Scaled, Target, Names
<1>5. wcount(b) \in Nat \ {0} /\ DOMAIN b = 0 .. (wcount(b) - 1) /\ \A k \in DOMAIN b : b[k] \in Word
  <2>1. IsArray(b, wcount(b)) /\ wcount(b) # 0
    BY DEF Sizes
  <2> QED BY <2>1, ArrayFacts
<1> QED BY <1>1, <1>2, <1>3, <1>4, <1>5

\* The arguments of an activation do not change, nor do the sizes.
LEMMA SizesStay ==
    ASSUME Sizes, UNCHANGED <<op, a, b>>, IsArrays(arrays)',
           \A t \in Names : (IsArray(arrays[t], wcount(arrays[t])))',
           wcount(arrays.dst)' = wcount(arrays.dst),
           \/ wcount(arrays.tmp)' = wcount(arrays.tmp)
           \/ op = "mul" /\ wcount(arrays.tmp)' = wcount(a) + 1,
           op = "mul" /\ Phase' \in {"scale", "scaled", "accumulate", "accumulated"} =>
              wcount(arrays.tmp)' = wcount(a) + 1
    PROVE  Sizes'
<1>1. /\ (IsArray(arrays.dst, wcount(arrays.dst)))' /\ wcount(arrays.dst)' = wcount(arrays.dst)
      /\ (IsArray(arrays.tmp, wcount(arrays.tmp)))'
      /\ \/ wcount(arrays.tmp)' = wcount(arrays.tmp)
         \/ op = "mul" /\ wcount(arrays.tmp)' = wcount(a) + 1
  BY DEF Names
<1>2. op = "mul" => wcount(a) + 1 \in 1..MaxWords
  BY LoopAssumption, SizeAssumption DEF Sizes
<1>3. wcount(a)' = wcount(a) /\ wcount(b)' = wcount(b) /\ Number(a)' = Number(a)
      /\ Number(b)' = Number(b)
  BY DEF wcount, Number
<1>4. wcount(arrays.tmp)' \in 1..MaxWords /\ wcount(arrays.dst)' \in 1..MaxWords
  BY <1>1, <1>2 DEF Sizes
<1> QED BY <1>1, <1>3, <1>4 DEF Sizes, IsArrays

LEMMA NumberType ==
    ASSUME NEW n, NEW x, IsArray(x, n)
    PROVE  Number(x) \in Nat /\ Number(x) < Weight[n]
<1>1. n \in 0..n
  BY ArrayFacts
<1> QED BY <1>1, NumberIsLow, LowFacts

\* A word written by a chain: nothing is lost, the carry counted.
LEMMA ChainWrites ==
    ASSUME Sizes, NEW t \in Names, NEW j \in 0 .. (wcount(arrays[t]) - 1),
           NEW s, s = Sign, NEW v \in Word,
           arrays' = [arrays EXCEPT ![t][j] = (arrays[t][j] + s * v) % Base],
           at' = j, old' = arrays[t][j], loop_pc' = "chain", chain'.array = t, Target' = t,
           op' = op
    PROVE  /\ \E w \in Word : OneWritten(arrays, arrays', t, j, w)
                              /\ (op # "sub" /\ w >= arrays[t][j] => w >= v)
           /\ Value' = Number(arrays[t]) + s * (v * Weight[j])
<1> USE SizesFacts
<1> DEFINE n == wcount(arrays[t])
           w == (arrays[t][j] + s * v) % Base
           y == [arrays[t] EXCEPT ![j] = w]
<1>1. /\ old' = arrays[t][j] /\ arrays' = [arrays EXCEPT ![t][j] = w]
      /\ at' = j /\ chain'.array = t /\ loop_pc' = "chain" /\ Target' = t
  OBVIOUS
<1>2. j \in 0 .. (n - 1) /\ IsArray(arrays[t], n) /\ n \in Nat
  OBVIOUS
<1>3. arrays[t][j] \in Nat /\ v \in Nat
  <2> HIDE DEF n
  <2>1. arrays[t][j] \in Nat
    BY ONLY <1>2, ArrayFacts
  <2>2. v \in Nat
    BY ONLY v \in Word, SizeAssumption DEF Word
  <2> QED BY <2>1, <2>2
<1>4. CASE op # "sub"
  <2>1. s = 1 /\ arrays[t][j] + s * v = arrays[t][j] + v
    BY <1>3, <1>4 DEF Sign
  <2>2. /\ w \in Word /\ (w >= arrays[t][j] => w >= v)
        /\ Low(y, n) + (IF w < arrays[t][j] THEN Weight[j + 1] ELSE 0)
              = Low(arrays[t], n) + v * Weight[j]
    <3>0. w = (arrays[t][j] + v) % Base
      BY <2>1
    <3> HIDE DEF n, w
    <3>1. LET u == (arrays[t][j] + v) % Base
          IN  /\ u \in Word
              /\ ~(u < arrays[t][j]) => u >= v
              /\ Low([arrays[t] EXCEPT ![j] = u], n)
                    + (IF u < arrays[t][j] THEN Weight[j + 1] ELSE 0)
                 = Low(arrays[t], n) + v * Weight[j]
      BY ONLY <1>2, CarryStep, v \in Word
    <3>2. w \in Nat
      BY <3>0, <3>1, SizeAssumption DEF Word
    <3> QED BY <1>3, <3>0, <3>1, <3>2
  <2> HIDE DEF w
  <2>3. OneWritten(arrays, arrays', t, j, w)
    <3>1. IsArrays(arrays) /\ t \in Names
      OBVIOUS
    <3>2. OneWritten(arrays, [arrays EXCEPT ![t][j] = w], t, j, w)
      BY ONLY <1>2, <2>2, <3>1, WordWritten
    <3> QED BY ONLY <1>1, <3>2
  <2>4. arrays'[t] = y /\ IsArray(y, n)
    <3>1. arrays'[t] = y /\ IsArray(arrays'[t], wcount(arrays'[t])) /\ wcount(arrays'[t]) = n
      BY <1>2, <2>3 DEF OneWritten, SameShape
    <3> QED BY <3>1
  <2>5. Target' = t
    BY <1>1
  <2>6. Wrapped' <=> w < arrays[t][j]
    <3>1. chain'.array = t /\ arrays'[t][j] = w
      BY <1>1, <2>3 DEF OneWritten
    <3> QED BY <1>1, <1>4, <3>1 DEF Wrapped
  <2>7. Pending' = IF w < arrays[t][j] THEN Weight[j + 1] ELSE 0
    <3>1. Sign' = 1 /\ Weight[j + 1] \in Nat
      <4>1. j + 1 \in 0..MaxPower
        <5>1. j \in 0 .. (MaxPower - 1) /\ MaxPower \in Nat
          <6> HIDE DEF n
          <6> QED BY ONLY <1>2, ArrayFacts, WeightFacts
        <5> QED BY ONLY <5>1
      <4> QED BY <1>4, <4>1, WeightFacts DEF Sign
    <3>2. loop_pc' = "chain" /\ at' = j
      BY <1>1
    <3>3. Sign' * Weight[j + 1] = Weight[j + 1]
      BY ONLY <3>1
    <3> QED BY ONLY <2>6, <3>2, <3>3 DEF Pending
  <2>8. Number(y) = Low(y, n) /\ Number(arrays[t]) = Low(arrays[t], n)
    BY <1>2, <2>4, NumberIsLow
  <2>9. Value' = Number(y) + Pending'
    BY <2>4, <2>5 DEF Value
  <2>10. s * (v * Weight[j]) = v * Weight[j]
    <3>1. Weight[j] \in Nat
      BY <1>2, ArrayFacts, WeightFacts
    <3> QED BY <1>3, <2>1, <3>1
  <2>11. Value' = Number(arrays[t]) + s * (v * Weight[j])
    BY <2>2, <2>7, <2>8, <2>9, <2>10
  <2> QED BY <1>1, <1>2, <2>2, <2>3, <2>5, <2>11
<1>5. CASE op = "sub"
  <2>1. s = -1 /\ arrays[t][j] + s * v = arrays[t][j] - v
    BY <1>3, <1>5 DEF Sign
  <2>2. /\ w \in Word
        /\ Low(y, n) - (IF w > arrays[t][j] THEN Weight[j + 1] ELSE 0)
              = Low(arrays[t], n) - v * Weight[j]
    <3>0. w = (arrays[t][j] - v) % Base
      BY <2>1
    <3> HIDE DEF n, w
    <3>1. LET u == (arrays[t][j] - v) % Base
          IN  /\ u \in Word
              /\ Low([arrays[t] EXCEPT ![j] = u], n)
                    - (IF u > arrays[t][j] THEN Weight[j + 1] ELSE 0)
                 = Low(arrays[t], n) - v * Weight[j]
      BY ONLY <1>2, BorrowStep, v \in Word
    <3> QED BY <3>0, <3>1
  <2> HIDE DEF w
  <2>3. OneWritten(arrays, arrays', t, j, w)
    <3>1. IsArrays(arrays) /\ t \in Names
      OBVIOUS
    <3>2. OneWritten(arrays, [arrays EXCEPT ![t][j] = w], t, j, w)
      BY ONLY <1>2, <2>2, <3>1, WordWritten
    <3> QED BY ONLY <1>1, <3>2
  <2>4. arrays'[t] = y /\ IsArray(y, n)
    <3>1. arrays'[t] = y /\ IsArray(arrays'[t], wcount(arrays'[t])) /\ wcount(arrays'[t]) = n
      BY <1>2, <2>3 DEF OneWritten, SameShape
    <3> QED BY <3>1
  <2>5. Target' = t
    BY <1>1
  <2>6. Wrapped' <=> w > arrays[t][j]
    <3>1. chain'.array = t /\ arrays'[t][j] = w
      BY <1>1, <2>3 DEF OneWritten
    <3> QED BY <1>1, <1>5, <3>1 DEF Wrapped
  <2>7. Pending' = 0 - (IF w > arrays[t][j] THEN Weight[j + 1] ELSE 0)
    <3>1. Sign' = -1 /\ Weight[j + 1] \in Nat
      <4>1. j + 1 \in 0..MaxPower
        BY <1>2, ArrayFacts DEF IsArray
      <4> QED BY <1>5, <4>1, WeightFacts DEF Sign
    <3>2. Pending' = IF Wrapped' THEN Sign' * Weight[j + 1] ELSE 0
      BY <1>1 DEF Pending
    <3> QED BY ONLY <2>6, <3>1, <3>2
  <2>8. Number(y) = Low(y, n) /\ Number(arrays[t]) = Low(arrays[t], n)
    BY <1>2, <2>4, NumberIsLow
  <2>9. Value' = Number(y) + Pending'
    BY <2>4, <2>5 DEF Value
  <2>10. /\ s * (v * Weight[j]) = 0 - v * Weight[j] /\ v * Weight[j] \in Nat
         /\ Low(y, n) \in Nat /\ Low(arrays[t], n) \in Nat /\ Weight[j + 1] \in Nat
    <3>1. j \in 0..MaxPower /\ j + 1 \in 0..MaxPower /\ n \in 0..n
      <4>1. j \in 0..MaxPower /\ j \in 0 .. (MaxPower - 1) /\ n \in Nat
        BY <1>2, ArrayFacts
      <4>2. MaxPower \in Nat
        BY WeightFacts
      <4> HIDE DEF n
      <4> QED BY <4>1, <4>2
    <3>2. Weight[j] \in Nat /\ Weight[j + 1] \in Nat
      BY <3>1, WeightFacts
    <3>3. Low(y, n) \in Nat /\ Low(arrays[t], n) \in Nat
      BY <1>2, <2>4, <3>1, LowFacts
    <3>4. v * Weight[j] \in Nat
      <4>1. v \in Nat /\ Weight[j] \in Nat
        BY <1>3, <3>2
      <4> QED BY ONLY <4>1
    <3>5. s * (v * Weight[j]) = 0 - v * Weight[j]
      <4> DEFINE z == v * Weight[j]
      <4> HIDE DEF z
      <4>1. s * z = 0 - z
        BY <2>1, <3>4 DEF z
      <4> QED BY <4>1 DEF z
    <3> QED BY <3>2, <3>3, <3>4, <3>5
  <2>11. Value' = Number(arrays[t]) + s * (v * Weight[j])
    <3> DEFINE z == v * Weight[j]
               c == IF w > arrays[t][j] THEN Weight[j + 1] ELSE 0
    <3>1. z \in Nat /\ c \in Nat /\ s * z = 0 - z
      BY <2>10
    <3>2. Low(y, n) - c = Low(arrays[t], n) - z /\ Pending' = 0 - c
      BY <2>2, <2>7
    <3> HIDE DEF z, c, y, n
    <3>3. Value' = Number(arrays[t]) + s * z
      BY <2>8, <2>9, <2>10, <3>1, <3>2
    <3> QED BY <3>3 DEF z
  <2> QED BY <1>1, <1>2, <1>5, <2>2, <2>3, <2>5, <2>11
<1> QED BY <1>4, <1>5

\* A chain that starts.
LEMMA ChainStarts ==
    ASSUME Sizes, NEW t \in Names, NEW j \in Nat, NEW s, NEW v \in Word, NEW after,
           s = Sign, after \in {"added", "trim", "scaled", "accumulated", "digit"},
           t = IF after = "scaled" THEN Scaled ELSE "dst",
           StartChain(t, j, s, v, after), op' = op
    PROVE  \/ OutOfBounds /\ j >= wcount(arrays[t])
           \/ /\ j \in 0 .. (wcount(arrays[t]) - 1)
              /\ \E w \in Word : OneWritten(arrays, arrays', t, j, w)
                                 /\ (op # "sub" /\ w >= arrays[t][j] => w >= v)
              /\ Value' = Number(arrays[t]) + s * (v * Weight[j])
              /\ at' = j /\ old' \in Word /\ Phase' = after /\ loop_pc' = "chain"
              /\ chain'.array = t /\ Target' = t
              /\ UNCHANGED <<row, col, msw, msw_tmp>>
<1> USE SizesFacts
<1> DEFINE n == wcount(arrays[t])
<1>1. CASE j >= n
  BY <1>1 DEF StartChain
<1>2. CASE ~(j >= n)
  <2>1. j \in 0 .. (n - 1) /\ j \in DOMAIN arrays[t] /\ DOMAIN arrays = Names
    BY <1>2 DEF IsArrays, Names
  <2>2. /\ old' = arrays[t][j] /\ arrays' = [arrays EXCEPT ![t][j] = (arrays[t][j] + s * v) % Base]
        /\ at' = j /\ chain' = [array |-> t, after |-> after] /\ loop_pc' = "chain"
        /\ UNCHANGED <<row, col, msw, msw_tmp>>
    BY <1>2, <2>1 DEF StartChain
  <2>3. Phase' = after /\ chain'.array = t
    BY <2>2 DEF Phase
  <2>4. Target' = t
    BY <2>3 DEF Target, Scaled
  <2>5. /\ \E w \in Word : OneWritten(arrays, arrays', t, j, w)
                           /\ (op # "sub" /\ w >= arrays[t][j] => w >= v)
        /\ Value' = Number(arrays[t]) + s * (v * Weight[j])
    BY ONLY <2>1, <2>2, <2>3, <2>4, ChainWrites, Sizes, t \in Names, s = Sign, v \in Word,
            op' = op
  <2> QED BY <2>1, <2>2, <2>3, <2>4, <2>5
<1> QED BY <1>1, <1>2

\* A chain that goes on hands the carry to the next word.
LEMMA ChainGoesOn ==
    ASSUME Layout, Propagate
    PROVE  /\ loop_pc = "chain" /\ Pending = Sign * Weight[at + 1] /\ Target \in Names
           /\ UNCHANGED <<op, a, b>>
           /\ \/ OutOfBounds /\ at + 1 = wcount(arrays[Target])
              \/ /\ at + 1 \in 0 .. (wcount(arrays[Target]) - 1)
                 /\ \E w \in Word : OneWritten(arrays, arrays', Target, at + 1, w)
                                    /\ (op # "sub" /\ w >= arrays[Target][at + 1] => w >= 1)
                 /\ Value' = Value
                 /\ at' = at + 1 /\ old' \in Word /\ loop_pc' = "chain"
                 /\ UNCHANGED <<row, col, chain, msw, msw_tmp>>
                 /\ Phase' = Phase /\ Target' = Target
<1> USE SizesFacts DEF Layout
<1> DEFINE t == Target
           n == wcount(arrays[t])
           j == at + 1
<1>1. loop_pc = "chain" /\ Wrapped /\ chain.array = t /\ UNCHANGED <<op, a, b>>
      /\ t \in Names
  BY DEF Propagate, Phases
<1>2. Pending = Sign * Weight[j]
  BY <1>1 DEF Pending
<1>3. at \in Nat /\ at < n /\ n \in Nat
  BY <1>1 DEF Indices, Phases
<1>4. CASE j = n
  BY <1>1, <1>2, <1>4 DEF Propagate
<1>5. CASE j # n
  <2>1. j \in 0 .. (n - 1) /\ DOMAIN arrays = Names /\ j \in DOMAIN arrays[t]
    BY <1>1, <1>3, <1>5 DEF IsArrays, Names
  <2>2. arrays[t][j] \in Nat
    BY <1>1, <2>1, SizeAssumption DEF Word
  <2>3. /\ at' = j /\ old' = arrays[t][j] /\ loop_pc' = "chain"
        /\ UNCHANGED <<row, col, chain, msw, msw_tmp>>
        /\ arrays' = [arrays EXCEPT ![t][j] = (arrays[t][j] + Sign * 1) % Base]
    BY <1>1, <1>5, <2>1, <2>2 DEF Propagate, Sign
  <2>4. Phase' = Phase
    BY <1>1, <2>3 DEF Phase
  <2>5. Target' = t /\ chain'.array = t
    BY <1>1, <2>3, <2>4 DEF Target, Scaled
  <2>6. 1 \in Word
    BY SizeAssumption DEF Word
  <2>7. /\ \E w \in Word : OneWritten(arrays, arrays', t, j, w)
                           /\ (op # "sub" /\ w >= arrays[t][j] => w >= 1)
        /\ Value' = Number(arrays[t]) + Sign * (1 * Weight[j])
    <3>1. /\ Sizes /\ t \in Names /\ j \in 0 .. (wcount(arrays[t]) - 1) /\ op' = op
          /\ arrays' = [arrays EXCEPT ![t][j] = (arrays[t][j] + Sign * 1) % Base]
          /\ at' = j /\ old' = arrays[t][j] /\ loop_pc' = "chain" /\ chain'.array = t /\ Target' = t
      BY <1>1, <2>1, <2>3, <2>5
    <3> HIDE DEF t, j
    <3> QED BY ONLY <2>6, <3>1, ChainWrites
  <2>8. Value' = Value
    <3>1. Weight[j] \in Nat
      <4>1. j \in 0..MaxPower
        BY <1>1, <2>1, ArrayFacts
      <4> QED BY <4>1, WeightFacts
    <3> QED BY <1>2, <2>7, <3>1 DEF Value
  <2>9. old' \in Word
    BY <1>1, <2>1, <2>3
  <2> QED BY <1>1, <1>2, <2>1, <2>3, <2>4, <2>5, <2>7, <2>8, <2>9
<1> QED BY <1>4, <1>5

\* A chain ends when it has nothing left to carry.
LEMMA ChainEnds ==
    ASSUME Layout, EndChain
    PROVE  /\ loop_pc = "chain" /\ ~Wrapped /\ Pending = 0 /\ loop_pc' = Phase
           /\ Value = Number(arrays[Target])
           /\ Phase' = Phase /\ Target' = Target /\ Value' = Value /\ Target \in Names
           /\ UNCHANGED <<op, a, b, arrays, row, col, at, old, chain, msw, msw_tmp>>
<1>1. /\ loop_pc = "chain" /\ ~Wrapped /\ loop_pc' = chain.after /\ Phase = chain.after
      /\ UNCHANGED <<op, a, b, arrays, row, col, at, old, chain, msw, msw_tmp>>
  BY DEF EndChain, Phase
<1>2. Phase \in {"added", "trim", "scaled", "accumulated", "digit"}
  BY <1>1 DEF Layout, Phases
<1>3. Phase' = Phase
  BY <1>1, <1>2 DEF Phase
<1>4. Target' = Target
  BY <1>1, <1>3 DEF Target, Scaled
<1>5. Pending = 0 /\ Pending' = 0
  BY <1>1, <1>2 DEF Pending
<1>6. Number(arrays[Target])' = Number(arrays[Target])
  BY <1>1, <1>4
<1>7. Number(arrays[Target]) \in Nat /\ Target \in Names
  <2>1. Target \in Names /\ IsArray(arrays[Target], wcount(arrays[Target]))
    BY SizesFacts DEF Layout
  <2> QED BY <2>1, NumberType
<1> QED BY <1>1, <1>3, <1>4, <1>5, <1>6, <1>7 DEF Value

----------------------------------------------------------------------------
(* The layout is kept.                                                     *)

LEMMA LayoutFacts ==
    ASSUME Layout
    PROVE  /\ \A t \in Names : wcount(arrays[t]) \in 1..MaxWords /\ wcount(arrays[t]) \in Nat
           /\ wcount(b) \in Nat \ {0} /\ row \in 0 .. wcount(b) /\ row \in Nat
           /\ msw \in 0 .. (wcount(arrays.dst) - 1) /\ msw \in Nat
           /\ msw_tmp \in Nat /\ at \in Nat /\ old \in Word /\ col \in -1..MaxWords /\ col \in Int
           /\ MaxWords \in Nat
           /\ wcount(arrays.dst) \in Nat /\ wcount(arrays.tmp) \in Nat
           /\ Scaled \in Names /\ Target \in Names
           /\ op \in {"add", "sub", "mul", "init"}
<1>1. wcount(b) \in Nat \ {0} /\ row \in 0 .. wcount(b) /\ MaxWords \in Nat
      /\ col \in -1..MaxWords
  BY SizesFacts, SizeAssumption DEF Layout, Indices
<1>2. row \in Nat /\ col \in Int
  BY <1>1
<1>3. \A t \in Names : wcount(arrays[t]) \in 1..MaxWords /\ wcount(arrays[t]) \in Nat
  BY SizesFacts DEF Layout
<1>4. /\ msw \in 0 .. (wcount(arrays.dst) - 1) /\ msw_tmp \in Nat /\ at \in Nat /\ old \in Word
      /\ op \in {"add", "sub", "mul", "init"} /\ Scaled \in Names /\ Target \in Names
  BY SizesFacts DEF Layout, Indices
<1>5. wcount(arrays.dst) \in Nat /\ wcount(arrays.tmp) \in Nat
  BY <1>3 DEF Names
<1> QED BY <1>1, <1>2, <1>3, <1>4, <1>5

\* What a step that writes no array, or only words of one, leaves of Sizes.
LEMMA SameArrays ==
    ASSUME Sizes, UNCHANGED <<op, a, b>>,
           arrays' = arrays \/ SameShape(arrays, arrays'),
           op = "mul" /\ Phase' \in {"scale", "scaled", "accumulate", "accumulated"} =>
              Phase \in {"scale", "scaled", "accumulate", "accumulated"}
    PROVE  /\ Sizes' /\ Scaled' = Scaled /\ wcount(b)' = wcount(b)
           /\ \A t \in Names : wcount(arrays[t])' = wcount(arrays[t])
           /\ wcount(arrays.dst)' = wcount(arrays.dst) /\ wcount(arrays.tmp)' = wcount(arrays.tmp)
           /\ wcount(arrays[Scaled])' = wcount(arrays[Scaled])
<1>1. \A t \in Names : wcount(arrays[t])' = wcount(arrays[t])
                       /\ (IsArray(arrays[t], wcount(arrays[t])))'
  <2>1. \A t \in Names : IsArray(arrays[t], wcount(arrays[t]))
    BY SizesFacts
  <2>2. CASE arrays' = arrays
    BY <2>1, <2>2
  <2>3. CASE SameShape(arrays, arrays')
    BY <2>1, <2>3 DEF SameShape
  <2> QED BY <2>2, <2>3
<1>2. IsArrays(arrays)'
  <2>1. CASE arrays' = arrays
    BY <2>1, SizesFacts DEF IsArrays
  <2>2. CASE SameShape(arrays, arrays')
    BY <2>2 DEF SameShape, IsArrays
  <2> QED BY <2>1, <2>2
<1>3. wcount(arrays.dst)' = wcount(arrays.dst) /\ wcount(arrays.tmp)' = wcount(arrays.tmp)
  BY <1>1 DEF Names
<1>4. Scaled' = Scaled /\ wcount(b)' = wcount(b)
  BY DEF Scaled
<1>5. wcount(arrays[Scaled])' = wcount(arrays[Scaled])
  BY <1>1, <1>4, SizesFacts
<1>6. op = "mul" /\ Phase' \in {"scale", "scaled", "accumulate", "accumulated"} =>
        wcount(arrays.tmp)' = wcount(a) + 1
  BY <1>3 DEF Sizes
<1>7. Sizes'
  BY <1>1, <1>2, <1>3, <1>6, SizesStay
<1> QED BY <1>1, <1>3, <1>4, <1>5, <1>7

LEMMA LayoutOob ==
    ASSUME Layout, OutOfBounds, UNCHANGED <<op, a, b>>
    PROVE  Layout'
<1>1. Phase' = "oob" /\ loop_pc' = "oob"
      /\ UNCHANGED <<arrays, row, col, at, old, chain, msw, msw_tmp>>
  BY DEF OutOfBounds, Phase
<1>2. Sizes' /\ wcount(b)' = wcount(b) /\ wcount(arrays.dst)' = wcount(arrays.dst)
  BY <1>1, SameArrays DEF Layout
<1>3. Phases'
  BY <1>1 DEF Phases, Locations
<1>4. Indices'
  BY <1>1, <1>2 DEF Layout, Indices
<1> QED BY <1>2, <1>3, <1>4 DEF Layout

\* A chain that starts in the phase after.
LEMMA LayoutStarts ==
    ASSUME Layout, UNCHANGED <<op, a, b>>, NEW t \in Names, NEW j \in Nat, NEW s, NEW v \in Word,
           NEW after, s = Sign, after \in {"added", "trim", "accumulated", "digit"},
           t = "dst", StartChain(t, j, s, v, after), row < wcount(b),
           \/ after = "added" /\ op = "add"
           \/ after = "trim" /\ op = "sub"
           \/ after = "accumulated" /\ op = "mul" /\ Phase = "accumulate" /\ col <= msw_tmp
           \/ after = "digit" /\ op = "init" /\ Phase = "scale"
    PROVE  Layout'
<1>1. CASE OutOfBounds
  BY <1>1, LayoutOob
<1>2. CASE ~OutOfBounds
  <2>1. /\ j \in 0 .. (wcount(arrays[t]) - 1)
        /\ \E w \in Word : OneWritten(arrays, arrays', t, j, w)
        /\ at' = j /\ old' \in Word /\ Phase' = after /\ loop_pc' = "chain"
        /\ chain'.array = t /\ Target' = t
        /\ UNCHANGED <<row, col, msw, msw_tmp>>
    BY <1>2, ChainStarts DEF Layout
  <2>2. /\ Sizes' /\ Scaled' = Scaled /\ wcount(b)' = wcount(b)
        /\ \A u \in Names : wcount(arrays[u])' = wcount(arrays[u])
        /\ wcount(arrays.dst)' = wcount(arrays.dst) /\ wcount(arrays.tmp)' = wcount(arrays.tmp)
        /\ wcount(arrays[Scaled])' = wcount(arrays[Scaled])
    <3>1. op = "mul" /\ Phase' \in {"scale", "scaled", "accumulate", "accumulated"} =>
              Phase \in {"scale", "scaled", "accumulate", "accumulated"}
      BY <2>1
    <3>2. SameShape(arrays, arrays')
      BY <2>1 DEF OneWritten
    <3> QED BY <2>1, <3>1, <3>2, SameArrays DEF Layout
  <2>3. Phases'
    BY <2>1 DEF Phases, Locations
  <2>4. Indices'
    <3>1. at' < wcount(arrays[Target])'
      BY <2>1, <2>2, LayoutFacts
    <3>2. /\ (row \in 0 .. wcount(b) /\ msw \in 0 .. (wcount(arrays.dst) - 1))'
          /\ (msw_tmp \in Nat /\ at \in Nat /\ old \in Word /\ col \in -1..MaxWords)'
      BY <2>1, <2>2, LayoutFacts
    <3>3. row' < wcount(b)' /\ Phase' \notin {"scale", "scaled"}
      BY <2>1, <2>2
    <3>4. Phase' \in {"accumulate", "accumulated"} =>
            /\ Phase' = "accumulated" /\ 0 <= col' /\ col' <= msw_tmp' + 1 /\ col' <= msw_tmp'
            /\ msw_tmp' < wcount(arrays.tmp)'
      <4>1. Phase = "accumulate" =>
               0 <= col /\ col <= msw_tmp + 1 /\ msw_tmp < wcount(arrays.tmp)
        BY DEF Layout, Indices
      <4> QED BY <2>1, <2>2, <4>1
    <3>5. Phase' = "digit" => msw_tmp' < wcount(arrays.dst)'
      <4>1. Phase = "scale" /\ op = "init" => msw_tmp < wcount(arrays.dst)
        BY DEF Layout, Indices, Scaled
      <4> QED BY <2>1, <2>2, <4>1
    <3> QED BY <3>1, <3>2, <3>3, <3>4, <3>5 DEF Indices
  <2> QED BY <2>2, <2>3, <2>4 DEF Layout
<1> QED BY <1>1, <1>2

\* What multiplies the words is a word, or the radix.
LEMMA MultiplierType ==
    ASSUME Layout, op \in {"mul", "init"}, row < wcount(b)
    PROVE  Multiplier \in 0..Base
<1>1. CASE op = "mul"
  <2>1. row \in 0 .. (wcount(b) - 1) /\ IsArray(b, wcount(b))
    BY LayoutFacts DEF Layout, Sizes
  <2>2. b[row] \in Nat /\ b[row] < Base
    BY <2>1, ArrayFacts
  <2> QED BY <1>1, <2>2, SizeAssumption DEF Multiplier
<1>2. CASE op = "init"
  <2>1. a[0] \in Radixes
    BY <1>2 DEF Layout, Sizes
  <2>2. a[0] \in 0..Base
    <3>1. a[0] <= Base
      BY <2>1, LoopAssumption
    <3>2. a[0] \in 2..36
      BY <2>1, SizeAssumption
    <3> QED BY ONLY <3>1, <3>2, SizeAssumption
  <2> QED BY <1>2, <2>2 DEF Multiplier
<1> QED BY <1>1, <1>2

\* A word is scaled; what does not fit it goes to the next word, where a chain
\* starts.
LEMMA ScaleSplits ==
    ASSUME Layout, Scale
    PROVE  LET x == arrays[Scaled]
               n == wcount(arrays[Scaled])
               product == x[col] * Multiplier
               scaled == Number(x) + (Multiplier - 1) * (x[col] * Weight[col])
           IN  /\ loop_pc = "scale" /\ col \in 0 .. (n - 1) /\ UNCHANGED <<op, a, b>>
               /\ Multiplier \in 0..Base /\ scaled \in Int
               /\ product \in Nat /\ product % Base \in Word /\ product \div Base \in Word
               /\ \/ /\ product \div Base = 0 /\ loop_pc' = "scale" /\ col' = col - 1
                     /\ OneWritten(arrays, arrays', Scaled, col, product % Base)
                     /\ UNCHANGED <<row, at, old, chain, msw, msw_tmp>>
                     /\ Number(arrays[Scaled])' = scaled
                  \/ /\ product \div Base # 0 /\ OutOfBounds /\ col + 1 = n
                     /\ Number([x EXCEPT ![col] = product % Base])
                           + (product \div Base) * Weight[n] = scaled
                  \/ /\ product \div Base # 0 /\ col + 1 \in 0 .. (n - 1)
                     /\ \E y \in [Names -> UNION {Arrays(k) : k \in 0..MaxPower}], w \in Word :
                           /\ OneWritten(arrays, y, Scaled, col, product % Base)
                           /\ OneWritten(y, arrays', Scaled, col + 1, w)
                           /\ w >= x[col + 1] => w >= product \div Base
                     /\ Value' = scaled
                     /\ at' = col + 1 /\ old' \in Word /\ loop_pc' = "chain"
                     /\ chain' = [array |-> Scaled, after |-> "scaled"]
                     /\ Phase' = "scaled" /\ Target' = Scaled
                     /\ UNCHANGED <<row, col, msw, msw_tmp>>
<1> USE SizesFacts, LayoutFacts DEF Layout
<1> DEFINE t == Scaled
           x == arrays[t]
           n == wcount(x)
           m == Multiplier
           product == x[col] * m
           q == product \div Base
           w == product % Base
           scaled == Number(x) + (m - 1) * (x[col] * Weight[col])
           y == [arrays EXCEPT ![t][col] = w]
<1>1. loop_pc = "scale" /\ Phase = "scale" /\ op \in {"mul", "init"} /\ UNCHANGED <<op, a, b>>
      /\ row < wcount(b) /\ col < n /\ col >= 0
  BY DEF Scale, Phase, Phases, Indices
<1>2. col \in 0 .. (n - 1) /\ n \in Nat /\ t \in Names /\ IsArray(x, n) /\ DOMAIN x = 0 .. (n - 1)
      /\ col \in Nat /\ n \in 1..MaxWords
  <2>1. /\ t \in Names /\ IsArray(x, n) /\ DOMAIN x = 0 .. (n - 1)
        /\ n \in 1..MaxWords /\ n \in Nat
    BY SizesFacts
  <2>2. col \in Int /\ col < n /\ col >= 0
    BY <1>1
  <2> HIDE DEF n, x, t
  <2>3. col \in 0 .. (n - 1) /\ col \in Nat
    BY ONLY <2>1, <2>2
  <2> QED BY <2>1, <2>3
<1>3. m \in 0..Base
  BY <1>1, MultiplierType DEF m
<1> HIDE DEF m
<1>4. product \in Nat /\ w \in Word /\ q \in Word
      /\ Low([x EXCEPT ![col] = w], n) + q * Weight[col + 1]
            = Low(x, n) + (m - 1) * (x[col] * Weight[col])
  <2> HIDE DEF n, x
  <2> QED BY ONLY <1>2, <1>3, ScaleStep
<1>5. Number(x) = Low(x, n) /\ Low(x, n) \in Nat
  <2> HIDE DEF n, x
  <2>1. n \in 0..n
    BY <1>2
  <2> QED BY <1>2, <2>1, NumberIsLow, LowFacts
<1>6. scaled \in Int
  <2>1. x[col] \in Nat /\ Weight[col] \in Nat /\ m \in Int
    <3>1. x[col] \in Nat /\ col \in 0..MaxPower
      BY ONLY <1>2, ArrayFacts
    <3>2. m \in Int /\ Weight[col] \in Nat
      BY ONLY <1>3, <3>1, WeightFacts, SizeAssumption
    <3> QED BY <3>1, <3>2
  <2>2. (m - 1) * (x[col] * Weight[col]) \in Int
    BY ONLY <2>1
  <2>3. Number(x) \in Nat
    BY <1>5
  <2> QED BY ONLY <2>2, <2>3 DEF scaled
<1>7. OneWritten(arrays, y, t, col, w)
  <2> HIDE DEF w
  <2>1. IsArrays(arrays)
    OBVIOUS
  <2> QED BY ONLY <1>2, <1>4, <2>1, WordWritten DEF x, n, y
<1>8. /\ y[t] = [x EXCEPT ![col] = w] /\ IsArray(y[t], n) /\ wcount(y[t]) = n
      /\ DOMAIN y[t] = 0 .. (n - 1) /\ IsArrays(y)
      /\ \A k \in 0 .. (n - 1) : k # col => y[t][k] = x[k]
  <2> HIDE DEF y, w
  <2> QED BY <1>2, <1>7 DEF OneWritten, SameShape
<1>9. Number(y[t]) = Low([x EXCEPT ![col] = w], n)
  <2> HIDE DEF y
  <2> QED BY <1>8, NumberIsLow
<1>10. Number(y[t]) + q * Weight[col + 1] = scaled
  BY <1>4, <1>5, <1>9
<1>11. Weight[col + 1] \in Nat /\ Number(y[t]) \in Nat
  <2>1. col + 1 \in 0..MaxPower
    <3>1. col \in 0 .. (MaxPower - 1) /\ MaxPower \in Nat
      BY ONLY <1>2, ArrayFacts, WeightFacts
    <3> QED BY <1>2, <3>1
  <2> HIDE DEF y
  <2> QED BY <1>8, <2>1, WeightFacts, NumberType
<1> HIDE DEF q, w, scaled, product
<1>12. CASE q = 0
  <2>1. arrays' = y /\ col' = col - 1 /\ loop_pc' = "scale"
        /\ UNCHANGED <<row, at, old, chain, msw, msw_tmp>>
    BY <1>12 DEF Scale, q, product, m, x, y, w
  <2>2. Scaled' = t
    BY <1>1 DEF Scaled
  <2>3. Number(arrays[Scaled])' = scaled
    <3> HIDE DEF y
    <3>1. Number(arrays[Scaled])' = Number(y[t])
      BY <2>1, <2>2
    <3>2. q * Weight[col + 1] = 0 /\ Number(y[t]) \in Nat
      BY ONLY <1>11, <1>12
    <3> QED BY ONLY <1>10, <3>1, <3>2
  <2>4. OneWritten(arrays, arrays', Scaled, col, w)
    BY <1>7, <2>1
  <2> QED BY <1>1, <1>2, <1>3, <1>4, <1>6, <1>12, <2>1, <2>3, <2>4
          DEF x, n, m, product, q, w, scaled
<1>13. CASE q # 0 /\ col + 1 >= n
  <2>1. OutOfBounds
    BY <1>13 DEF Scale, q, product, m, x, n
  <2>2. col + 1 = n
    <3>1. col \in 0 .. (n - 1) /\ n \in Nat /\ col + 1 >= n
      BY <1>2, <1>13
    <3> HIDE DEF n
    <3> QED BY ONLY <3>1
  <2>3. Number([x EXCEPT ![col] = w]) + q * Weight[n] = scaled
    BY <1>8, <1>10, <2>2
  <2> QED BY <1>1, <1>2, <1>3, <1>4, <1>6, <1>13, <2>1, <2>2, <2>3
          DEF x, n, m, product, q, w, scaled
<1>14. CASE q # 0 /\ ~(col + 1 >= n)
  <2> DEFINE v == (x[col + 1] + q) % Base
  <2>1. /\ arrays' = [y EXCEPT ![t][col + 1] = (@ + q) % Base]
        /\ old' = x[col + 1] /\ at' = col + 1
        /\ chain' = [array |-> t, after |-> "scaled"] /\ loop_pc' = "chain"
        /\ UNCHANGED <<row, col, msw, msw_tmp>>
    BY <1>14 DEF Scale, q, product, m, x, y, w, n
  <2>2. col + 1 \in 0 .. (n - 1) /\ col + 1 # col /\ x[col + 1] \in Nat /\ x[col + 1] \in Word
    <3>1. col + 1 \in 0 .. (n - 1) /\ col + 1 # col
      <4>1. col \in 0 .. (n - 1) /\ n \in Nat /\ col + 1 < n
        BY <1>2, <1>14
      <4> HIDE DEF n
      <4> QED BY ONLY <4>1
    <3>2. IsArray(x, n)
      BY <1>2
    <3> HIDE DEF x, n
    <3> QED BY ONLY <3>1, <3>2, ArrayFacts
  <2>3. y[t][col + 1] = x[col + 1] /\ DOMAIN y = Names
    BY <1>8, <2>2 DEF IsArrays, Names
  <2>4. arrays' = [y EXCEPT ![t][col + 1] = v]
    <3> HIDE DEF y
    <3> QED BY <1>2, <1>8, <2>1, <2>2, <2>3
  <2>5. /\ v \in Word /\ (v >= x[col + 1] => v >= q)
        /\ (v < x[col + 1] <=> x[col + 1] + q >= Base)
        /\ Low([y[t] EXCEPT ![col + 1] = v], n)
             + (IF v < x[col + 1] THEN Weight[(col + 1) + 1] ELSE 0)
             = Low(y[t], n) + q * Weight[col + 1]
    <3> DEFINE z == y[t]
    <3>1. IsArray(z, n) /\ z[col + 1] = x[col + 1]
      BY <1>8, <2>3
    <3> HIDE DEF z, y, x, n
    <3>2. LET u == (z[col + 1] + q) % Base
          IN  /\ u \in Word
              /\ u < z[col + 1] <=> z[col + 1] + q >= Base
              /\ ~(u < z[col + 1]) => u >= q
              /\ Low([z EXCEPT ![col + 1] = u], n)
                   + (IF u < z[col + 1] THEN Weight[(col + 1) + 1] ELSE 0)
                   = Low(z, n) + q * Weight[col + 1]
      BY ONLY <1>4, <2>2, <3>1, CarryStep
    <3>3. v = (z[col + 1] + q) % Base
      BY <3>1
    <3> HIDE DEF v
    <3>4. v \in Nat
      BY <3>2, <3>3, SizeAssumption DEF Word
    <3>5. /\ v \in Word /\ (~(v < z[col + 1]) => v >= q)
          /\ (v < z[col + 1] <=> z[col + 1] + q >= Base)
          /\ Low([z EXCEPT ![col + 1] = v], n)
               + (IF v < z[col + 1] THEN Weight[(col + 1) + 1] ELSE 0)
               = Low(z, n) + q * Weight[col + 1]
      BY ONLY <3>2, <3>3
    <3>6. v >= x[col + 1] => ~(v < z[col + 1])
      BY ONLY <2>2, <3>1, <3>4
    <3>7. z = y[t]
      BY DEF z
    <3> QED BY ONLY <3>1, <3>5, <3>6, <3>7
  <2> HIDE DEF v, y
  <2>6. OneWritten(y, arrays', t, col + 1, v)
    <3> HIDE DEF x, n, t
    <3>1. OneWritten(y, [y EXCEPT ![t][col + 1] = v], t, col + 1, v)
      BY ONLY <1>2, <1>8, <2>2, <2>5, WordWritten
    <3> QED BY ONLY <2>4, <3>1
  <2>7. /\ arrays'[t] = [y[t] EXCEPT ![col + 1] = v] /\ arrays'[t][col + 1] = v
        /\ IsArray(arrays'[t], n)
    <3> HIDE DEF x, n, t
    <3> QED BY ONLY <1>2, <1>8, <2>6 DEF OneWritten, SameShape
  <2>8. Phase' = "scaled"
    BY <2>1 DEF Phase
  <2>9. Target' = t
    BY <1>1, <2>8 DEF Target, Scaled
  <2>10. Wrapped' <=> v < x[col + 1]
    BY <1>1, <2>1, <2>7 DEF Wrapped
  <2>11. Pending' = IF v < x[col + 1] THEN Weight[(col + 1) + 1] ELSE 0
    <3>1. Sign' = 1
      BY <1>1 DEF Sign
    <3>2. Weight[(col + 1) + 1] \in Nat
      <4>1. col + 1 \in 0 .. (MaxPower - 1) /\ MaxPower \in Nat
        BY ONLY <1>2, <2>2, ArrayFacts, WeightFacts
      <4>2. (col + 1) + 1 \in 0..MaxPower
        BY ONLY <1>2, <4>1
      <4> QED BY ONLY <4>2, WeightFacts
    <3>3. Pending' = IF Wrapped' THEN Sign' * Weight[at' + 1] ELSE 0
      BY <2>1 DEF Pending
    <3>4. Pending' = IF v < x[col + 1] THEN 1 * Weight[(col + 1) + 1] ELSE 0
      BY <2>1, <2>10, <3>1, <3>3
    <3> HIDE DEF x
    <3> QED BY ONLY <3>2, <3>4
  <2>12. Value' = scaled
    <3>1. Value' = Number(arrays'[t]) + Pending'
      BY <2>9 DEF Value
    <3>2. Number(arrays'[t]) = Low([y[t] EXCEPT ![col + 1] = v], n)
      <4> HIDE DEF x, n, t
      <4> QED BY ONLY <2>7, NumberIsLow
    <3>3. Value' = Low(y[t], n) + q * Weight[col + 1]
      BY <2>5, <2>11, <3>1, <3>2
    <3>4. Low(y[t], n) = Number(y[t])
      BY <1>8, NumberIsLow
    <3> QED BY <1>10, <3>3, <3>4
  <2>13. y \in [Names -> UNION {Arrays(k) : k \in 0..MaxPower}]
    <3>1. \A u \in Names : y[u] \in UNION {Arrays(k) : k \in 0..MaxPower}
      <4>1. \A u \in Names : IsArray(y[u], wcount(y[u]))
        BY <1>7 DEF OneWritten, SameShape
      <4> QED BY <4>1 DEF IsArray
    <3>2. y = [u \in Names |-> y[u]]
      <4>1. IsArrays(y)
        BY <1>8
      <4>2. DOMAIN y = Names
        BY <2>3
      <4> QED BY <4>1, <4>2 DEF IsArrays, Names
    <3> QED BY <3>1, <3>2
  <2>14. q \in Nat
    BY <1>4, SizeAssumption DEF Word
  <2>15. /\ q # 0 /\ col + 1 \in 0 .. (n - 1)
         /\ \E z \in [Names -> UNION {Arrays(k) : k \in 0..MaxPower}], u \in Word :
               /\ OneWritten(arrays, z, t, col, w)
               /\ OneWritten(z, arrays', t, col + 1, u)
               /\ u >= x[col + 1] => u >= q
    BY <1>7, <1>14, <2>2, <2>5, <2>6, <2>13
  <2>16. old' \in Word
    BY <2>1, <2>2
  <2> QED BY <1>1, <1>2, <1>3, <1>4, <1>6, <2>1, <2>8, <2>9, <2>12, <2>15, <2>16
          DEF x, n, m, product, q, w, scaled
<1>15. n \in Nat /\ col + 1 \in Nat
  BY <1>2
<1> QED BY <1>12, <1>13, <1>14, <1>15

----------------------------------------------------------------------------
(* The layout at the start of an activation.                               *)

LEMMA OperandFacts ==
    ASSUME NEW x \in Operands
    PROVE  wcount(x) \in 1..MaxLen /\ IsArray(x, wcount(x)) /\ wcount(x) + 1 \in 1..MaxWords
<1>1. PICK n \in 1..MaxLen : x \in Arrays(n)
  BY DEF Operands
<1>2. n \in 0..MaxPower /\ n + 1 \in 1..MaxWords
  BY LoopAssumption, SizeAssumption DEF MaxPower
<1>3. IsArray(x, n)
  BY <1>1, <1>2 DEF IsArray
<1>4. wcount(x) = n
  BY <1>3, ArrayFacts
<1> QED BY <1>2, <1>3, <1>4

LEMMA ZerosFacts ==
    ASSUME NEW n \in 1..MaxWords
    PROVE  IsArray(Zeros(n), n) /\ wcount(Zeros(n)) = n
<1>1. n \in 0..MaxPower /\ 0 \in Word
  BY SizeAssumption DEF MaxPower, Word
<1>2. IsArray(Zeros(n), n)
  BY <1>1 DEF Zeros, IsArray, Arrays
<1> QED BY <1>2, ArrayFacts

LEMMA ExtendedFacts ==
    ASSUME NEW x, NEW n, IsArray(x, n), n + 1 \in 1..MaxWords, NEW word \in Word
    PROVE  /\ IsArray(Extended(x, word), n + 1) /\ wcount(Extended(x, word)) = n + 1
           /\ Extended(x, word)[n] = word
           /\ \A k \in 0 .. (n - 1) : Extended(x, word)[k] = x[k]
           /\ Number(Extended(x, word)) = Number(x) + word * Weight[n]
<1> DEFINE y == Extended(x, word)
<1>1. n \in Nat /\ wcount(x) = n /\ n + 1 \in 0..MaxPower /\ n \in 0..n /\ n \in 0 .. ((n + 1) - 1)
      /\ (n + 1) - 1 = n
  BY ArrayFacts, SizeAssumption DEF MaxPower
<1>2. y = [k \in 0..n |-> IF k = n THEN word ELSE x[k]]
  BY <1>1 DEF Extended
<1>3. \A k \in 0 .. (n - 1) : y[k] = x[k] /\ x[k] \in Word
  BY <1>1, <1>2, ArrayFacts
<1>4. y[n] = word
  BY <1>1, <1>2
<1>5. \A k \in 0..n : y[k] \in Word
  BY <1>1, <1>3, <1>4
<1>6. IsArray(y, n + 1)
  BY <1>1, <1>2, <1>5 DEF IsArray, Arrays
<1>7. wcount(y) = n + 1
  BY <1>6, ArrayFacts
<1> HIDE DEF y
<1>8. Number(y) = Low(y, n) + y[n] * Weight[n]
  BY <1>1, <1>6, NumberIsLow, LowStep
<1>9. Low(y, n) = Low(x, n) /\ Low(x, n) = Number(x)
  BY <1>3, LowDepends, NumberIsLow
<1> QED BY <1>3, <1>4, <1>6, <1>7, <1>8, <1>9 DEF y

LEMMA DigitsFacts ==
    ASSUME NEW base \in Radixes, NEW x \in Digits(base)
    PROVE  /\ wcount(x) \in 1..MaxDigits /\ IsArray(x, wcount(x))
           /\ \A k \in DOMAIN x : x[k] < base
           /\ get_blen_from_slen(wcount(x), base) \in 1..MaxWords
<1>1. PICK n \in 1..MaxDigits : x \in [0 .. (n - 1) -> 0 .. (base - 1)]
  BY DEF Digits
<1>2. base \in 2..36 /\ base <= Base /\ n \in 0..MaxPower
  BY <1>1, LoopAssumption, SizeAssumption DEF MaxPower
<1>3. 0 .. (base - 1) \subseteq Word
  BY <1>2, SizeAssumption DEF Word
<1>4. IsArray(x, n)
  BY <1>1, <1>2, <1>3 DEF IsArray, Arrays
<1>5. wcount(x) = n
  BY <1>4, ArrayFacts
<1>6. \A k \in DOMAIN x : x[k] < base
  BY <1>1, <1>2
<1>7. n \in 0..MaxDigits /\ n > 0 /\ Power[base][n] <= Weight[MaxWords]
  BY <1>1, LoopAssumption, SizeAssumption
<1>8. 0 \in 0 .. (Power[base][n] - 1)
  <2>1. Power[base][n] \in Nat \ {0}
    BY <1>2, PowerPositive
  <2> QED BY ONLY <2>1
<1>9. get_blen_from_slen(n, base) \in 1..MaxWords
  BY <1>7, <1>8, NumeralFits
<1> QED BY <1>1, <1>4, <1>5, <1>6, <1>9

LEMMA LayoutInit ==
    ASSUME LoopInit
    PROVE  Layout
<1>1. /\ row = 0 /\ col = 0 /\ at = 0 /\ old = 0 /\ msw_tmp = 0 /\ loop_pc = "row"
      /\ msw = CASE op = "init" -> 0 [] op = "add" -> wcount(a) - 2 [] OTHER -> wcount(a) - 1
  BY DEF LoopInit
<1>2. Phase = "row" /\ 0 \in Word /\ MaxWords \in Nat
  BY <1>1, SizeAssumption DEF Phase, Word
<1>3. 1 \in 1..MaxWords
  BY SizeAssumption
<1>4. IsArray(Zeros(1), wcount(Zeros(1))) /\ wcount(Zeros(1)) \in 1..MaxWords
  BY <1>3, ZerosFacts
<1>5. ASSUME NEW f, NEW x, NEW y, NEW dst, Start(f, x, y, dst), IsArray(dst, wcount(dst))
      PROVE  /\ arrays = [dst |-> arrays.dst, tmp |-> arrays.tmp]
             /\ op = f /\ a = x /\ b = y /\ arrays.dst = dst
             /\ IsArray(arrays.dst, wcount(arrays.dst))
             /\ IsArray(arrays.tmp, wcount(arrays.tmp)) /\ wcount(arrays.tmp) \in 1..MaxWords
  <2>1. arrays = [dst |-> dst, tmp |-> Zeros(1)]
    BY <1>5 DEF Start
  <2> QED BY <1>4, <1>5, <2>1 DEF Start
<1>6. Sizes /\ msw \in 0 .. (wcount(arrays.dst) - 1)
  <2>1. CASE "add" \in Ops /\ \E max, min \in Operands, next \in Word :
                /\ Number(max) >= Number(min)
                /\ Start("add", Extended(max, next), min, Extended(max, next))
    <3>1. PICK max \in Operands, min \in Operands, next \in Word :
             Start("add", Extended(max, next), min, Extended(max, next))
      BY <2>1
    <3>2. /\ IsArray(Extended(max, next), wcount(Extended(max, next)))
          /\ wcount(Extended(max, next)) = wcount(max) + 1
          /\ wcount(max) \in Nat \ {0}
          /\ wcount(max) + 1 \in 1..MaxWords
      BY OperandFacts, ExtendedFacts, LoopAssumption
    <3>3. IsArray(min, wcount(min)) /\ wcount(min) # 0
      BY OperandFacts, LoopAssumption
    <3>4. /\ arrays = [dst |-> arrays.dst, tmp |-> arrays.tmp]
          /\ op = "add" /\ a = Extended(max, next) /\ b = min /\ arrays.dst = Extended(max, next)
          /\ IsArray(arrays.dst, wcount(arrays.dst))
          /\ IsArray(arrays.tmp, wcount(arrays.tmp)) /\ wcount(arrays.tmp) \in 1..MaxWords
      BY <1>5, <3>1, <3>2
    <3>5. msw = wcount(a) - 2
      BY <1>1, <3>4
    <3> QED BY <2>1, <3>2, <3>3, <3>4, <3>5 DEF Sizes
  <2>2. CASE "sub" \in Ops /\ \E max, min \in Operands :
                Number(max) >= Number(min) /\ Start("sub", max, min, max)
    <3>1. PICK max \in Operands, min \in Operands :
             Number(max) >= Number(min) /\ Start("sub", max, min, max)
      BY <2>2
    <3>2. IsArray(max, wcount(max)) /\ wcount(max) \in 1..MaxWords /\ wcount(max) \in Nat \ {0}
      BY OperandFacts, LoopAssumption, SizeAssumption
    <3>3. IsArray(min, wcount(min)) /\ wcount(min) # 0
      BY OperandFacts, LoopAssumption
    <3>4. /\ arrays = [dst |-> arrays.dst, tmp |-> arrays.tmp]
          /\ op = "sub" /\ a = max /\ b = min /\ arrays.dst = max
          /\ IsArray(arrays.dst, wcount(arrays.dst))
          /\ IsArray(arrays.tmp, wcount(arrays.tmp)) /\ wcount(arrays.tmp) \in 1..MaxWords
      BY <1>5, <3>1, <3>2
    <3>5. msw = wcount(a) - 1
      BY <1>1, <3>4
    <3> QED BY <2>2, <3>1, <3>2, <3>3, <3>4, <3>5 DEF Sizes
  <2>3. CASE "mul" \in Ops /\ \E x, y \in Operands :
                Start("mul", x, y, Zeros(wcount(x) + wcount(y)))
    <3>1. PICK x \in Operands, y \in Operands :
             Start("mul", x, y, Zeros(wcount(x) + wcount(y)))
      BY <2>3
    <3>2. /\ IsArray(x, wcount(x)) /\ IsArray(y, wcount(y))
          /\ wcount(x) \in 1..MaxLen /\ wcount(y) \in 1..MaxLen
          /\ wcount(x) \in Nat \ {0} /\ wcount(y) \in Nat \ {0}
      BY OperandFacts, LoopAssumption
    <3>3. wcount(x) + wcount(y) \in 1..MaxWords
      BY <3>2, LoopAssumption, SizeAssumption
    <3>4. /\ IsArray(Zeros(wcount(x) + wcount(y)), wcount(Zeros(wcount(x) + wcount(y))))
          /\ wcount(Zeros(wcount(x) + wcount(y))) = wcount(x) + wcount(y)
      BY <3>3, ZerosFacts
    <3>5. /\ arrays = [dst |-> arrays.dst, tmp |-> arrays.tmp]
          /\ op = "mul" /\ a = x /\ b = y /\ arrays.dst = Zeros(wcount(x) + wcount(y))
          /\ IsArray(arrays.dst, wcount(arrays.dst))
          /\ IsArray(arrays.tmp, wcount(arrays.tmp)) /\ wcount(arrays.tmp) \in 1..MaxWords
      BY <1>5, <3>1, <3>4
    <3>6. msw = wcount(a) - 1
      BY <1>1, <3>5
    <3> QED BY <1>2, <2>3, <3>2, <3>3, <3>4, <3>5, <3>6 DEF Sizes
  <2>4. CASE "init" \in Ops /\ \E base \in Radixes : \E digits \in Digits(base) :
                Start("init", [k \in {0} |-> base], digits,
                      Zeros(get_blen_from_slen(wcount(digits), base)))
    <3>0. PICK base \in Radixes : \E digits \in Digits(base) :
             Start("init", [k \in {0} |-> base], digits,
                   Zeros(get_blen_from_slen(wcount(digits), base)))
      BY <2>4
    <3>1. PICK digits \in Digits(base) :
             Start("init", [k \in {0} |-> base], digits,
                   Zeros(get_blen_from_slen(wcount(digits), base)))
      BY <3>0
    <3> DEFINE blen == get_blen_from_slen(wcount(digits), base)
    <3>2. /\ wcount(digits) \in 1..MaxDigits /\ IsArray(digits, wcount(digits))
          /\ \A k \in DOMAIN digits : digits[k] < base
          /\ blen \in 1..MaxWords
      BY DigitsFacts
    <3>3. IsArray(Zeros(blen), wcount(Zeros(blen))) /\ wcount(Zeros(blen)) = blen
      BY <3>2, ZerosFacts
    <3>4. Start("init", [k \in {0} |-> base], digits, Zeros(blen))
      BY <3>1
    <3> HIDE DEF blen
    <3>5. /\ arrays = [dst |-> arrays.dst, tmp |-> arrays.tmp]
          /\ op = "init" /\ a = [k \in {0} |-> base] /\ b = digits /\ arrays.dst = Zeros(blen)
          /\ IsArray(arrays.dst, wcount(arrays.dst))
          /\ IsArray(arrays.tmp, wcount(arrays.tmp)) /\ wcount(arrays.tmp) \in 1..MaxWords
      BY <1>5, <3>3, <3>4
    <3>6. msw = 0 /\ a[0] = base /\ blen \in Nat /\ wcount(digits) # 0 /\ blen >= 1
      BY <1>1, <3>2, <3>5, SizeAssumption
    <3>7. wcount(arrays.dst) = blen /\ wcount(arrays.dst) = get_blen_from_slen(wcount(b), a[0])
      BY <3>3, <3>5, <3>6 DEF blen
    <3> QED BY <2>4, <3>2, <3>5, <3>6, <3>7 DEF Sizes
  <2> QED BY <2>1, <2>2, <2>3, <2>4 DEF LoopInit
<1>7. Phases
  BY <1>1, <1>2 DEF Phases, Locations
<1>8. Indices
  <2>1. 0 \in 0 .. wcount(b)
    <3>1. wcount(b) \in Nat
      BY <1>6, SizesFacts
    <3> QED BY <3>1
  <2>2. col \in -1..MaxWords
    BY <1>1, <1>2
  <2> QED BY <1>1, <1>2, <1>6, <2>1, <2>2 DEF Indices
<1> QED BY <1>6, <1>7, <1>8 DEF Layout

----------------------------------------------------------------------------
(* The layout at each step.                                                *)

LEMMA LayoutStartRow ==
    ASSUME Layout, StartRow
    PROVE  Layout'
<1>1. /\ loop_pc = "row" /\ row < wcount(b) /\ UNCHANGED <<op, a, b>> /\ Phase = "row"
  BY DEF StartRow, Phase
<1>2. row \in Nat /\ b[row] \in Word /\ wcount(b) \in Nat
  <2>1. row \in 0 .. wcount(b) /\ wcount(b) \in Nat /\ row \in Nat
    BY LayoutFacts
  <2>2. row \in 0 .. (wcount(b) - 1)
    BY <1>1, <2>1
  <2> QED BY <2>1, <2>2, SizesFacts DEF Layout
<1>3. CASE op = "add" /\ StartChain("dst", row, 1, b[row], "added")
  <2>1. Sign = 1 /\ "dst" \in Names
    BY <1>3 DEF Sign, Names
  <2> QED BY <1>1, <1>2, <1>3, <2>1, LayoutStarts
<1>4. CASE op = "sub" /\ StartChain("dst", row, -1, b[row], "trim")
  <2>1. Sign = -1 /\ "dst" \in Names
    BY <1>4 DEF Sign, Names
  <2> QED BY <1>1, <1>2, <1>4, <2>1, LayoutStarts
<1>5. CASE /\ op = "mul"
           /\ arrays' = [arrays EXCEPT !.tmp = Extended(a, 0)]
           /\ col' = wcount(a) - 1 /\ msw_tmp' = wcount(a) - 1
           /\ loop_pc' = "scale"
           /\ UNCHANGED <<row, at, old, chain, msw>>
  <2>1. /\ IsArray(a, wcount(a)) /\ wcount(a) \in 1..MaxLen /\ wcount(a) + 1 \in 1..MaxWords
        /\ wcount(a) \in Nat \ {0}
    BY <1>5, LoopAssumption, SizeAssumption DEF Layout, Sizes
  <2>2. 0 \in Word
    BY SizeAssumption DEF Word
  <2>3. /\ IsArray(Extended(a, 0), wcount(Extended(a, 0)))
        /\ wcount(Extended(a, 0)) = wcount(a) + 1
    BY <2>1, <2>2, ExtendedFacts
  <2>4. arrays' = [dst |-> arrays.dst, tmp |-> Extended(a, 0)]
    <3>1. arrays = [dst |-> arrays.dst, tmp |-> arrays.tmp]
      BY DEF Layout, Sizes
    <3>2. arrays' = [arrays EXCEPT !.tmp = Extended(a, 0)]
      BY <1>5
    <3>3. [[dst |-> arrays.dst, tmp |-> arrays.tmp] EXCEPT !.tmp = Extended(a, 0)]
             = [dst |-> arrays.dst, tmp |-> Extended(a, 0)]
      OBVIOUS
    <3> QED BY ONLY <3>1, <3>2, <3>3
  <2>5. /\ arrays'.dst = arrays.dst /\ arrays'.tmp = Extended(a, 0) /\ IsArrays(arrays)'
        /\ wcount(arrays.dst)' = wcount(arrays.dst) /\ wcount(arrays.tmp)' = wcount(a) + 1
    BY <2>3, <2>4 DEF IsArrays
  <2>6. \A t \in Names : (IsArray(arrays[t], wcount(arrays[t])))'
    BY <2>3, <2>5, SizesFacts DEF Layout, Names
  <2>7. Sizes'
    BY <1>1, <1>5, <2>5, <2>6, SizesStay DEF Layout
  <2>8. Phase' = "scale" /\ Target' = "dst" /\ Scaled' = "tmp" /\ op' = "mul"
    BY <1>1, <1>5 DEF Phase, Target, Scaled
  <2>9. Phases'
    BY <1>5, <2>8 DEF Phases, Locations
  <2>10. Indices'
    <3>1. wcount(b)' = wcount(b) /\ col' \in -1..MaxWords
      BY <1>1, <1>5, <2>1, LayoutFacts
    <3>2. wcount(arrays[Scaled])' = wcount(a) + 1
      BY <2>5, <2>8
    <3> QED BY <1>1, <1>5, <2>1, <2>5, <2>8, <3>1, <3>2, LayoutFacts DEF Indices
  <2> QED BY <2>7, <2>9, <2>10 DEF Layout
<1>6. CASE /\ op = "init"
           /\ col' = msw /\ msw_tmp' = msw
           /\ loop_pc' = "scale"
           /\ UNCHANGED <<arrays, row, at, old, chain, msw>>
  <2>1. Phase' = "scale" /\ Scaled' = "dst" /\ op' = "init"
    BY <1>1, <1>6 DEF Phase, Scaled
  <2>2. Sizes' /\ wcount(b)' = wcount(b) /\ wcount(arrays.dst)' = wcount(arrays.dst)
    BY <1>1, <1>6, <2>1, SameArrays DEF Layout
  <2>3. Phases'
    BY <1>6, <2>1 DEF Phases, Locations
  <2>4. Indices'
    <3>1. msw \in Nat /\ msw < wcount(arrays.dst) /\ msw \in -1..MaxWords
          /\ wcount(arrays.dst) \in Nat
      BY LayoutFacts DEF Names
    <3>2. wcount(arrays[Scaled])' = wcount(arrays.dst)
      BY <2>1, <2>2
    <3> QED BY <1>1, <1>6, <2>1, <2>2, <3>1, <3>2, LayoutFacts DEF Indices
  <2> QED BY <2>2, <2>3, <2>4 DEF Layout
<1> QED BY <1>3, <1>4, <1>5, <1>6 DEF StartRow

LEMMA LayoutPropagate ==
    ASSUME Layout, Propagate
    PROVE  Layout'
<1>1. CASE OutOfBounds
  BY <1>1, ChainGoesOn, LayoutOob
<1>2. CASE ~OutOfBounds
  <2>1. /\ loop_pc = "chain" /\ Target \in Names /\ UNCHANGED <<op, a, b>>
        /\ at + 1 \in 0 .. (wcount(arrays[Target]) - 1)
        /\ \E w \in Word : OneWritten(arrays, arrays', Target, at + 1, w)
        /\ at' = at + 1 /\ old' \in Word /\ loop_pc' = "chain"
        /\ UNCHANGED <<row, col, chain, msw, msw_tmp>>
        /\ Phase' = Phase /\ Target' = Target
    BY <1>2, ChainGoesOn
  <2>2. /\ Sizes' /\ Scaled' = Scaled /\ wcount(b)' = wcount(b)
        /\ \A u \in Names : wcount(arrays[u])' = wcount(arrays[u])
        /\ wcount(arrays.dst)' = wcount(arrays.dst) /\ wcount(arrays.tmp)' = wcount(arrays.tmp)
        /\ wcount(arrays[Scaled])' = wcount(arrays[Scaled])
    <3>1. SameShape(arrays, arrays')
      BY <2>1 DEF OneWritten
    <3> QED BY <2>1, <3>1, SameArrays DEF Layout
  <2>3. wcount(arrays[Target])' = wcount(arrays[Target])
    BY <2>1, <2>2
  <2>4. Phases'
    BY <2>1 DEF Layout, Phases
  <2>5. Indices'
    <3>1. at' \in Nat /\ at' < wcount(arrays[Target])' /\ at' > at
      BY <2>1, <2>3, LayoutFacts
    <3>2. Phase' = "scaled" => col' < at'
      BY <2>1, <3>1, LayoutFacts DEF Layout, Indices
    <3> QED BY <2>1, <2>2, <2>3, <3>1, <3>2 DEF Layout, Indices
  <2> QED BY <2>2, <2>4, <2>5 DEF Layout
<1> QED BY <1>1, <1>2

LEMMA LayoutEndChain ==
    ASSUME Layout, EndChain
    PROVE  Layout'
<1>1. /\ loop_pc = "chain" /\ loop_pc' = Phase /\ Phase' = Phase /\ Target' = Target
      /\ UNCHANGED <<op, a, b, arrays, row, col, at, old, chain, msw, msw_tmp>>
  BY ChainEnds
<1>2. Sizes' /\ Scaled' = Scaled
  BY <1>1, SameArrays DEF Layout
<1>3. Phases'
  BY <1>1 DEF Layout, Phases, Locations
<1>4. Indices'
  BY <1>1, <1>2 DEF Layout, Indices
<1> QED BY <1>2, <1>3, <1>4 DEF Layout

\* The steps that only count: they write no array.
LEMMA LayoutCounts ==
    ASSUME Layout, CountAdded \/ Trim \/ CountScaled \/ CountAccumulated \/ CountDigit \/ EndRows
    PROVE  Layout'
<1> USE LayoutFacts
<1>1. UNCHANGED <<op, a, b, arrays, at, old, chain>>
  BY DEF CountAdded, Trim, CountScaled, CountAccumulated, CountDigit, EndRows
<1>2. Phase = loop_pc /\ loop_pc # "chain"
  BY DEF CountAdded, Trim, CountScaled, CountAccumulated, CountDigit, EndRows, Phase
<1>3. loop_pc' # "chain" /\ Phase' = loop_pc'
  BY DEF CountAdded, Trim, CountScaled, CountAccumulated, CountDigit, EndRows, Phase
<1>4. op = "mul" /\ Phase' \in {"scale", "scaled", "accumulate", "accumulated"} =>
         Phase \in {"scale", "scaled", "accumulate", "accumulated"}
  BY <1>2, <1>3
     DEF CountAdded, Trim, CountScaled, CountAccumulated, CountDigit, EndRows, Layout, Phases
<1>5. Sizes' /\ Scaled' = Scaled
  BY <1>1, <1>4, SameArrays DEF Layout
<1>6. /\ wcount(b)' = wcount(b) /\ wcount(arrays.dst)' = wcount(arrays.dst)
      /\ wcount(arrays[Scaled])' = wcount(arrays[Scaled])
  BY <1>1, <1>5
<1>7. CASE CountAdded
  <2>1. /\ Phase = "added" /\ op = "add" /\ loop_pc' = "row" /\ row' = row + 1
        /\ msw' = Higher(msw, at)
        /\ UNCHANGED <<col, msw_tmp>> /\ row < wcount(b) /\ at < wcount(arrays.dst)
    BY <1>2, <1>7 DEF CountAdded, Layout, Phases, Indices, Target
  <2>2. msw' \in 0 .. (wcount(arrays.dst) - 1)
    BY <2>1 DEF Higher
  <2>3. Phases'
    BY <1>1, <1>3, <2>1 DEF Phases, Locations
  <2>4. Indices'
    BY <1>1, <1>3, <1>6, <2>1, <2>2 DEF Indices
  <2> QED BY <1>5, <2>3, <2>4 DEF Layout
<1>8. CASE Trim
  <2>1. /\ Phase = "trim" /\ op = "sub" /\ row < wcount(b) /\ at < wcount(arrays.dst)
        /\ UNCHANGED <<col, msw_tmp>>
    BY <1>2, <1>8 DEF Trim, Layout, Phases, Indices, Target
  <2>2. \/ msw > 0 /\ msw' = msw - 1 /\ row' = row /\ loop_pc' = "trim"
        \/ msw' = msw /\ row' = row + 1 /\ loop_pc' = "row"
    BY <1>2, <1>8, <2>1 DEF Trim
  <2>3. msw' \in 0 .. (wcount(arrays.dst) - 1)
    BY <2>2
  <2>4. Phases'
    BY <1>1, <1>3, <2>1, <2>2 DEF Phases, Locations
  <2>5. Target' = "dst" /\ Phase' \in {"trim", "row"}
    BY <1>3, <2>2 DEF Target
  <2>6. Indices'
    BY <1>1, <1>3, <1>6, <2>1, <2>2, <2>3, <2>5 DEF Indices
  <2> QED BY <1>5, <2>4, <2>6 DEF Layout
<1>9. CASE CountScaled
  <2>1. /\ Phase = "scaled" /\ op \in {"mul", "init"} /\ row < wcount(b)
        /\ Target = Scaled /\ at < wcount(arrays[Scaled]) /\ msw_tmp < wcount(arrays[Scaled])
        /\ 0 <= col /\ col < at
        /\ msw_tmp' = Higher(msw_tmp, at) /\ col' = col - 1 /\ loop_pc' = "scale"
        /\ UNCHANGED <<row, msw>>
    BY <1>2, <1>9 DEF CountScaled, Layout, Phases, Indices, Target
  <2>2. msw_tmp' \in Nat /\ msw_tmp' < wcount(arrays[Scaled])
    BY <2>1 DEF Higher
  <2>3. Phases'
    BY <1>1, <1>3, <2>1 DEF Phases, Locations
  <2>4. col' \in -1..MaxWords /\ col' < wcount(arrays[Scaled])
    BY <2>1
  <2>5. Indices'
    BY <1>1, <1>3, <1>6, <2>1, <2>2, <2>4 DEF Indices
  <2> QED BY <1>5, <2>3, <2>5 DEF Layout
<1>10. CASE CountAccumulated
  <2>1. /\ Phase = "accumulated" /\ op = "mul" /\ row < wcount(b)
        /\ at < wcount(arrays.dst) /\ 0 <= col /\ col <= msw_tmp /\ msw_tmp < wcount(arrays.tmp)
        /\ msw' = Higher(msw, at) /\ col' = col + 1 /\ loop_pc' = "accumulate"
        /\ UNCHANGED <<row, msw_tmp>>
    BY <1>2, <1>10 DEF CountAccumulated, Layout, Phases, Indices, Target
  <2>2. msw' \in 0 .. (wcount(arrays.dst) - 1)
    BY <2>1 DEF Higher
  <2>3. Phases'
    BY <1>1, <1>3, <2>1 DEF Phases, Locations
  <2>4. col' \in -1..MaxWords /\ 0 <= col' /\ col' <= msw_tmp' + 1
        /\ msw_tmp' < wcount(arrays.tmp)'
    <3>1. wcount(arrays.tmp) <= MaxWords /\ "tmp" \in Names
      BY DEF Names
    <3> QED BY <1>1, <2>1, <3>1
  <2>5. Indices'
    BY <1>1, <1>3, <1>6, <2>1, <2>2, <2>4 DEF Indices
  <2> QED BY <1>5, <2>3, <2>5 DEF Layout
<1>11. CASE CountDigit
  <2>1. /\ Phase = "digit" /\ op = "init" /\ row < wcount(b)
        /\ at < wcount(arrays.dst) /\ msw_tmp < wcount(arrays.dst)
        /\ msw' = Higher(msw_tmp, at) /\ row' = row + 1 /\ loop_pc' = "row"
        /\ UNCHANGED <<col, msw_tmp>>
    BY <1>2, <1>11 DEF CountDigit, Layout, Phases, Indices, Target
  <2>2. msw' \in 0 .. (wcount(arrays.dst) - 1)
    BY <2>1 DEF Higher
  <2>3. Phases'
    BY <1>1, <1>3, <2>1 DEF Phases, Locations
  <2>4. Indices'
    BY <1>1, <1>3, <1>6, <2>1, <2>2 DEF Indices
  <2> QED BY <1>5, <2>3, <2>4 DEF Layout
<1>12. CASE EndRows
  <2>1. loop_pc' = "done" /\ UNCHANGED <<row, col, msw, msw_tmp>>
    BY <1>12 DEF EndRows
  <2>2. Phases'
    BY <1>1, <1>3, <2>1 DEF Phases, Locations
  <2>3. Indices'
    BY <1>1, <1>3, <1>6, <2>1 DEF Indices
  <2> QED BY <1>5, <2>2, <2>3 DEF Layout
<1> QED BY <1>7, <1>8, <1>9, <1>10, <1>11, <1>12

LEMMA LayoutScale ==
    ASSUME Layout, Scale
    PROVE  Layout'
<1> USE LayoutFacts
<1> DEFINE x == arrays[Scaled]
           n == wcount(x)
           product == x[col] * Multiplier
<1>1. /\ loop_pc = "scale" /\ col \in 0 .. (n - 1) /\ UNCHANGED <<op, a, b>>
      /\ n \in Nat /\ Phase = "scale"
      /\ \/ /\ loop_pc' = "scale" /\ col' = col - 1
            /\ OneWritten(arrays, arrays', Scaled, col, product % Base)
            /\ UNCHANGED <<row, at, old, chain, msw, msw_tmp>>
         \/ OutOfBounds
         \/ /\ col + 1 \in 0 .. (n - 1)
            /\ \E y \in [Names -> UNION {Arrays(k) : k \in 0..MaxPower}], w \in Word :
                  /\ OneWritten(arrays, y, Scaled, col, product % Base)
                  /\ OneWritten(y, arrays', Scaled, col + 1, w)
            /\ at' = col + 1 /\ old' \in Word /\ loop_pc' = "chain"
            /\ chain' = [array |-> Scaled, after |-> "scaled"]
            /\ Phase' = "scaled" /\ Target' = Scaled
            /\ UNCHANGED <<row, col, msw, msw_tmp>>
  BY ScaleSplits DEF Phase
<1>2. op \in {"mul", "init"} /\ row < wcount(b) /\ msw_tmp < n /\ col < n
  BY <1>1 DEF Layout, Phases, Indices
<1>3. CASE OutOfBounds
  BY <1>1, <1>3, LayoutOob
<1>4. CASE /\ loop_pc' = "scale" /\ col' = col - 1
           /\ OneWritten(arrays, arrays', Scaled, col, product % Base)
           /\ UNCHANGED <<row, at, old, chain, msw, msw_tmp>>
  <2>1. SameShape(arrays, arrays') /\ Phase' = "scale"
    BY <1>4 DEF OneWritten, Phase
  <2>2. /\ Sizes' /\ Scaled' = Scaled /\ wcount(b)' = wcount(b)
        /\ wcount(arrays.dst)' = wcount(arrays.dst)
        /\ wcount(arrays[Scaled])' = n
    BY <1>1, <2>1, SameArrays DEF Layout
  <2>3. Phases'
    BY <1>1, <1>2, <1>4, <2>1 DEF Phases, Locations
  <2>4. col' \in -1..MaxWords /\ col' < n
    BY <1>1, <1>4
  <2>5. Indices'
    <3> HIDE DEF n
    <3> QED BY <1>2, <1>4, <2>1, <2>2, <2>4 DEF Indices
  <2> QED BY <2>2, <2>3, <2>5 DEF Layout
<1>5. CASE /\ col + 1 \in 0 .. (n - 1)
           /\ \E y \in [Names -> UNION {Arrays(k) : k \in 0..MaxPower}], w \in Word :
                  /\ OneWritten(arrays, y, Scaled, col, product % Base)
                  /\ OneWritten(y, arrays', Scaled, col + 1, w)
           /\ at' = col + 1 /\ old' \in Word /\ loop_pc' = "chain"
           /\ chain' = [array |-> Scaled, after |-> "scaled"]
           /\ Phase' = "scaled" /\ Target' = Scaled
           /\ UNCHANGED <<row, col, msw, msw_tmp>>
  <2>1. SameShape(arrays, arrays')
    <3>1. PICK y \in [Names -> UNION {Arrays(k) : k \in 0..MaxPower}], w \in Word :
                  /\ OneWritten(arrays, y, Scaled, col, product % Base)
                  /\ OneWritten(y, arrays', Scaled, col + 1, w)
      BY <1>5
    <3> HIDE DEF product
    <3> QED BY <3>1 DEF OneWritten, SameShape
  <2>2. /\ Sizes' /\ Scaled' = Scaled /\ wcount(b)' = wcount(b)
        /\ wcount(arrays.dst)' = wcount(arrays.dst)
        /\ wcount(arrays[Scaled])' = n
    BY <1>1, <1>5, <2>1, SameArrays DEF Layout
  <2>3. Phases'
    BY <1>1, <1>2, <1>5, <2>2 DEF Phases, Locations
  <2>4. col' \in -1..MaxWords /\ 0 <= col' /\ col' < at' /\ at' < n /\ at' \in Nat
    BY <1>1, <1>5
  <2>5. Indices'
    <3> HIDE DEF n
    <3> QED BY <1>2, <1>5, <2>2, <2>4 DEF Indices
  <2> QED BY <2>2, <2>3, <2>5 DEF Layout
<1> QED BY <1>1, <1>3, <1>4, <1>5

LEMMA LayoutEndScale ==
    ASSUME Layout, EndScale
    PROVE  Layout'
<1> USE LayoutFacts
<1>1. /\ loop_pc = "scale" /\ col < 0 /\ UNCHANGED <<op, a, b>> /\ Phase = "scale"
      /\ row < wcount(b)
  BY DEF EndScale, Layout, Indices, Phase
<1>2. CASE /\ op = "mul"
           /\ col' = 0 /\ loop_pc' = "accumulate"
           /\ UNCHANGED <<arrays, row, at, old, chain, msw, msw_tmp>>
  <2>1. Phase' = "accumulate" /\ Scaled = "tmp" /\ msw_tmp < wcount(arrays.tmp)
    BY <1>1, <1>2 DEF Phase, Layout, Indices, Scaled
  <2>2. Sizes' /\ Scaled' = Scaled /\ wcount(b)' = wcount(b)
        /\ wcount(arrays.dst)' = wcount(arrays.dst) /\ wcount(arrays.tmp)' = wcount(arrays.tmp)
    BY <1>1, <1>2, SameArrays DEF Layout
  <2>3. Phases'
    BY <1>1, <1>2, <2>1 DEF Phases, Locations
  <2>4. Indices'
    BY <1>1, <1>2, <2>1, <2>2 DEF Indices
  <2> QED BY <2>2, <2>3, <2>4 DEF Layout
<1>3. CASE op = "init" /\ StartChain("dst", 0, 1, b[row], "digit")
  <2>1. Sign = 1 /\ "dst" \in Names
    BY <1>3 DEF Sign, Names
  <2>2. b[row] \in Word
    <3>1. row \in 0 .. (wcount(b) - 1)
      BY <1>1
    <3> QED BY <3>1, SizesFacts DEF Layout
  <2> QED BY <1>1, <1>3, <2>1, <2>2, LayoutStarts
<1> QED BY <1>2, <1>3 DEF EndScale

LEMMA LayoutAccumulate ==
    ASSUME Layout, Accumulate
    PROVE  Layout'
<1> USE LayoutFacts
<1>1. /\ loop_pc = "accumulate" /\ UNCHANGED <<op, a, b>> /\ Phase = "accumulate"
      /\ row < wcount(b) /\ op = "mul"
      /\ 0 <= col /\ col <= msw_tmp + 1 /\ msw_tmp < wcount(arrays.tmp)
  BY DEF Accumulate, Layout, Phases, Indices, Phase
<1>2. CASE col <= msw_tmp
  <2>1. Sign = 1 /\ "dst" \in Names
    BY <1>1 DEF Sign, Names
  <2>2. arrays.tmp[col] \in Word
    <3>1. col \in 0 .. (wcount(arrays.tmp) - 1) /\ "tmp" \in Names
      BY <1>1, <1>2 DEF Names
    <3> QED BY <3>1, SizesFacts DEF Layout
  <2>3. col + row \in Nat
    BY <1>1
  <2>4. StartChain("dst", col + row, 1, arrays.tmp[col], "accumulated")
    BY <1>2 DEF Accumulate
  <2> QED BY <1>1, <1>2, <2>1, <2>2, <2>3, <2>4, LayoutStarts
<1>3. CASE ~(col <= msw_tmp)
  <2>1. /\ row' = row + 1 /\ loop_pc' = "row"
        /\ UNCHANGED <<arrays, col, at, old, chain, msw, msw_tmp>>
    BY <1>3 DEF Accumulate
  <2>2. Phase' = "row"
    BY <2>1 DEF Phase
  <2>3. Sizes' /\ Scaled' = Scaled /\ wcount(b)' = wcount(b)
        /\ wcount(arrays.dst)' = wcount(arrays.dst) /\ wcount(arrays.tmp)' = wcount(arrays.tmp)
    BY <1>1, <2>1, <2>2, SameArrays DEF Layout
  <2>4. Phases'
    BY <2>1, <2>2 DEF Phases, Locations
  <2>5. Indices'
    BY <1>1, <2>1, <2>2, <2>3 DEF Indices
  <2> QED BY <2>3, <2>4, <2>5 DEF Layout
<1> QED BY <1>2, <1>3

\* The names of the steps.
LEMMA LayoutStep ==
    ASSUME Layout, LoopNext
    PROVE  Layout'
BY LayoutStartRow, LayoutPropagate, LayoutEndChain, LayoutCounts, LayoutScale, LayoutEndScale,
   LayoutAccumulate DEF LoopNext

\* Printing leaves the loop as it is.
LEMMA PrintingFacts ==
    ASSUME WordsNext \/ UNCHANGED words_vars
    PROVE  LoopNext \/ UNCHANGED loop_vars
BY DEF WordsNext, Compute, PrintResult, Printing, words_vars

LEMMA LayoutSame ==
    ASSUME Layout, UNCHANGED loop_vars
    PROVE  Layout'
<1>1. UNCHANGED <<op, a, b, arrays, row, col, at, old, chain, msw, msw_tmp, loop_pc>>
  BY DEF loop_vars
<1>2. Phase' = Phase /\ Scaled' = Scaled
  BY <1>1 DEF Phase, Scaled
<1>3. Target' = Target
  BY <1>2 DEF Target
<1>4. Sizes'
  BY <1>1, <1>2, SameArrays DEF Layout
<1>5. Phases'
  BY <1>1, <1>2, <1>3 DEF Layout, Phases
<1>6. Indices'
  BY <1>1, <1>2, <1>3 DEF Layout, Indices
<1> QED BY <1>4, <1>5, <1>6 DEF Layout

----------------------------------------------------------------------------
(* What the words of b add to the result.                                  *)

LEMMA OperandNumbers ==
    ASSUME Layout
    PROVE  /\ op \in {"add", "sub", "mul"} => Number(a) \in Nat
           /\ \A n \in 0 .. wcount(b) : Prefix(n) \in Nat /\ Prefix(n) < Weight[n]
                                        /\ n \in 0..MaxPower
           /\ op = "init" =>
                /\ a[0] \in Radixes /\ a[0] \in Nat /\ a[0] >= 2
                /\ wcount(b) \in 0..MaxPower
                /\ \A n \in 0 .. wcount(b) : NumeralPrefix(n) \in Nat
                                             /\ NumeralPrefix(n) < Power[a[0]][n]
<1>1. IsArray(b, wcount(b)) /\ (op \in {"add", "sub", "mul"} => IsArray(a, wcount(a)))
  BY DEF Layout, Sizes
<1>2. \A n : Prefix(n) = Low(b, n)
  BY DEF Prefix, Low
<1>3. \A n \in 0 .. wcount(b) : Low(b, n) \in Nat /\ Low(b, n) < Weight[n]
  BY <1>1, LowFacts
<1>4. wcount(b) \in 0..MaxPower /\ MaxPower \in Nat
  BY <1>1, WeightFacts DEF IsArray
<1>5. ASSUME op = "init"
      PROVE  /\ a[0] \in Radixes /\ a[0] \in Nat /\ a[0] >= 2
             /\ \A n \in 0 .. wcount(b) : NumeralPrefix(n) \in Nat
                                          /\ NumeralPrefix(n) < Power[a[0]][n]
  <2>1. a[0] \in Radixes /\ \A k \in DOMAIN b : b[k] < a[0]
    BY <1>5 DEF Layout, Sizes
  <2>2. \A k \in 0 .. (wcount(b) - 1) : b[k] \in Nat /\ b[k] < a[0]
    BY <1>1, <2>1, ArrayFacts
  <2>3. \A n : NumeralPrefix(n) = Numeral(b, a[0], n)
    BY DEF NumeralPrefix, Numeral
  <2>4. \A n \in 0 .. wcount(b) : Numeral(b, a[0], n) \in Nat
                                  /\ Numeral(b, a[0], n) < Power[a[0]][n]
    BY <1>4, <2>1, <2>2, NumeralFacts
  <2> QED BY <2>1, <2>3, <2>4, PowerFacts
<1>6. op \in {"add", "sub", "mul"} => Number(a) \in Nat
  BY <1>1, NumberType
<1>7. \A n \in 0 .. wcount(b) : Prefix(n) \in Nat /\ Prefix(n) < Weight[n]
  BY <1>2, <1>3
<1>8. \A n \in 0 .. wcount(b) : n \in 0..MaxPower
  BY <1>4
<1> QED BY <1>4, <1>5, <1>6, <1>7, <1>8

LEMMA ConsumedOfNone ==
    ASSUME Layout
    PROVE  /\ op \in {"add", "sub"} => Consumed(0) = Number(a)
           /\ op \in {"mul", "init"} => Consumed(0) = 0
<1>1. Prefix(0) = 0
  BY LowOfNone DEF Prefix, Low
<1>2. NumeralPrefix(0) = 0
  BY NumeralOfNone DEF NumeralPrefix, Numeral
<1>3. op \in {"add", "sub", "mul"} => Number(a) \in Nat
  BY OperandNumbers
<1> QED BY <1>1, <1>2, <1>3 DEF Consumed

LEMMA ConsumedStep ==
    ASSUME Layout, NEW n \in 0 .. (wcount(b) - 1)
    PROVE  /\ Consumed(n) \in Int /\ Consumed(n + 1) \in Int
           /\ b[n] \in Nat /\ b[n] \in Word /\ b[n] < Base /\ Weight[n] \in Nat
           /\ op = "add" => Consumed(n + 1) = Consumed(n) + b[n] * Weight[n]
           /\ op = "sub" => Consumed(n + 1) = Consumed(n) - b[n] * Weight[n]
           /\ op = "mul" => Consumed(n + 1) = Consumed(n) + Number(a) * (b[n] * Weight[n])
           /\ op = "init" => Consumed(n + 1) = a[0] * Consumed(n) + b[n]
<1>1. IsArray(b, wcount(b)) /\ wcount(b) \in Nat
  BY SizesFacts DEF Layout, Sizes
<1>2. /\ b[n] \in Nat /\ b[n] \in Word /\ b[n] < Base /\ n \in 0..MaxPower
      /\ n \in 0..wcount(b) /\ n + 1 \in 0..wcount(b) /\ n \in Nat
  BY <1>1, ArrayFacts
<1>3. Weight[n] \in Nat
  BY <1>2, WeightFacts
<1>4. Prefix(n) \in Nat /\ Prefix(n + 1) = Prefix(n) + b[n] * Weight[n]
  <2>1. Low(b, n + 1) = Low(b, n) + b[n] * Weight[n] /\ Low(b, n) \in Nat
    BY <1>1, <1>2, LowStep, LowFacts
  <2>2. Prefix(n) = Low(b, n) /\ Prefix(n + 1) = Low(b, n + 1)
    BY DEF Prefix, Low
  <2> QED BY <2>1, <2>2
<1> DEFINE z == b[n] * Weight[n]
<1>5. z \in Nat
  BY <1>2, <1>3
<1>6. Prefix(n + 1) = Prefix(n) + z
  BY <1>4
<1> HIDE DEF z
<1>7. CASE op \in {"add", "sub"}
  <2>1. Number(a) \in Nat
    BY <1>7, OperandNumbers
  <2>2. /\ op = "add" => Consumed(n) = Number(a) + Prefix(n)
                         /\ Consumed(n + 1) = Number(a) + Prefix(n + 1)
        /\ op = "sub" => Consumed(n) = Number(a) - Prefix(n)
                         /\ Consumed(n + 1) = Number(a) - Prefix(n + 1)
    BY DEF Consumed
  <2>3. /\ Consumed(n) \in Int /\ Consumed(n + 1) \in Int
        /\ op = "add" => Consumed(n + 1) = Consumed(n) + z
        /\ op = "sub" => Consumed(n + 1) = Consumed(n) - z
    BY <1>4, <1>5, <1>6, <1>7, <2>1, <2>2
  <2> QED BY <1>2, <1>3, <1>7, <2>3 DEF z
<1>8. CASE op = "mul"
  <2>1. Number(a) \in Nat
    BY <1>8, OperandNumbers
  <2>2. Consumed(n) = Number(a) * Prefix(n) /\ Consumed(n + 1) = Number(a) * Prefix(n + 1)
    BY <1>8 DEF Consumed
  <2>3. ASSUME NEW x \in Nat, NEW p \in Nat, NEW q \in Nat
        PROVE  x * (p + q) = x * p + x * q /\ x * p \in Int /\ x * (p + q) \in Int
    BY <2>3
  <2>4. Consumed(n) \in Int /\ Consumed(n + 1) \in Int
        /\ Consumed(n + 1) = Consumed(n) + Number(a) * z
    BY <1>4, <1>5, <1>6, <2>1, <2>2, <2>3
  <2> QED BY <1>2, <1>3, <1>8, <2>4 DEF z
<1>9. CASE op = "init"
  <2>1. Consumed(n) = Numeral(b, a[0], n) /\ Consumed(n + 1) = Numeral(b, a[0], n + 1)
    BY <1>9 DEF Consumed, NumeralPrefix, Numeral
  <2>2. a[0] \in Radixes /\ wcount(b) \in 0..MaxPower /\ \A k \in 0 .. (wcount(b) - 1) : b[k] \in Nat
    BY <1>1, <1>9, OperandNumbers, ArrayFacts
  <2>3. Numeral(b, a[0], n + 1) = a[0] * Numeral(b, a[0], n) + b[n]
        /\ Numeral(b, a[0], n) \in Int /\ a[0] \in Int
    BY <2>2, NumeralStep, PowerFacts
  <2>4. a[0] * Numeral(b, a[0], n) \in Int
    BY <2>3
  <2> QED BY <1>2, <1>3, <1>9, <2>1, <2>3, <2>4
<1> QED BY <1>7, <1>8, <1>9, LayoutFacts

\* The result does not depend on where the loop is.
LEMMA ConsumedSame ==
    ASSUME UNCHANGED <<op, a, b>>
    PROVE  /\ \A n : Consumed(n)' = Consumed(n)
           /\ \A n : NumeralPrefix(n)' = NumeralPrefix(n) /\ Prefix(n)' = Prefix(n)
           /\ Number(a)' = Number(a) /\ wcount(a)' = wcount(a) /\ wcount(b)' = wcount(b)
<1>1. \A n : NumeralPrefix(n)' = NumeralPrefix(n) /\ Prefix(n)' = Prefix(n)
  BY DEF NumeralPrefix, Prefix
<1>2. Number(a)' = Number(a) /\ wcount(a)' = wcount(a) /\ wcount(b)' = wcount(b)
  BY DEF Number, wcount
<1>3. \A n : Consumed(n)' = Consumed(n)
  BY <1>1, <1>2 DEF Consumed
<1> QED BY <1>1, <1>2, <1>3

\* Where no chain runs the value is the number.
LEMMA ValueAtRest ==
    ASSUME Layout, loop_pc # "chain"
    PROVE  Value = Number(arrays[Target]) /\ Number(arrays[Target]) \in Nat /\ Phase = loop_pc
<1>1. Pending = 0
  BY DEF Pending
<1>2. Number(arrays[Target]) \in Nat
  BY SizesFacts, NumberType DEF Layout
<1> QED BY <1>1, <1>2 DEF Value, Phase

\* Zero words above the most significant one do not count.
LEMMA TopLow ==
    ASSUME NEW n, NEW x, IsArray(x, n), NEW k \in 0 .. (n - 1), ZeroAbove(x, k)
    PROVE  Low(x, k + 1) = Number(x) /\ Number(x) < Weight[k + 1]
<1>1. k + 1 \in 0..n /\ DOMAIN x = 0 .. (n - 1) /\ n \in Nat
  BY ArrayFacts
<1>2. \A m \in (k + 1) .. (n - 1) : x[m] = 0
  BY <1>1 DEF ZeroAbove
<1>3. Low(x, n) = Low(x, k + 1)
  <2> DEFINE m == k + 1
  <2>1. m \in 0..n /\ \A q \in m .. (n - 1) : x[q] = 0
    BY <1>1, <1>2
  <2> HIDE DEF m
  <2>2. Low(x, n) = Low(x, m)
    BY ONLY <2>1, LowAbove, IsArray(x, n)
  <2> QED BY <2>2 DEF m
<1>4. Low(x, k + 1) < Weight[k + 1]
  BY <1>1, LowFacts
<1>5. Number(x) = Low(x, n)
  BY NumberIsLow
<1> QED BY ONLY <1>3, <1>4, <1>5

----------------------------------------------------------------------------
(* The result is exact at each step.                                       *)

LEMMA ExactOob ==
    ASSUME OutOfBounds
    PROVE  Exact'
<1>1. Phase' = "oob"
  BY DEF OutOfBounds, Phase
<1> QED BY <1>1 DEF Exact

\* Between rows.
LEMMA ExactRow ==
    ASSUME Phase' \in {"row", "done"}, Number(arrays.dst)' = Consumed(row)'
    PROVE  Exact'
BY DEF Exact

\* A word, or a digit, is being added or subtracted.
LEMMA ExactAdding ==
    ASSUME Phase' \in {"added", "trim", "digit"}, Value' = Consumed(row + 1)'
    PROVE  Exact'
BY DEF Exact

LEMMA ExactStartRow ==
    ASSUME Layout, Exact, Tops, StartRow
    PROVE  Exact'
<1>1. /\ loop_pc = "row" /\ row < wcount(b) /\ UNCHANGED <<op, a, b>> /\ Phase = "row"
  BY DEF StartRow, Phase
<1>2. row \in Nat /\ row \in 0 .. (wcount(b) - 1) /\ wcount(b) \in Nat
  BY <1>1, LayoutFacts
<1>3. Number(arrays.dst) = Consumed(row)
  BY <1>1 DEF Exact
<1>4. CASE op = "add" /\ StartChain("dst", row, 1, b[row], "added")
  <2>1. Sign = 1 /\ "dst" \in Names
    BY <1>4 DEF Sign, Names
  <2>2. CASE OutOfBounds
    BY <2>2, ExactOob
  <2>3. CASE ~OutOfBounds
    <3>1. Phase' = "added" /\ row' = row
          /\ Value' = Number(arrays.dst) + 1 * (b[row] * Weight[row])
      <4> DEFINE v == b[row]
                 j == row
      <4>1. v \in Word
        BY <1>2, ConsumedStep
      <4>2. /\ Sizes /\ "dst" \in Names /\ 1 = Sign /\ op' = op /\ ~OutOfBounds /\ j \in Nat
            /\ StartChain("dst", j, 1, v, "added")
        BY <1>1, <1>2, <1>4, <2>1, <2>3 DEF Layout
      <4>3. Phase' = "added" /\ row' = row /\ Value' = Number(arrays.dst) + 1 * (v * Weight[j])
        <5> HIDE DEF v, j
        <5> QED BY ONLY <4>1, <4>2, ChainStarts
      <4> QED BY <4>3
    <3>2. /\ Consumed(row + 1) = Consumed(row) + b[row] * Weight[row]
          /\ b[row] \in Nat /\ Weight[row] \in Nat /\ Consumed(row) \in Int
      BY <1>2, <1>4, ConsumedStep
    <3>3. Value' = Consumed(row + 1)
      BY <1>3, <3>1, <3>2
    <3>4. Consumed(row + 1)' = Consumed(row + 1)
      BY <1>1, <3>1, ConsumedSame
    <3> QED BY <3>1, <3>3, <3>4, ExactAdding
  <2> QED BY <2>2, <2>3
<1>5. CASE op = "sub" /\ StartChain("dst", row, -1, b[row], "trim")
  <2>1. Sign = -1 /\ "dst" \in Names
    BY <1>5 DEF Sign, Names
  <2>2. CASE OutOfBounds
    BY <2>2, ExactOob
  <2>3. CASE ~OutOfBounds
    <3>1. Phase' = "trim" /\ row' = row
          /\ Value' = Number(arrays.dst) + Sign * (b[row] * Weight[row])
      <4>1. StartChain("dst", row, Sign, b[row], "trim") /\ b[row] \in Word
        BY <1>2, <1>5, <2>1, ConsumedStep
      <4> QED BY <1>1, <1>2, <1>5, <2>1, <2>3, <4>1, ChainStarts DEF Layout
    <3>2. /\ Consumed(row + 1) = Consumed(row) - b[row] * Weight[row]
          /\ b[row] \in Nat /\ Weight[row] \in Nat /\ Consumed(row) \in Int
      BY <1>2, <1>5, ConsumedStep
    <3> DEFINE z == b[row] * Weight[row]
    <3>3. Value' = Consumed(row + 1)
      <4>1. z \in Nat
        BY <3>2
      <4>2. Value' = Number(arrays.dst) + Sign * z /\ Consumed(row + 1) = Consumed(row) - z
        BY <3>1, <3>2
      <4> HIDE DEF z
      <4> QED BY <1>3, <2>1, <3>2, <4>1, <4>2
    <3>4. Consumed(row + 1)' = Consumed(row + 1)
      BY <1>1, <3>1, ConsumedSame
    <3> QED BY <3>1, <3>3, <3>4, ExactAdding
  <2> QED BY <2>2, <2>3
<1>6. CASE /\ op = "mul"
           /\ arrays' = [arrays EXCEPT !.tmp = Extended(a, 0)]
           /\ col' = wcount(a) - 1 /\ msw_tmp' = wcount(a) - 1
           /\ loop_pc' = "scale"
           /\ UNCHANGED <<row, at, old, chain, msw>>
  <2>1. Phase' = "scale" /\ Scaled' = "tmp" /\ op' = "mul" /\ Unscaled' = Number(a)
        /\ Multiplier' = b[row] /\ row' = row
    BY <1>1, <1>6, ConsumedSame DEF Phase, Scaled, Unscaled, Multiplier
  <2>2. /\ IsArray(a, wcount(a)) /\ wcount(a) + 1 \in 1..MaxWords /\ wcount(a) \in Nat
        /\ 0 \in Word
    BY <1>6, LoopAssumption, SizeAssumption DEF Layout, Sizes, Word
  <2>3. arrays'.dst = arrays.dst /\ arrays'.tmp = Extended(a, 0)
    BY <1>6, SizesFacts DEF Layout, IsArrays
  <2>4. /\ Number(Extended(a, 0)) = Number(a) + 0 * Weight[wcount(a)]
        /\ \A k \in 0 .. (wcount(a) - 1) : Extended(a, 0)[k] = a[k]
    BY <2>2, ExtendedFacts
  <2>5. Number(a) \in Nat /\ Low(a, wcount(a)) = Number(a) /\ Weight[wcount(a)] \in Nat
    BY <2>2, NumberType, NumberIsLow, WeightFacts DEF IsArray
  <2>6. Number(Extended(a, 0)) = Number(a) /\ Low(Extended(a, 0), wcount(a)) = Number(a)
    BY <2>4, <2>5, LowDepends
  <2>7. (HalfScaled(col + 1))' = Number(a) + b[row] * (Number(a) - Number(a))
    <3>1. col' + 1 = wcount(a)
      BY <1>6, <2>2
    <3> QED BY <2>1, <2>3, <2>6, <3>1 DEF HalfScaled
  <2>8. b[row] * (Number(a) - Number(a)) = 0
    BY <1>2, <2>5, ConsumedStep
  <2>9. Number(arrays[Scaled])' = (HalfScaled(col + 1))'
    BY <2>1, <2>3, <2>5, <2>6, <2>7, <2>8
  <2>10. Number(arrays.dst)' = Consumed(row)'
    BY <1>1, <1>3, <2>1, <2>3, ConsumedSame
  <2> QED BY <2>1, <2>9, <2>10 DEF Exact
<1>7. CASE /\ op = "init"
           /\ col' = msw /\ msw_tmp' = msw
           /\ loop_pc' = "scale"
           /\ UNCHANGED <<arrays, row, at, old, chain, msw>>
  <2>1. Phase' = "scale" /\ Scaled' = "dst" /\ op' = "init" /\ Unscaled' = NumeralPrefix(row)
        /\ Multiplier' = a[0] /\ row' = row /\ col' = msw
    BY <1>1, <1>7, ConsumedSame DEF Phase, Scaled, Unscaled, Multiplier
  <2>2. /\ ZeroAbove(arrays.dst, msw) /\ msw \in 0 .. (wcount(arrays.dst) - 1)
        /\ IsArray(arrays.dst, wcount(arrays.dst))
    BY <1>1, <1>7, LayoutFacts DEF Tops, Layout, Sizes
  <2>3. Low(arrays.dst, msw + 1) = Number(arrays.dst)
    BY <2>2, TopLow
  <2>4. Number(arrays.dst) = NumeralPrefix(row) /\ NumeralPrefix(row) \in Nat
    <3>1. row \in 0 .. wcount(b)
      BY <1>2
    <3> QED BY <1>3, <1>7, <3>1, OperandNumbers DEF Consumed
  <2>5. (HalfScaled(col + 1))' = Number(arrays.dst) + a[0] * (NumeralPrefix(row) - Number(arrays.dst))
    BY <1>7, <2>1, <2>3 DEF HalfScaled
  <2>6. a[0] * (NumeralPrefix(row) - Number(arrays.dst)) = 0
    BY <1>7, <2>4, OperandNumbers
  <2>7. Number(arrays[Scaled])' = (HalfScaled(col + 1))'
    BY <1>7, <2>1, <2>4, <2>5, <2>6
  <2> QED BY <2>1, <2>7 DEF Exact
<1> QED BY <1>4, <1>5, <1>6, <1>7 DEF StartRow

LEMMA ExactPropagate ==
    ASSUME Layout, Exact, Propagate
    PROVE  Exact'
<1>1. CASE OutOfBounds
  BY <1>1, ExactOob
<1>2. CASE ~OutOfBounds
  <2>1. /\ loop_pc = "chain" /\ Target \in Names /\ UNCHANGED <<op, a, b>>
        /\ at + 1 \in 0 .. (wcount(arrays[Target]) - 1)
        /\ \E w \in Word : OneWritten(arrays, arrays', Target, at + 1, w)
        /\ Value' = Value /\ Phase' = Phase /\ Target' = Target
        /\ UNCHANGED <<row, col, chain, msw, msw_tmp>>
    BY <1>2, ChainGoesOn
  <2>2. Phase \in {"added", "trim", "scaled", "accumulated", "digit"}
    BY <2>1 DEF Layout, Phases
  <2>3. /\ Consumed(row)' = Consumed(row) /\ Consumed(row + 1)' = Consumed(row + 1)
        /\ NumeralPrefix(row)' = NumeralPrefix(row) /\ Number(a)' = Number(a)
    BY <2>1, ConsumedSame
  <2>4. CASE Phase \in {"added", "trim", "digit"}
    BY <2>1, <2>3, <2>4 DEF Exact
  <2>5. CASE Phase = "scaled"
    <3>1. Target = Scaled /\ Scaled' = Scaled /\ Multiplier' = Multiplier /\ Unscaled' = Unscaled
      BY <2>1, <2>3, <2>5 DEF Target, Scaled, Multiplier, Unscaled
    <3>2. Low(arrays[Scaled], col)' = Low(arrays[Scaled], col)
      <4>1. \A k \in 0 .. (col - 1) : arrays'[Scaled][k] = arrays[Scaled][k]
        <5> SUFFICES ASSUME NEW k \in 0 .. (col - 1)
                     PROVE  arrays'[Scaled][k] = arrays[Scaled][k]
          OBVIOUS
        <5>1. 0 <= col /\ col < at /\ col \in Int /\ at \in Nat
              /\ at < wcount(arrays[Scaled]) /\ wcount(arrays[Scaled]) \in Nat
              /\ DOMAIN arrays[Scaled] = 0 .. (wcount(arrays[Scaled]) - 1)
          BY <2>5, <3>1, LayoutFacts, SizesFacts DEF Layout, Indices
        <5>2. k \in DOMAIN arrays[Scaled] /\ k # at + 1
          BY <5>1
        <5> QED BY <2>1, <3>1, <5>2 DEF OneWritten
      <4>2. Low(arrays'[Scaled], col) = Low(arrays[Scaled], col)
        BY <4>1, LowDepends
      <4> QED BY <2>1, <3>1, <4>2
    <3>3. HalfScaled(col)' = HalfScaled(col)
      BY <2>1, <3>1, <3>2 DEF HalfScaled
    <3>4. op = "mul" => Number(arrays.dst)' = Number(arrays.dst)
      <4>1. op = "mul" => Target = "tmp" /\ "dst" \in Names /\ "dst" # "tmp"
        BY <3>1 DEF Scaled, Names
      <4>2. op = "mul" => arrays'["dst"] = arrays["dst"]
        BY <2>1, <4>1 DEF OneWritten
      <4> QED BY <4>2
    <3> QED BY <2>1, <2>3, <2>5, <3>3, <3>4 DEF Exact
  <2>6. CASE Phase = "accumulated"
    <3>1. Target = "dst" /\ "tmp" \in Names
      BY <2>6 DEF Target, Names
    <3>2. arrays'["tmp"] = arrays["tmp"]
      BY <2>1, <3>1 DEF OneWritten
    <3>3. arrays.tmp' = arrays.tmp
      BY <3>2
    <3> QED BY <2>1, <2>3, <2>6, <3>3 DEF Exact
  <2> QED BY <2>2, <2>4, <2>5, <2>6
<1> QED BY <1>1, <1>2

LEMMA ExactEndChain ==
    ASSUME Layout, Exact, EndChain
    PROVE  Exact'
<1>1. /\ Phase' = Phase /\ Value' = Value
      /\ UNCHANGED <<op, a, b, arrays, row, col, at, old, chain, msw, msw_tmp>>
  BY ChainEnds
<1>2. /\ Consumed(row)' = Consumed(row) /\ Consumed(row + 1)' = Consumed(row + 1)
      /\ NumeralPrefix(row)' = NumeralPrefix(row) /\ Number(a)' = Number(a)
  BY <1>1, ConsumedSame
<1>3. Scaled' = Scaled /\ Multiplier' = Multiplier /\ Unscaled' = Unscaled
  BY <1>1, <1>2 DEF Scaled, Multiplier, Unscaled
<1>4. HalfScaled(col)' = HalfScaled(col) /\ HalfScaled(col + 1)' = HalfScaled(col + 1)
  BY <1>1, <1>3 DEF HalfScaled
<1> QED BY <1>1, <1>2, <1>3, <1>4 DEF Exact

LEMMA ExactCounts ==
    ASSUME Layout, Exact, CountAdded \/ Trim \/ CountScaled \/ CountAccumulated \/ CountDigit \/ EndRows
    PROVE  Exact'
<1> USE LayoutFacts
<1>1. UNCHANGED <<op, a, b, arrays, at, old, chain>> /\ loop_pc # "chain" /\ loop_pc' # "chain"
  BY DEF CountAdded, Trim, CountScaled, CountAccumulated, CountDigit, EndRows
<1>2. Value = Number(arrays[Target]) /\ Number(arrays[Target]) \in Nat /\ Phase = loop_pc
      /\ Phase' = loop_pc'
  BY <1>1, ValueAtRest DEF Phase
<1>3. Value' = Number(arrays'[Target'])
  <2>1. Pending' = 0
    BY <1>1 DEF Pending
  <2>2. Target' \in Names
    BY <1>1 DEF Target, Scaled, Names
  <2>3. Number(arrays[Target']) \in Nat
    BY <2>2, SizesFacts, NumberType DEF Layout
  <2> QED BY <1>1, <2>1, <2>3 DEF Value
<1>4. /\ \A n : Consumed(n)' = Consumed(n)
      /\ \A n : NumeralPrefix(n)' = NumeralPrefix(n)
      /\ Number(a)' = Number(a) /\ Scaled' = Scaled
  BY <1>1, ConsumedSame DEF Scaled
<1>5. CASE CountAdded
  <2>1. Phase = "added" /\ Phase' = "row" /\ row' = row + 1 /\ Target = "dst"
    BY <1>2, <1>5 DEF CountAdded, Target
  <2>2. Number(arrays.dst)' = Consumed(row + 1)
    BY <1>1, <1>2, <2>1 DEF Exact
  <2> QED BY <1>4, <2>1, <2>2, ExactRow
<1>6. CASE Trim
  <2>1. Phase = "trim" /\ Target = "dst"
    BY <1>2, <1>6 DEF Trim, Target
  <2>2. Number(arrays.dst)' = Consumed(row + 1)
    BY <1>1, <1>2, <2>1 DEF Exact
  <2>3. \/ Phase' = "trim" /\ row' = row
        \/ Phase' = "row" /\ row' = row + 1
    BY <1>2, <1>6 DEF Trim
  <2>4. CASE Phase' = "trim" /\ row' = row
    <3>1. Target' = "dst"
      BY <2>4 DEF Target
    <3>2. Value' = Consumed(row + 1)
      BY <1>3, <2>2, <3>1
    <3> QED BY <1>4, <2>4, <3>2, ExactAdding
  <2>5. CASE Phase' = "row" /\ row' = row + 1
    BY <1>4, <2>2, <2>5, ExactRow
  <2> QED BY <2>3, <2>4, <2>5
<1>7. CASE CountScaled
  <2>1. /\ Phase = "scaled" /\ Phase' = "scale" /\ col' = col - 1 /\ row' = row /\ Target = Scaled
    BY <1>2, <1>7 DEF CountScaled, Target
  <2>2. col' + 1 = col
    BY <2>1
  <2>3. Multiplier' = Multiplier /\ Unscaled' = Unscaled
    BY <1>1, <1>4, <2>1 DEF Multiplier, Unscaled
  <2>4. HalfScaled(col + 1)' = HalfScaled(col)
    BY <1>1, <1>4, <2>2, <2>3 DEF HalfScaled
  <2>5. Number(arrays[Scaled])' = HalfScaled(col)
    BY <1>1, <1>2, <1>4, <2>1 DEF Exact
  <2>6. op = "mul" => Number(arrays.dst)' = Consumed(row)'
    <3>1. op = "mul" => Number(arrays.dst) = Consumed(row)
      BY <2>1 DEF Exact
    <3> QED BY <1>1, <1>4, <2>1, <3>1
  <2> QED BY <1>1, <2>1, <2>4, <2>5, <2>6 DEF Exact
<1>8. CASE CountAccumulated
  <2>1. Phase = "accumulated" /\ Phase' = "accumulate" /\ col' = col + 1 /\ row' = row
        /\ Target = "dst" /\ Target' = "dst"
    BY <1>2, <1>8 DEF CountAccumulated, Target
  <2>2. /\ Number(arrays.tmp) = Number(a) * b[row]
        /\ Number(arrays.dst) = Consumed(row) + Low(arrays.tmp, col + 1) * Weight[row]
    BY <1>2, <2>1 DEF Exact
  <2>3. Value' = Consumed(row)' + Low(arrays.tmp, col + 1) * Weight[row]
    BY <1>1, <1>3, <1>4, <2>1, <2>2
  <2>4. Number(arrays.tmp)' = Number(a)' * b'[row']
    BY <1>1, <1>4, <2>1, <2>2
  <2>5. arrays.tmp' = arrays.tmp
    BY <1>1
  <2> QED BY <2>1, <2>3, <2>4, <2>5 DEF Exact
<1>9. CASE CountDigit
  <2>1. Phase = "digit" /\ Phase' = "row" /\ row' = row + 1 /\ Target = "dst"
    BY <1>2, <1>9 DEF CountDigit, Target
  <2>2. Number(arrays.dst)' = Consumed(row + 1)
    BY <1>1, <1>2, <2>1 DEF Exact
  <2> QED BY <1>4, <2>1, <2>2, ExactRow
<1>10. CASE EndRows
  <2>1. Phase = "row" /\ Phase' = "done" /\ row' = row
    BY <1>2, <1>10 DEF EndRows
  <2>2. Number(arrays.dst)' = Consumed(row)
    BY <1>1, <2>1 DEF Exact
  <2> QED BY <1>4, <2>1, <2>2, ExactRow
<1> QED BY <1>5, <1>6, <1>7, <1>8, <1>9, <1>10

LEMMA ExactScale ==
    ASSUME Layout, Exact, Scale
    PROVE  Exact'
<1> USE LayoutFacts
<1> DEFINE x == arrays[Scaled]
           n == wcount(arrays[Scaled])
           product == x[col] * Multiplier
           scaled == Number(x) + (Multiplier - 1) * (x[col] * Weight[col])
<1>1. /\ loop_pc = "scale" /\ col \in 0 .. (n - 1) /\ UNCHANGED <<op, a, b>>
      /\ Multiplier \in 0..Base
      /\ \/ /\ loop_pc' = "scale" /\ col' = col - 1
            /\ OneWritten(arrays, arrays', Scaled, col, product % Base)
            /\ UNCHANGED <<row, at, old, chain, msw, msw_tmp>>
            /\ Number(arrays[Scaled])' = scaled
         \/ OutOfBounds
         \/ /\ col + 1 \in 0 .. (n - 1)
            /\ \E y \in [Names -> UNION {Arrays(k) : k \in 0..MaxPower}], w \in Word :
                  /\ OneWritten(arrays, y, Scaled, col, product % Base)
                  /\ OneWritten(y, arrays', Scaled, col + 1, w)
            /\ Value' = scaled
            /\ Phase' = "scaled" /\ Target' = Scaled
            /\ UNCHANGED <<row, col, msw, msw_tmp>>
  BY ScaleSplits
<1>2. Phase = "scale" /\ op \in {"mul", "init"} /\ row < wcount(b)
  BY <1>1 DEF Layout, Phases, Indices, Phase
<1>3. /\ Consumed(row)' = Consumed(row') /\ NumeralPrefix(row)' = NumeralPrefix(row')
      /\ Number(a)' = Number(a) /\ Scaled' = Scaled
  BY <1>1, ConsumedSame DEF Scaled
<1>4. IsArray(x, n) /\ Scaled \in Names /\ n \in Nat /\ DOMAIN x = 0 .. (n - 1)
  BY SizesFacts DEF Layout
<1>5. Number(x) = HalfScaled(col + 1) /\ Number(x) \in Nat
  <2> HIDE DEF n
  <2> QED BY <1>2, <1>4, NumberType DEF Exact
<1>6. Unscaled \in Nat
  BY <1>2, OperandNumbers DEF Unscaled
\* the words below col are still to be scaled
<1>7. scaled = HalfScaled(col)
  <2> DEFINE d == x[col] * Weight[col]
             low == Low(x, col)
             m == Multiplier
             u == Unscaled
  <2>1. Low(x, col + 1) = low + d
    BY <1>1, <1>4, LowStep
  <2>2. d \in Nat /\ low \in Nat
    <3>1. x[col] \in Nat /\ col \in 0..MaxPower /\ col \in 0..n
      BY <1>1, <1>4, ArrayFacts
    <3>2. Weight[col] \in Nat
      BY <3>1, WeightFacts
    <3>3. d \in Nat
      BY <3>1, <3>2
    <3>4. low \in Nat
      BY <1>4, <3>1, LowFacts
    <3> QED BY <3>3, <3>4
  <2>3. m \in Int
    BY <1>1, SizeAssumption
  <2>4. HalfScaled(col + 1) = (low + d) + m * (u - (low + d)) /\ HalfScaled(col) = low + m * (u - low)
    BY <2>1 DEF HalfScaled
  <2>5. scaled = HalfScaled(col + 1) + (m - 1) * d
    BY <1>5
  <2>6. ASSUME NEW l \in Int, NEW e \in Int, NEW v \in Int, NEW r \in Int
        PROVE  ((l + e) + r * (v - (l + e))) + (r - 1) * e = l + r * (v - l)
    BY <2>6
  <2> HIDE DEF d, low, m, u, scaled
  <2>7. ((low + d) + m * (u - (low + d))) + (m - 1) * d = low + m * (u - low)
    <3>1. u \in Int /\ low \in Int /\ d \in Int
      BY <1>6, <2>2 DEF u
    <3> QED BY ONLY <2>3, <2>6, <3>1
  <2> QED BY ONLY <2>4, <2>5, <2>7
<1> HIDE DEF scaled
<1>8. op = "mul" => Number(arrays.dst) = Consumed(row)
  BY <1>2 DEF Exact
<1>12. \A k \in 0 .. (col - 1) : k \in 0 .. (n - 1) /\ k # col /\ k # col + 1
  <2>1. col \in 0 .. (n - 1) /\ n \in Nat
    BY <1>1, <1>4
  <2> HIDE DEF n
  <2> QED BY ONLY <2>1
<1>9. CASE OutOfBounds
  BY <1>9, ExactOob
<1>10. CASE /\ loop_pc' = "scale" /\ col' = col - 1
            /\ OneWritten(arrays, arrays', Scaled, col, product % Base)
            /\ UNCHANGED <<row, at, old, chain, msw, msw_tmp>>
            /\ Number(arrays[Scaled])' = scaled
  <2>1. Phase' = "scale" /\ col' + 1 = col
    BY <1>1, <1>10 DEF Phase
  <2>2. Multiplier' = Multiplier /\ Unscaled' = Unscaled
    BY <1>1, <1>3, <1>10 DEF Multiplier, Unscaled
  <2>3. \A k \in 0 .. (col - 1) : arrays'[Scaled][k] = x[k]
    <3> HIDE DEF product
    <3>1. \A k \in 0 .. (col - 1) : k \in DOMAIN arrays[Scaled] /\ k # col
      BY <1>4, <1>12
    <3> QED BY <1>10, <3>1 DEF OneWritten
  <2>4. Low(arrays'[Scaled], col) = Low(x, col)
    BY <2>3, LowDepends
  <2>5. HalfScaled(col + 1)' = HalfScaled(col)
    BY <1>3, <2>1, <2>2, <2>4 DEF HalfScaled
  <2>6. op = "mul" => Number(arrays.dst)' = Number(arrays.dst)
    <3>1. op = "mul" => Scaled = "tmp" /\ "dst" \in Names /\ "dst" # "tmp"
      BY DEF Scaled, Names
    <3>2. op = "mul" => arrays'["dst"] = arrays["dst"]
      <4> HIDE DEF product
      <4> QED BY <1>10, <3>1 DEF OneWritten
    <3> QED BY <3>2
  <2>7. op = "mul" => Number(arrays.dst)' = Consumed(row)'
    BY <1>3, <1>8, <1>10, <2>6
  <2> QED BY <1>1, <1>7, <1>10, <2>1, <2>5, <2>7 DEF Exact
<1>11. CASE /\ col + 1 \in 0 .. (n - 1)
            /\ \E y \in [Names -> UNION {Arrays(k) : k \in 0..MaxPower}], w \in Word :
                  /\ OneWritten(arrays, y, Scaled, col, product % Base)
                  /\ OneWritten(y, arrays', Scaled, col + 1, w)
            /\ Value' = scaled
            /\ Phase' = "scaled" /\ Target' = Scaled
            /\ UNCHANGED <<row, col, msw, msw_tmp>>
  <2>1. Multiplier' = Multiplier /\ Unscaled' = Unscaled
    BY <1>1, <1>3, <1>11 DEF Multiplier, Unscaled
  <2> HIDE DEF product
  <2>2. PICK y \in [Names -> UNION {Arrays(k) : k \in 0..MaxPower}], w \in Word :
               /\ OneWritten(arrays, y, Scaled, col, product % Base)
               /\ OneWritten(y, arrays', Scaled, col + 1, w)
    BY <1>11
  <2>3. \A k \in 0 .. (col - 1) : arrays'[Scaled][k] = x[k]
    <3>1. \A k \in 0 .. (col - 1) : k \in DOMAIN arrays[Scaled] /\ k # col /\ k # col + 1
      BY <1>4, <1>12
    <3>2. DOMAIN y[Scaled] = DOMAIN arrays[Scaled]
      BY <1>4, <2>2 DEF OneWritten, SameShape
    <3> QED BY <2>2, <3>1, <3>2 DEF OneWritten
  <2>4. Low(arrays'[Scaled], col) = Low(x, col)
    BY <2>3, LowDepends
  <2>5. HalfScaled(col)' = HalfScaled(col)
    BY <1>3, <1>11, <2>1, <2>4 DEF HalfScaled
  <2>6. op = "mul" => Number(arrays.dst)' = Number(arrays.dst)
    <3>1. op = "mul" => Scaled = "tmp" /\ "dst" \in Names /\ "dst" # "tmp"
      BY DEF Scaled, Names
    <3>2. op = "mul" => arrays'["dst"] = arrays["dst"]
      BY <2>2, <3>1 DEF OneWritten
    <3> QED BY <3>2
  <2>7. op = "mul" => Number(arrays.dst)' = Consumed(row)'
    BY <1>3, <1>8, <1>11, <2>6
  <2> QED BY <1>1, <1>7, <1>11, <2>5, <2>7 DEF Exact
<1> QED BY <1>1, <1>9, <1>10, <1>11

LEMMA ExactEndScale ==
    ASSUME Layout, Exact, EndScale
    PROVE  Exact'
<1> USE LayoutFacts
<1>1. /\ loop_pc = "scale" /\ col = -1 /\ UNCHANGED <<op, a, b>> /\ Phase = "scale"
      /\ row \in 0 .. (wcount(b) - 1)
  BY DEF EndScale, Layout, Indices, Phase
<1>2. Number(arrays[Scaled]) = Multiplier * Unscaled
  <2>1. Number(arrays[Scaled]) = HalfScaled(0)
    <3>1. col + 1 = 0
      BY <1>1
    <3> QED BY <1>1, <3>1 DEF Exact
  <2>2. Low(arrays[Scaled], 0) = 0
    BY LowOfNone
  <2>3. Unscaled \in Nat /\ Multiplier \in Int
    <3>1. op \in {"mul", "init"} /\ row < wcount(b)
      BY <1>1 DEF Layout, Phases
    <3> QED BY <1>1, <3>1, OperandNumbers, MultiplierType, SizeAssumption DEF Unscaled
  <2> QED BY <2>1, <2>2, <2>3 DEF HalfScaled
<1>3. CASE /\ op = "mul"
           /\ col' = 0 /\ loop_pc' = "accumulate"
           /\ UNCHANGED <<arrays, row, at, old, chain, msw, msw_tmp>>
  <2>1. Phase' = "accumulate" /\ Target' = "dst" /\ loop_pc' # "chain"
    BY <1>3 DEF Phase, Target
  <2>2. Number(arrays.tmp) = Number(a) * b[row]
    <3>1. Number(arrays.tmp) = b[row] * Number(a)
      BY <1>2, <1>3 DEF Scaled, Multiplier, Unscaled
    <3>2. b[row] \in Nat /\ Number(a) \in Nat
      BY <1>1, <1>3, ConsumedStep, OperandNumbers
    <3> QED BY <3>1, <3>2
  <2>3. Number(arrays.dst) = Consumed(row) /\ Consumed(row) \in Int
    BY <1>1, <1>3, ConsumedStep DEF Exact
  <2>4. Low(arrays.tmp, 0) * Weight[row] = 0
    BY <1>1, LowOfNone, ConsumedStep
  <2>5. Value' = Number(arrays.dst)
    <3>1. Pending' = 0
      BY <2>1 DEF Pending
    <3> QED BY <1>3, <2>1, <2>3, <3>1 DEF Value
  <2>6. Value' = Consumed(row) + Low(arrays.tmp, 0) * Weight[row]
    BY <2>3, <2>4, <2>5
  <2>7. Consumed(row)' = Consumed(row) /\ Number(a)' = Number(a)
    BY <1>1, <1>3, ConsumedSame
  <2> QED BY <1>1, <1>3, <2>1, <2>2, <2>6, <2>7 DEF Exact
<1>4. CASE op = "init" /\ StartChain("dst", 0, 1, b[row], "digit")
  <2>1. Sign = 1 /\ "dst" \in Names
    BY <1>4 DEF Sign, Names
  <2>2. CASE OutOfBounds
    BY <2>2, ExactOob
  <2>3. CASE ~OutOfBounds
    <3>1. Phase' = "digit" /\ row' = row
          /\ Value' = Number(arrays.dst) + 1 * (b[row] * Weight[0])
      <4>1. /\ Sizes /\ op' = op /\ 0 \in Nat /\ b[row] \in Word
            /\ StartChain("dst", 0, 1, b[row], "digit")
        BY <1>1, <1>4, ConsumedStep DEF Layout
      <4> QED BY ONLY <2>1, <2>3, <4>1, ChainStarts
    <3>2. /\ Consumed(row + 1) = a[0] * Consumed(row) + b[row]
          /\ b[row] \in Nat /\ Weight[0] = 1
      BY <1>1, <1>4, ConsumedStep, WeightFacts
    <3>3. Number(arrays.dst) = a[0] * Consumed(row)
      BY <1>2, <1>4 DEF Scaled, Multiplier, Unscaled, Consumed
    <3>4. Value' = Consumed(row + 1)
      BY <3>1, <3>2, <3>3
    <3>5. Consumed(row + 1)' = Consumed(row + 1)
      BY <1>1, <3>1, ConsumedSame
    <3> QED BY <3>1, <3>4, <3>5, ExactAdding
  <2> QED BY <2>2, <2>3
<1> QED BY <1>3, <1>4 DEF EndScale

LEMMA ExactAccumulate ==
    ASSUME Layout, Exact, Tops, Accumulate
    PROVE  Exact'
<1> USE LayoutFacts
<1>1. /\ loop_pc = "accumulate" /\ UNCHANGED <<op, a, b>> /\ Phase = "accumulate"
      /\ row \in 0 .. (wcount(b) - 1) /\ op = "mul"
      /\ 0 <= col /\ col <= msw_tmp + 1 /\ msw_tmp < wcount(arrays.tmp)
  BY DEF Accumulate, Layout, Phases, Indices, Phase
<1>2. /\ Number(arrays.tmp) = Number(a) * b[row]
      /\ Number(arrays.dst) = Consumed(row) + Low(arrays.tmp, col) * Weight[row]
  <2>1. Value = Number(arrays[Target]) /\ Target = "dst"
    BY <1>1, ValueAtRest DEF Target
  <2> QED BY <1>1, <2>1 DEF Exact
<1>3. IsArray(arrays.tmp, wcount(arrays.tmp)) /\ wcount(arrays.tmp) \in Nat
  BY DEF Layout, Sizes
<1>4. /\ Consumed(row) \in Int /\ Weight[row] \in Nat /\ b[row] \in Nat
      /\ Consumed(row + 1) = Consumed(row) + Number(a) * (b[row] * Weight[row])
      /\ Number(a) \in Nat
  BY <1>1, ConsumedStep, OperandNumbers
<1>5. CASE col <= msw_tmp
  <2>1. Sign = 1 /\ "dst" \in Names /\ StartChain("dst", col + row, 1, arrays.tmp[col], "accumulated")
    BY <1>1, <1>5 DEF Sign, Names, Accumulate
  <2>2. CASE OutOfBounds
    BY <2>2, ExactOob
  <2>3. CASE ~OutOfBounds
    <3>1. /\ col \in 0 .. (wcount(arrays.tmp) - 1) /\ arrays.tmp[col] \in Word
          /\ arrays.tmp[col] \in Nat /\ col \in 0..MaxPower /\ col \in 0..wcount(arrays.tmp)
      <4>1. col \in 0 .. (wcount(arrays.tmp) - 1)
        BY <1>1, <1>5
      <4> QED BY <1>3, <4>1, ArrayFacts
    <3>2. col + row \in Nat
      BY <1>1
    <3>3. /\ Phase' = "accumulated" /\ row' = row /\ col' = col
          /\ col + row \in 0 .. (wcount(arrays.dst) - 1)
          /\ \E w \in Word : OneWritten(arrays, arrays', "dst", col + row, w)
          /\ Value' = Number(arrays.dst) + 1 * (arrays.tmp[col] * Weight[col + row])
      <4>1. Sizes /\ op' = op
        BY <1>1 DEF Layout
      <4> DEFINE j == col + row
                 v == arrays.tmp[col]
      <4>2. StartChain("dst", j, 1, v, "accumulated") /\ j \in Nat /\ v \in Word
        BY <2>1, <3>1, <3>2
      <4> HIDE DEF j, v
      <4>3. /\ Phase' = "accumulated" /\ row' = row /\ col' = col
            /\ j \in 0 .. (wcount(arrays.dst) - 1)
            /\ \E w \in Word : OneWritten(arrays, arrays', "dst", j, w)
            /\ Value' = Number(arrays.dst) + 1 * (v * Weight[j])
        BY ONLY <2>1, <2>3, <4>1, <4>2, ChainStarts
      <4> QED BY <4>3 DEF j, v
    <3>4. Weight[col + row] = Weight[col] * Weight[row] /\ Weight[col] \in Nat
      <4>1. col + row \in 0..MaxPower /\ MaxPower \in Nat
        <5>1. IsArray(arrays.dst, wcount(arrays.dst))
          BY DEF Layout, Sizes
        <5> QED BY <3>3, <5>1, ArrayFacts, WeightFacts
      <4>2. row \in 0..MaxPower /\ col + row <= MaxPower
        BY <1>1, <4>1
      <4> QED BY <3>1, <4>1, <4>2, WeightSum, WeightFacts
    <3>5. Low(arrays.tmp, col + 1) = Low(arrays.tmp, col) + arrays.tmp[col] * Weight[col]
          /\ Low(arrays.tmp, col) \in Nat
      BY <1>3, <3>1, LowStep, LowFacts
    <3>6. ASSUME NEW l \in Nat, NEW d \in Nat, NEW u \in Nat, NEW v \in Nat, NEW c \in Int
          PROVE  (c + l * v) + 1 * (d * (u * v)) = c + (l + d * u) * v
      <4>1. (l + d * u) * v = l * v + (d * u) * v /\ (d * u) * v = d * (u * v)
            /\ l * v \in Nat /\ (d * u) * v \in Nat
        BY <3>6
      <4>2. 1 * (d * (u * v)) = (d * u) * v
        BY <4>1
      <4> QED BY <4>1, <4>2, <3>6
    <3>7. Value' = Consumed(row) + Low(arrays.tmp, col + 1) * Weight[row]
      BY <1>2, <1>4, <3>1, <3>3, <3>4, <3>5, <3>6
    <3>8. Consumed(row)' = Consumed(row) /\ Number(a)' = Number(a)
      BY <1>1, <3>3, ConsumedSame
    <3>9. arrays.tmp' = arrays.tmp
      <4>1. arrays'["tmp"] = arrays["tmp"]
        BY <3>3 DEF OneWritten, Names
      <4> QED BY <4>1
    <3>10. Number(arrays.tmp)' = (Number(a) * b[row])'
      BY <1>1, <1>2, <3>3, <3>8, <3>9
    <3>11. Value' = (Consumed(row) + Low(arrays.tmp, col + 1) * Weight[row])'
      BY <3>3, <3>7, <3>8, <3>9
    <3> QED BY <3>3, <3>10, <3>11 DEF Exact
  <2> QED BY <2>2, <2>3
<1>6. CASE ~(col <= msw_tmp)
  <2>1. /\ row' = row + 1 /\ loop_pc' = "row" /\ Phase' = "row"
        /\ UNCHANGED <<arrays, col, at, old, chain, msw, msw_tmp>>
    BY <1>6 DEF Accumulate, Phase
  <2>2. Low(arrays.tmp, col) = Number(arrays.tmp)
    <3>1. ZeroAbove(arrays.tmp, msw_tmp) /\ msw_tmp \in 0 .. (wcount(arrays.tmp) - 1)
      BY <1>1 DEF Tops
    <3>2. col = msw_tmp + 1
      BY <1>1, <1>6
    <3> QED BY <1>3, <3>1, <3>2, TopLow
  <2>3. Number(arrays.dst) = Consumed(row) + (Number(a) * b[row]) * Weight[row]
    BY <1>2, <2>2
  <2>4. ASSUME NEW x \in Nat, NEW y \in Nat, NEW z \in Nat PROVE (x * y) * z = x * (y * z)
    BY <2>4
  <2>5. Number(arrays.dst) = Consumed(row + 1)
    BY <1>4, <2>3, <2>4
  <2>6. Number(arrays.dst)' = Consumed(row)'
    BY <1>1, <2>1, <2>5, ConsumedSame
  <2> QED BY <2>1, <2>6, ExactRow
<1> QED BY <1>5, <1>6

----------------------------------------------------------------------------
(* The zero words stay above the most significant one.                     *)

LEMMA HigherFacts ==
    ASSUME NEW k \in Nat, NEW j \in Nat
    PROVE  Higher(k, j) \in Nat /\ Higher(k, j) >= k /\ Higher(k, j) >= j /\ Higher(k, j) \in {k, j}
BY DEF Higher

LEMMA ZeroAboveWritten ==
    ASSUME NEW x, NEW y, NEW t \in Names, NEW j \in Nat, NEW w, OneWritten(x, y, t, j, w),
           DOMAIN x[t] \subseteq Nat, NEW k \in Nat, ZeroAbove(x[t], k),
           NEW m \in Nat, m >= k, m >= j
    PROVE  ZeroAbove(y[t], m)
<1> SUFFICES ASSUME NEW q \in DOMAIN y[t], q > m
             PROVE  y[t][q] = 0
  BY DEF ZeroAbove
<1>1. q \in DOMAIN x[t] /\ q \in Nat
  BY DEF OneWritten, SameShape
<1>2. q > k /\ q # j
  BY <1>1
<1> QED BY <1>1, <1>2 DEF OneWritten, ZeroAbove

LEMMA ZeroAboveMore ==
    ASSUME NEW x, DOMAIN x \subseteq Nat, NEW k \in Nat, ZeroAbove(x, k), NEW m \in Nat, m >= k
    PROVE  ZeroAbove(x, m)
BY DEF ZeroAbove

LEMMA TopsOob ==
    ASSUME OutOfBounds
    PROVE  Tops'
<1>1. Phase' = "oob"
  BY DEF OutOfBounds, Phase
<1> QED BY <1>1 DEF Tops

LEMMA ArrayDomains ==
    ASSUME Layout
    PROVE  /\ \A t \in Names : DOMAIN arrays[t] \subseteq Nat
           /\ DOMAIN arrays.dst \subseteq Nat /\ DOMAIN arrays.tmp \subseteq Nat
           /\ "dst" \in Names /\ "tmp" \in Names
<1>1. \A t \in Names : DOMAIN arrays[t] = 0 .. (wcount(arrays[t]) - 1) /\ wcount(arrays[t]) \in Nat
  BY SizesFacts DEF Layout
<1>2. \A t \in Names : DOMAIN arrays[t] \subseteq Nat
  BY <1>1
<1> QED BY <1>2 DEF Names

\* A written word moves the top of an array to itself, or leaves it.
LEMMA ZeroStays ==
    ASSUME Layout, NEW t \in Names, NEW k \in Nat, ZeroAbove(arrays[t], k), NEW j \in Nat,
           NEW w, OneWritten(arrays, arrays', t, j, w)
    PROVE  ZeroAbove(arrays'[t], Higher(k, j))
<1>1. DOMAIN arrays[t] \subseteq Nat
  BY ArrayDomains
<1>2. Higher(k, j) \in Nat /\ Higher(k, j) >= k /\ Higher(k, j) >= j
  BY ONLY k \in Nat, j \in Nat, HigherFacts
<1> QED BY ONLY <1>1, <1>2, ZeroAboveWritten, t \in Names, j \in Nat, k \in Nat,
           OneWritten(arrays, arrays', t, j, w), ZeroAbove(arrays[t], k)

\* The top of a difference.
LEMMA TopsSub ==
    ASSUME Layout, op = "sub"
    PROVE  Value \in Int /\ Weight[msw + 1] \in Nat /\ msw + 1 \in 0..MaxPower
           /\ Target = "dst"
<1>1. Phase \notin {"scaled"}
  BY DEF Layout, Phases
<1>2. Target = "dst"
  BY <1>1 DEF Target
<1>3. IsArray(arrays.dst, wcount(arrays.dst)) /\ msw \in 0 .. (wcount(arrays.dst) - 1)
  BY LayoutFacts DEF Layout, Sizes
<1>4. msw + 1 \in 0..MaxPower
  <2>1. msw \in 0 .. (MaxPower - 1) /\ MaxPower \in Nat
    BY <1>3, ArrayFacts, WeightFacts
  <2> QED BY <2>1
<1>5. Weight[msw + 1] \in Nat
  BY <1>4, WeightFacts
<1>6. Pending \in Int
  <2>1. loop_pc = "chain" => at < wcount(arrays.dst) /\ at \in Nat
    BY <1>2 DEF Layout, Phases, Indices
  <2>2. loop_pc = "chain" => at \in 0 .. (wcount(arrays.dst) - 1)
    BY <2>1, LayoutFacts
  <2>3. loop_pc = "chain" => at \in 0 .. (MaxPower - 1)
    BY <1>3, <2>2, ArrayFacts
  <2>4. loop_pc = "chain" => Weight[at + 1] \in Nat
    <3>1. loop_pc = "chain" => at + 1 \in 0..MaxPower
      BY <2>3, WeightFacts
    <3> QED BY <3>1, WeightFacts
  <2> QED BY <2>4 DEF Pending, Sign
<1>7. Number(arrays.dst) \in Nat
  BY <1>3, NumberType
<1> QED BY <1>2, <1>4, <1>5, <1>6, <1>7 DEF Value

LEMMA TopsStartRow ==
    ASSUME Layout, Tops, StartRow
    PROVE  Tops'
<1> USE LayoutFacts
<1>1. /\ loop_pc = "row" /\ row < wcount(b) /\ UNCHANGED <<op, a, b>> /\ Phase = "row"
  BY DEF StartRow, Phase
<1>2. row \in Nat /\ row \in 0 .. (wcount(b) - 1) /\ wcount(b) \in Nat
  BY <1>1
<1>3. wcount(a)' = wcount(a)
  BY <1>1, ConsumedSame
<1>4. CASE op = "add" /\ StartChain("dst", row, 1, b[row], "added")
  <2>1. Sign = 1 /\ "dst" \in Names
    BY <1>4 DEF Sign, Names
  <2>2. CASE OutOfBounds
    BY <2>2, TopsOob
  <2>3. CASE ~OutOfBounds
    <3>1. Phase' = "added" /\ at' = row /\ msw' = msw
          /\ \E w \in Word : OneWritten(arrays, arrays', "dst", row, w)
      <4>1. Sizes /\ op' = op /\ b[row] \in Word /\ StartChain("dst", row, 1, b[row], "added")
        BY <1>1, <1>2, <1>4, ConsumedStep DEF Layout
      <4> QED BY ONLY <1>2, <2>1, <2>3, <4>1, ChainStarts
    <3>2. a[wcount(a) - 1] = 0 => ZeroAbove(arrays.dst, msw)
      BY <1>1, <1>4 DEF Tops
    <3>3. a[wcount(a) - 1] = 0 => ZeroAbove(arrays'["dst"], Higher(msw, row))
      <4>1. "dst" \in Names /\ msw \in Nat /\ row \in Nat
        BY <1>2, <2>1
      <4>2. ZeroAbove(arrays["dst"], msw) => ZeroAbove(arrays'["dst"], Higher(msw, row))
        BY ONLY Layout, <3>1, <4>1, ZeroStays
      <4> QED BY <3>2, <4>2
    <3>4. (a[wcount(a) - 1] = 0 => ZeroAbove(arrays.dst, Higher(msw, at)))'
      BY <1>1, <1>3, <3>1, <3>3
    <3> QED BY <1>1, <1>4, <3>1, <3>4 DEF Tops
  <2> QED BY <2>2, <2>3
<1>5. CASE op = "sub" /\ StartChain("dst", row, -1, b[row], "trim")
  <2>1. Sign = -1 /\ "dst" \in Names
    BY <1>5 DEF Sign, Names
  <2>2. CASE OutOfBounds
    BY <2>2, TopsOob
  <2>3. CASE ~OutOfBounds
    <3> DEFINE z == b[row] * Weight[row]
    <3>1. Phase' = "trim" /\ msw' = msw
          /\ Value' = Number(arrays.dst) + Sign * z
      <4>1. Sizes /\ op' = op /\ b[row] \in Word /\ StartChain("dst", row, Sign, b[row], "trim")
        BY <1>1, <1>2, <1>5, <2>1, ConsumedStep DEF Layout
      <4> HIDE DEF Sign
      <4> QED BY ONLY <1>2, <1>5, <2>1, <2>3, <4>1, ChainStarts
    <3>2. z \in Nat
      BY <1>2, ConsumedStep
    <3>3. Value < Weight[msw + 1] /\ Value = Number(arrays.dst) /\ Number(arrays.dst) \in Nat
          /\ Weight[msw + 1] \in Nat
      BY <1>1, <1>5, TopsSub, ValueAtRest DEF Tops
    <3> HIDE DEF z
    <3>4. Value' < Weight[msw + 1]
      BY ONLY <2>1, <3>1, <3>2, <3>3
    <3> QED BY <1>1, <1>5, <3>1, <3>4 DEF Tops
  <2> QED BY <2>2, <2>3
<1>6. CASE /\ op = "mul"
           /\ arrays' = [arrays EXCEPT !.tmp = Extended(a, 0)]
           /\ col' = wcount(a) - 1 /\ msw_tmp' = wcount(a) - 1
           /\ loop_pc' = "scale"
           /\ UNCHANGED <<row, at, old, chain, msw>>
  <2>1. Phase' = "scale" /\ Scaled' = "tmp" /\ op' = "mul"
    BY <1>1, <1>6 DEF Phase, Scaled
  <2>2. /\ IsArray(a, wcount(a)) /\ wcount(a) + 1 \in 1..MaxWords /\ wcount(a) \in Nat
        /\ 0 \in Word
    BY <1>6, LoopAssumption, SizeAssumption DEF Layout, Sizes, Word
  <2>3. arrays'.dst = arrays.dst /\ arrays'.tmp = Extended(a, 0)
    BY <1>6, SizesFacts DEF Layout, IsArrays
  <2>4. ZeroAbove(Extended(a, 0), wcount(a) - 1)
    <3>1. /\ IsArray(Extended(a, 0), wcount(a) + 1) /\ Extended(a, 0)[wcount(a)] = 0
      BY <2>2, ExtendedFacts
    <3>2. DOMAIN Extended(a, 0) = 0 .. ((wcount(a) + 1) - 1)
      BY <3>1, ArrayFacts
    <3>3. \A k \in DOMAIN Extended(a, 0) : k > wcount(a) - 1 => k = wcount(a)
      <4> DEFINE m == wcount(a)
      <4>1. m \in Nat /\ DOMAIN Extended(a, 0) = 0 .. ((m + 1) - 1)
        BY <2>2, <3>2
      <4> HIDE DEF m
      <4>2. \A k \in DOMAIN Extended(a, 0) : k > m - 1 => k = m
        BY ONLY <4>1
      <4> QED BY <4>2 DEF m
    <3> QED BY <3>1, <3>3 DEF ZeroAbove
  <2>5. ZeroAbove(arrays.dst, msw)
    BY <1>1, <1>6 DEF Tops
  <2>6. ZeroAbove(arrays.dst, msw)' /\ ZeroAbove(arrays[Scaled], msw_tmp)'
    BY <1>6, <2>1, <2>3, <2>4, <2>5
  <2> QED BY <2>1, <2>6 DEF Tops
<1>7. CASE /\ op = "init"
           /\ col' = msw /\ msw_tmp' = msw
           /\ loop_pc' = "scale"
           /\ UNCHANGED <<arrays, row, at, old, chain, msw>>
  <2>1. Phase' = "scale" /\ Scaled' = "dst" /\ op' = "init"
    BY <1>1, <1>7 DEF Phase, Scaled
  <2>2. ZeroAbove(arrays.dst, msw)
    BY <1>1, <1>7 DEF Tops
  <2>3. ZeroAbove(arrays[Scaled], msw_tmp)'
    BY <1>7, <2>1, <2>2
  <2> QED BY <2>1, <2>3 DEF Tops
<1> QED BY <1>4, <1>5, <1>6, <1>7 DEF StartRow

LEMMA TopsPropagate ==
    ASSUME Layout, Tops, Propagate
    PROVE  Tops'
<1> USE LayoutFacts
<1>1. CASE OutOfBounds
  BY <1>1, TopsOob
<1>2. CASE ~OutOfBounds
  <2>1. /\ loop_pc = "chain" /\ Target \in Names /\ UNCHANGED <<op, a, b>>
        /\ \E w \in Word : OneWritten(arrays, arrays', Target, at + 1, w)
        /\ Value' = Value /\ Phase' = Phase /\ Target' = Target /\ at' = at + 1
        /\ UNCHANGED <<row, col, chain, msw, msw_tmp>>
    BY <1>2, ChainGoesOn
  <2>2. Phase \in {"added", "trim", "scaled", "accumulated", "digit"}
    BY <2>1 DEF Layout, Phases
  <2>3. wcount(a)' = wcount(a) /\ Scaled' = Scaled
    BY <2>1, ConsumedSame DEF Scaled
  <2>4. ASSUME NEW k \in Nat, ZeroAbove(arrays[Target], Higher(k, at))
        PROVE  ZeroAbove(arrays'[Target], Higher(k, at'))
    <3>1. at + 1 \in Nat /\ at \in Nat
      OBVIOUS
    <3>2. Higher(k, at + 1) >= Higher(k, at) /\ Higher(k, at + 1) \in Nat
          /\ Higher(k, at) \in Nat /\ Higher(k, at + 1) >= at + 1
      BY <3>1 DEF Higher
    <3>3. PICK w \in Word : OneWritten(arrays, arrays', Target, at + 1, w)
      BY <2>1
    <3>4. ZeroAbove(arrays'[Target], Higher(k, at + 1))
      BY ONLY <2>1, <2>4, <3>1, <3>2, <3>3, ZeroAboveWritten, ArrayDomains, Layout
    <3> QED BY <2>1, <3>4
  <2>5. \A u \in Names : u # Target => arrays'[u] = arrays[u]
    BY <2>1 DEF OneWritten
  <2>6. CASE Phase = "added"
    <3>1. Target = "dst" /\ op = "add"
      BY <2>6 DEF Target, Layout, Phases
    <3>2. a[wcount(a) - 1] = 0 => ZeroAbove(arrays["dst"], Higher(msw, at))
      BY <2>6, <3>1 DEF Tops
    <3>3. a[wcount(a) - 1] = 0 => ZeroAbove(arrays'["dst"], Higher(msw, at'))
      BY <2>4, <3>1, <3>2
    <3>4. (a[wcount(a) - 1] = 0 => ZeroAbove(arrays.dst, Higher(msw, at)))'
      BY <2>1, <2>3, <3>3
    <3> QED BY <2>1, <2>6, <3>1, <3>4 DEF Tops
  <2>7. CASE Phase = "trim"
    <3>1. op = "sub" /\ Value < Weight[msw + 1]
      BY <2>7 DEF Tops, Layout, Phases
    <3> QED BY <2>1, <2>7, <3>1 DEF Tops
  <2>8. CASE Phase = "scaled"
    <3>1. Target = Scaled /\ op \in {"mul", "init"}
      BY <2>8 DEF Target, Layout, Phases
    <3>2. ZeroAbove(arrays'[Scaled], Higher(msw_tmp, at'))
      BY <2>4, <2>8, <3>1 DEF Tops
    <3>3. ZeroAbove(arrays[Scaled], Higher(msw_tmp, at))'
      BY <2>1, <2>3, <3>2
    <3>4. op = "mul" => ZeroAbove(arrays.dst, msw)'
      <4>1. op = "mul" => Target = "tmp" /\ "dst" \in Names /\ "dst" # "tmp"
        BY <3>1 DEF Scaled, Names
      <4>2. op = "mul" => arrays'["dst"] = arrays["dst"]
        BY <2>5, <4>1
      <4>3. op = "mul" => ZeroAbove(arrays["dst"], msw)
        BY <2>8 DEF Tops
      <4> QED BY <2>1, <4>2, <4>3
    <3> QED BY <2>1, <2>8, <3>1, <3>3, <3>4 DEF Tops
  <2>9. CASE Phase = "accumulated"
    <3>1. Target = "dst" /\ op = "mul" /\ "tmp" \in Names
      BY <2>9 DEF Target, Layout, Phases, Names
    <3>2. ZeroAbove(arrays'["dst"], Higher(msw, at'))
      BY <2>4, <2>9, <3>1 DEF Tops
    <3>3. arrays'["tmp"] = arrays["tmp"] /\ ZeroAbove(arrays["tmp"], msw_tmp)
      BY <2>5, <2>9, <3>1 DEF Tops
    <3>4. ZeroAbove(arrays.dst, Higher(msw, at))' /\ ZeroAbove(arrays.tmp, msw_tmp)'
      BY <2>1, <3>2, <3>3
    <3> QED BY <2>1, <2>9, <3>1, <3>4 DEF Tops
  <2>10. CASE Phase = "digit"
    <3>1. Target = "dst" /\ op = "init"
      BY <2>10 DEF Target, Layout, Phases
    <3>2. ZeroAbove(arrays'["dst"], Higher(msw_tmp, at'))
      BY <2>4, <2>10, <3>1 DEF Tops
    <3>3. ZeroAbove(arrays.dst, Higher(msw_tmp, at))'
      BY <2>1, <3>2
    <3> QED BY <2>1, <2>10, <3>1, <3>3 DEF Tops
  <2> QED BY <2>2, <2>6, <2>7, <2>8, <2>9, <2>10
<1> QED BY <1>1, <1>2

LEMMA TopsEndChain ==
    ASSUME Layout, Tops, EndChain
    PROVE  Tops'
<1>1. /\ Phase' = Phase /\ Value' = Value
      /\ UNCHANGED <<op, a, b, arrays, row, col, at, old, chain, msw, msw_tmp>>
  BY ChainEnds
<1>2. wcount(a)' = wcount(a) /\ Scaled' = Scaled
  BY <1>1, ConsumedSame DEF Scaled
<1> QED BY <1>1, <1>2 DEF Tops, Higher, ZeroAbove

LEMMA TopsCounts ==
    ASSUME Layout, Tops, CountAdded \/ Trim \/ CountScaled \/ CountAccumulated \/ CountDigit \/ EndRows
    PROVE  Tops'
<1> USE LayoutFacts
<1>1. UNCHANGED <<op, a, b, arrays, at, old, chain>> /\ loop_pc # "chain" /\ loop_pc' # "chain"
  BY DEF CountAdded, Trim, CountScaled, CountAccumulated, CountDigit, EndRows
<1>2. Value = Number(arrays[Target]) /\ Number(arrays[Target]) \in Nat /\ Phase = loop_pc
      /\ Phase' = loop_pc'
  BY <1>1, ValueAtRest DEF Phase
<1>3. Value' = Number(arrays'[Target'])
  <2>1. Pending' = 0
    BY <1>1 DEF Pending
  <2>2. Target' \in Names
    BY <1>1 DEF Target, Scaled, Names
  <2>3. Number(arrays[Target']) \in Nat
    BY <2>2, SizesFacts, NumberType DEF Layout
  <2> QED BY <1>1, <2>1, <2>3 DEF Value
<1>4. wcount(a)' = wcount(a) /\ Scaled' = Scaled /\ arrays.dst' = arrays.dst
      /\ arrays.tmp' = arrays.tmp
  BY <1>1, ConsumedSame DEF Scaled
<1>5. CASE CountAdded
  <2>1. Phase = "added" /\ Phase' = "row" /\ op = "add" /\ op' = "add" /\ msw' = Higher(msw, at)
    BY <1>1, <1>2, <1>5 DEF CountAdded, Layout, Phases
  <2>2. a[wcount(a) - 1] = 0 => ZeroAbove(arrays.dst, Higher(msw, at))
    BY <2>1 DEF Tops
  <2>3. (a[wcount(a) - 1] = 0 => ZeroAbove(arrays.dst, msw))'
    BY <1>1, <1>4, <2>1, <2>2
  <2> QED BY <2>1, <2>3 DEF Tops
<1>6. CASE Trim
  <2>1. Phase = "trim" /\ op = "sub" /\ op' = "sub" /\ Target = "dst"
    BY <1>1, <1>2, <1>6 DEF Trim, Target, Layout, Phases
  <2>2. Phase' \in {"trim", "row"} /\ Target' = "dst"
    BY <1>2, <1>6 DEF Trim, Target
  <2>3. Value' = Value /\ Value = Number(arrays.dst) /\ Value < Weight[msw + 1]
    BY <1>1, <1>2, <1>3, <2>1, <2>2 DEF Tops
  <2>4. CASE msw' = msw
    BY <2>1, <2>2, <2>3, <2>4 DEF Tops
  <2>5. CASE msw > 0 /\ arrays.dst[msw] = 0 /\ msw' = msw - 1
    <3>1. IsArray(arrays.dst, wcount(arrays.dst)) /\ msw \in 0 .. (wcount(arrays.dst) - 1)
      BY DEF Layout, Sizes
    <3>2. /\ msw + 1 \in 0..wcount(arrays.dst) /\ msw \in 0..wcount(arrays.dst)
          /\ msw \in 0..MaxPower
      BY <3>1, ArrayFacts
    <3>3. Low(arrays.dst, wcount(arrays.dst)) < Weight[msw + 1]
      BY <2>3, <3>1, NumberIsLow
    <3>4. Low(arrays.dst, wcount(arrays.dst)) = Low(arrays.dst, msw + 1)
      BY <3>1, <3>2, <3>3, LowAbove
    <3>5. Low(arrays.dst, msw + 1) = Low(arrays.dst, msw) + 0 * Weight[msw]
      BY <2>5, <3>1, LowStep
    <3>6. Low(arrays.dst, msw) \in Nat /\ Low(arrays.dst, msw) < Weight[msw] /\ Weight[msw] \in Nat
      BY <3>1, <3>2, LowFacts, WeightFacts
    <3>7. Value < Weight[msw]
      BY <2>3, <3>1, <3>4, <3>5, <3>6, NumberIsLow
    <3>8. msw' + 1 = msw
      BY <2>5
    <3>9. Value' < Weight[msw' + 1]
      BY <2>3, <3>7, <3>8
    <3> QED BY <2>1, <2>2, <3>9 DEF Tops
  <2> QED BY <1>6, <2>4, <2>5 DEF Trim
<1>7. CASE CountScaled
  <2>1. /\ Phase = "scaled" /\ Phase' = "scale" /\ msw' = msw /\ op \in {"mul", "init"}
        /\ msw_tmp' = Higher(msw_tmp, at)
    BY <1>2, <1>7 DEF CountScaled, Layout, Phases
  <2>2. ZeroAbove(arrays[Scaled], Higher(msw_tmp, at)) /\ (op = "mul" => ZeroAbove(arrays.dst, msw))
    BY <2>1 DEF Tops
  <2>3. ZeroAbove(arrays[Scaled], msw_tmp)' /\ (op = "mul" => ZeroAbove(arrays.dst, msw))'
    BY <1>1, <1>4, <2>1, <2>2
  <2> QED BY <1>1, <2>1, <2>3 DEF Tops
<1>8. CASE CountAccumulated
  <2>1. Phase = "accumulated" /\ Phase' = "accumulate" /\ op = "mul" /\ op' = "mul"
        /\ msw' = Higher(msw, at) /\ msw_tmp' = msw_tmp
    BY <1>1, <1>2, <1>8 DEF CountAccumulated, Layout, Phases
  <2>2. ZeroAbove(arrays.tmp, msw_tmp) /\ ZeroAbove(arrays.dst, Higher(msw, at))
    BY <2>1 DEF Tops
  <2>3. ZeroAbove(arrays.tmp, msw_tmp)' /\ ZeroAbove(arrays.dst, msw)'
    BY <1>4, <2>1, <2>2
  <2> QED BY <2>1, <2>3 DEF Tops
<1>9. CASE CountDigit
  <2>1. Phase = "digit" /\ Phase' = "row" /\ op = "init" /\ op' = "init"
        /\ msw' = Higher(msw_tmp, at)
    BY <1>1, <1>2, <1>9 DEF CountDigit, Layout, Phases
  <2>2. ZeroAbove(arrays.dst, Higher(msw_tmp, at))
    BY <2>1 DEF Tops
  <2>3. ZeroAbove(arrays.dst, msw)'
    BY <1>4, <2>1, <2>2
  <2> QED BY <2>1, <2>3 DEF Tops
<1>10. CASE EndRows
  <2>1. Phase = "row" /\ Phase' = "done" /\ msw' = msw
    BY <1>2, <1>10 DEF EndRows
  <2>2. Target = "dst" /\ Target' = "dst"
    BY <2>1 DEF Target
  <2>3. Value' = Value
    BY <1>1, <1>2, <1>3, <2>2
  <2>4. /\ op' = op /\ a' = a /\ arrays.dst' = arrays.dst
    BY <1>1
  <2>5. /\ op = "init" => ZeroAbove(arrays.dst, msw)
        /\ op = "mul" => ZeroAbove(arrays.dst, msw)
        /\ op = "add" /\ a[wcount(a) - 1] = 0 => ZeroAbove(arrays.dst, msw)
        /\ op = "sub" => Value < Weight[msw + 1]
    BY <2>1 DEF Tops
  <2>6. /\ (op = "init" => ZeroAbove(arrays.dst, msw))'
        /\ (op = "mul" => ZeroAbove(arrays.dst, msw))'
        /\ (op = "add" /\ a[wcount(a) - 1] = 0 => ZeroAbove(arrays.dst, msw))'
        /\ (op = "sub" => Value < Weight[msw + 1])'
    BY <1>4, <2>1, <2>3, <2>4, <2>5
  <2> QED BY <2>1, <2>6 DEF Tops
<1> QED BY <1>5, <1>6, <1>7, <1>8, <1>9, <1>10

LEMMA TopsScale ==
    ASSUME Layout, Tops, Scale
    PROVE  Tops'
<1> USE LayoutFacts
<1> DEFINE x == arrays[Scaled]
           n == wcount(arrays[Scaled])
           product == x[col] * Multiplier
<1>1. /\ loop_pc = "scale" /\ col \in 0 .. (n - 1) /\ UNCHANGED <<op, a, b>>
      /\ Multiplier \in 0..Base /\ product % Base \in Word
      /\ \/ /\ loop_pc' = "scale" /\ col' = col - 1
            /\ OneWritten(arrays, arrays', Scaled, col, product % Base)
            /\ UNCHANGED <<row, at, old, chain, msw, msw_tmp>>
         \/ OutOfBounds
         \/ /\ product \div Base # 0
            /\ col + 1 \in 0 .. (n - 1)
            /\ \E y \in [Names -> UNION {Arrays(k) : k \in 0..MaxPower}], w \in Word :
                  /\ OneWritten(arrays, y, Scaled, col, product % Base)
                  /\ OneWritten(y, arrays', Scaled, col + 1, w)
            /\ at' = col + 1
            /\ Phase' = "scaled" /\ Target' = Scaled
            /\ UNCHANGED <<row, col, msw, msw_tmp>>
  BY ScaleSplits
<1>2. Phase = "scale" /\ op \in {"mul", "init"}
  BY <1>1 DEF Layout, Phases, Phase
<1>3. Scaled' = Scaled /\ op' = op
  BY <1>1 DEF Scaled
<1>4. /\ Scaled \in Names /\ n \in Nat /\ DOMAIN x = 0 .. (n - 1) /\ DOMAIN x \subseteq Nat
      /\ col \in DOMAIN x
  BY <1>1, SizesFacts, ArrayDomains DEF Layout
<1>5. ZeroAbove(x, msw_tmp) /\ (op = "mul" => ZeroAbove(arrays.dst, msw))
  BY <1>2 DEF Tops
<1>6. x[col] = 0 => product % Base = 0 /\ product \div Base = 0
  <2>1. x[col] = 0 => product = 0
    BY <1>1, SizeAssumption
  <2>2. 0 % Base = 0 /\ 0 \div Base = 0
    BY SizeAssumption
  <2> HIDE DEF product
  <2> QED BY <2>1, <2>2
<1> HIDE DEF product
<1>7. CASE OutOfBounds
  BY <1>7, TopsOob
<1>8. CASE /\ loop_pc' = "scale" /\ col' = col - 1
           /\ OneWritten(arrays, arrays', Scaled, col, product % Base)
           /\ UNCHANGED <<row, at, old, chain, msw, msw_tmp>>
  <2>1. Phase' = "scale"
    BY <1>8 DEF Phase
  <2>2. ZeroAbove(arrays'[Scaled], msw_tmp)
    <3> SUFFICES ASSUME NEW q \in DOMAIN arrays'[Scaled], q > msw_tmp
                 PROVE  arrays'[Scaled][q] = 0
      BY DEF ZeroAbove
    <3>1. q \in DOMAIN x /\ x[q] = 0
      BY <1>4, <1>5, <1>8 DEF OneWritten, SameShape, ZeroAbove
    <3>2. CASE q = col
      BY <1>6, <1>8, <3>1, <3>2 DEF OneWritten
    <3>3. CASE q # col
      BY <1>8, <3>1, <3>3 DEF OneWritten
    <3> QED BY <3>2, <3>3
  <2>3. op = "mul" => ZeroAbove(arrays'["dst"], msw)
    <3>1. op = "mul" => Scaled = "tmp" /\ "dst" \in Names /\ "dst" # "tmp"
      BY DEF Scaled, Names
    <3>2. op = "mul" => arrays'["dst"] = arrays["dst"]
      BY <1>8, <3>1 DEF OneWritten
    <3> QED BY <1>5, <3>2
  <2>4. ZeroAbove(arrays[Scaled], msw_tmp)' /\ (op = "mul" => ZeroAbove(arrays.dst, msw))'
    BY <1>3, <1>8, <2>2, <2>3
  <2> QED BY <1>2, <1>3, <2>1, <2>4 DEF Tops
<1>9. CASE /\ product \div Base # 0
           /\ col + 1 \in 0 .. (n - 1)
           /\ \E y \in [Names -> UNION {Arrays(k) : k \in 0..MaxPower}], w \in Word :
                  /\ OneWritten(arrays, y, Scaled, col, product % Base)
                  /\ OneWritten(y, arrays', Scaled, col + 1, w)
           /\ at' = col + 1
           /\ Phase' = "scaled" /\ Target' = Scaled
           /\ UNCHANGED <<row, col, msw, msw_tmp>>
  <2>1. PICK y \in [Names -> UNION {Arrays(k) : k \in 0..MaxPower}], w \in Word :
               /\ OneWritten(arrays, y, Scaled, col, product % Base)
               /\ OneWritten(y, arrays', Scaled, col + 1, w)
    BY <1>9
  <2>2. msw_tmp \in Nat /\ col \in Nat /\ col + 1 \in Nat
    BY <1>1
  <2>3. col <= msw_tmp
    <3>1. x[col] # 0
      BY <1>6, <1>9
    <3>2. ~(col > msw_tmp)
      BY <1>4, <1>5, <3>1 DEF ZeroAbove
    <3> QED BY ONLY <2>2, <3>2, msw_tmp \in Nat
  <2>4. ZeroAbove(y[Scaled], msw_tmp) /\ DOMAIN y[Scaled] \subseteq Nat
    <3>1. ZeroAbove(y[Scaled], msw_tmp)
      <4>1. ZeroAbove(arrays[Scaled], msw_tmp) /\ DOMAIN arrays[Scaled] \subseteq Nat
        BY <1>4, <1>5
      <4>2. msw_tmp >= msw_tmp /\ msw_tmp >= col
        BY <2>2, <2>3
      <4> QED BY ONLY <1>4, <2>1, <2>2, <4>1, <4>2, ZeroAboveWritten
    <3> QED BY <1>4, <2>1, <3>1 DEF OneWritten, SameShape
  <2>5. ZeroAbove(arrays'[Scaled], Higher(msw_tmp, col + 1))
    <3>1. Higher(msw_tmp, col + 1) \in Nat /\ Higher(msw_tmp, col + 1) >= msw_tmp
          /\ Higher(msw_tmp, col + 1) >= col + 1
      BY <2>2, HigherFacts
    <3> QED BY ONLY <1>4, <2>1, <2>2, <2>4, <3>1, ZeroAboveWritten
  <2>6. op = "mul" => ZeroAbove(arrays'["dst"], msw)
    <3>1. op = "mul" => Scaled = "tmp" /\ "dst" \in Names /\ "dst" # "tmp"
      BY DEF Scaled, Names
    <3>2. op = "mul" => arrays'["dst"] = arrays["dst"]
      BY <2>1, <3>1 DEF OneWritten
    <3> QED BY <1>5, <3>2
  <2>7. ZeroAbove(arrays[Scaled], Higher(msw_tmp, at))'
        /\ (op = "mul" => ZeroAbove(arrays.dst, msw))'
    BY <1>3, <1>9, <2>5, <2>6
  <2> QED BY <1>2, <1>3, <1>9, <2>7 DEF Tops
<1> QED BY <1>1, <1>7, <1>8, <1>9

LEMMA TopsEndScale ==
    ASSUME Layout, Tops, EndScale
    PROVE  Tops'
<1> USE LayoutFacts
<1>1. /\ loop_pc = "scale" /\ UNCHANGED <<op, a, b>> /\ Phase = "scale"
      /\ row \in 0 .. (wcount(b) - 1)
  BY DEF EndScale, Layout, Indices, Phase
<1>2. ZeroAbove(arrays[Scaled], msw_tmp) /\ (op = "mul" => ZeroAbove(arrays.dst, msw))
  BY <1>1 DEF Tops
<1>3. CASE /\ op = "mul"
           /\ col' = 0 /\ loop_pc' = "accumulate"
           /\ UNCHANGED <<arrays, row, at, old, chain, msw, msw_tmp>>
  <2>1. Phase' = "accumulate" /\ Scaled = "tmp" /\ op' = "mul"
    BY <1>1, <1>3 DEF Phase, Scaled
  <2>2. ZeroAbove(arrays.tmp, msw_tmp)' /\ ZeroAbove(arrays.dst, msw)'
    BY <1>2, <1>3, <2>1
  <2> QED BY <2>1, <2>2 DEF Tops
<1>4. CASE op = "init" /\ StartChain("dst", 0, 1, b[row], "digit")
  <2>1. Sign = 1 /\ "dst" \in Names
    BY <1>4 DEF Sign, Names
  <2>2. CASE OutOfBounds
    BY <2>2, TopsOob
  <2>3. CASE ~OutOfBounds
    <3>1. Phase' = "digit" /\ at' = 0 /\ msw_tmp' = msw_tmp
          /\ \E w \in Word : OneWritten(arrays, arrays', "dst", 0, w)
      <4>1. /\ Sizes /\ op' = op /\ 0 \in Nat /\ b[row] \in Word
            /\ StartChain("dst", 0, 1, b[row], "digit")
        BY <1>1, <1>4, ConsumedStep DEF Layout
      <4> QED BY ONLY <2>1, <2>3, <4>1, ChainStarts
    <3>2. Scaled = "dst"
      BY <1>4 DEF Scaled
    <3>3. ZeroAbove(arrays'["dst"], Higher(msw_tmp, 0))
      <4>1. "dst" \in Names /\ msw_tmp \in Nat /\ 0 \in Nat /\ ZeroAbove(arrays["dst"], msw_tmp)
        BY <1>2, <2>1, <3>2
      <4> QED BY ONLY Layout, <3>1, <4>1, ZeroStays
    <3>4. ZeroAbove(arrays.dst, Higher(msw_tmp, at))'
      BY <3>1, <3>3
    <3> QED BY <1>1, <1>4, <3>1, <3>4 DEF Tops
  <2> QED BY <2>2, <2>3
<1> QED BY <1>3, <1>4 DEF EndScale

LEMMA TopsAccumulate ==
    ASSUME Layout, Tops, Accumulate
    PROVE  Tops'
<1> USE LayoutFacts
<1>1. /\ loop_pc = "accumulate" /\ UNCHANGED <<op, a, b>> /\ Phase = "accumulate"
      /\ row \in 0 .. (wcount(b) - 1) /\ op = "mul"
      /\ 0 <= col /\ col <= msw_tmp + 1 /\ msw_tmp < wcount(arrays.tmp)
  BY DEF Accumulate, Layout, Phases, Indices, Phase
<1>2. ZeroAbove(arrays.tmp, msw_tmp) /\ ZeroAbove(arrays.dst, msw)
  BY <1>1 DEF Tops
<1>3. CASE col <= msw_tmp
  <2>1. Sign = 1 /\ "dst" \in Names /\ StartChain("dst", col + row, 1, arrays.tmp[col], "accumulated")
    BY <1>1, <1>3 DEF Sign, Names, Accumulate
  <2>2. CASE OutOfBounds
    BY <2>2, TopsOob
  <2>3. CASE ~OutOfBounds
    <3> DEFINE j == col + row
               v == arrays.tmp[col]
    <3>1. v \in Word /\ j \in Nat
      <4>1. col \in 0 .. (wcount(arrays.tmp) - 1) /\ IsArray(arrays.tmp, wcount(arrays.tmp))
        BY <1>1, <1>3 DEF Layout, Sizes
      <4>2. j \in Nat
        BY <1>1
      <4>3. v \in Word
        BY ONLY <4>1, ArrayFacts
      <4> QED BY <4>2, <4>3
    <3>2. Sizes /\ op' = op /\ StartChain("dst", j, 1, v, "accumulated")
      BY <1>1, <2>1 DEF Layout
    <3> HIDE DEF j, v
    <3>3. /\ Phase' = "accumulated" /\ msw' = msw /\ msw_tmp' = msw_tmp /\ at' = j
          /\ \E w \in Word : OneWritten(arrays, arrays', "dst", j, w)
      BY ONLY <2>1, <2>3, <3>1, <3>2, ChainStarts
    <3>4. ZeroAbove(arrays'["dst"], Higher(msw, j))
      <4>1. "dst" \in Names /\ msw \in Nat /\ ZeroAbove(arrays["dst"], msw)
        BY <1>2, <2>1
      <4> QED BY ONLY Layout, <3>1, <3>3, <4>1, ZeroStays
    <3>5. arrays'["tmp"] = arrays["tmp"]
      BY <3>3 DEF OneWritten, Names
    <3>6. ZeroAbove(arrays.dst, Higher(msw, at))' /\ ZeroAbove(arrays.tmp, msw_tmp)'
      BY <1>2, <3>3, <3>4, <3>5
    <3> QED BY <1>1, <3>3, <3>6 DEF Tops
  <2> QED BY <2>2, <2>3
<1>4. CASE ~(col <= msw_tmp)
  <2>1. /\ row' = row + 1 /\ loop_pc' = "row" /\ Phase' = "row"
        /\ UNCHANGED <<arrays, col, at, old, chain, msw, msw_tmp>>
    BY <1>4 DEF Accumulate, Phase
  <2>2. ZeroAbove(arrays.dst, msw)'
    BY <1>2, <2>1
  <2> QED BY <1>1, <2>1, <2>2 DEF Tops
<1> QED BY <1>3, <1>4

----------------------------------------------------------------------------
(* At the start, and while the number is printed.                          *)

LEMMA ZeroNumber ==
    ASSUME NEW n \in 1..MaxWords
    PROVE  Number(Zeros(n)) = 0 /\ \A k \in Nat : ZeroAbove(Zeros(n), k)
<1>1. IsArray(Zeros(n), n) /\ n \in Nat
  BY ZerosFacts, SizeAssumption
<1>2. \A k \in 0 .. (n - 1) : Zeros(n)[k] = 0
  BY DEF Zeros
<1>3. Low(Zeros(n), n) = Low(Zeros(n), 0)
  <2>1. 0 \in 0..n
    BY <1>1
  <2> QED BY <1>1, <1>2, <2>1, LowAbove
<1>4. \A k \in Nat : ZeroAbove(Zeros(n), k)
  BY <1>1, <1>2, ArrayFacts DEF ZeroAbove
<1> QED BY <1>1, <1>3, <1>4, LowOfNone, NumberIsLow

LEMMA StartsAt ==
    ASSUME LoopInit
    PROVE  /\ row = 0 /\ loop_pc = "row"
           /\ op \in {"add", "sub"} => arrays.dst = a /\ IsArray(a, wcount(a))
           /\ op = "add" => msw = wcount(a) - 2
           /\ op \in {"sub", "mul"} => msw = wcount(a) - 1
           /\ op = "init" => msw = 0
           /\ op \in {"mul", "init"} => \E n \in 1..MaxWords : arrays.dst = Zeros(n)
<1>1. /\ row = 0 /\ loop_pc = "row"
      /\ msw = CASE op = "init" -> 0 [] op = "add" -> wcount(a) - 2 [] OTHER -> wcount(a) - 1
  BY DEF LoopInit
<1>2. /\ op = "add" => msw = wcount(a) - 2
      /\ op \in {"sub", "mul"} => msw = wcount(a) - 1
      /\ op = "init" => msw = 0
  BY <1>1
<1>3. op \in {"add", "sub"} => arrays.dst = a
  BY DEF LoopInit, Start
<1>4. op \in {"add", "sub"} => IsArray(a, wcount(a))
  BY LayoutInit DEF Layout, Sizes
<1>5. op \in {"mul", "init"} => \E n \in 1..MaxWords : arrays.dst = Zeros(n)
  <2>1. CASE op = "mul"
    <3>1. PICK x \in Operands, y \in Operands : Start("mul", x, y, Zeros(wcount(x) + wcount(y)))
      BY <2>1 DEF LoopInit, Start
    <3>2. wcount(x) + wcount(y) \in 1..MaxWords
      <4>1. wcount(x) \in 1..MaxLen /\ wcount(y) \in 1..MaxLen
        BY OperandFacts
      <4> QED BY <4>1, LoopAssumption, SizeAssumption
    <3>3. arrays.dst = Zeros(wcount(x) + wcount(y))
      BY <3>1 DEF Start
    <3> QED BY <3>2, <3>3
  <2>2. CASE op = "init"
    <3>1. PICK base \in Radixes : \E digits \in Digits(base) :
             Start("init", [k \in {0} |-> base], digits,
                   Zeros(get_blen_from_slen(wcount(digits), base)))
      BY <2>2 DEF LoopInit, Start
    <3>2. PICK digits \in Digits(base) :
             Start("init", [k \in {0} |-> base], digits,
                   Zeros(get_blen_from_slen(wcount(digits), base)))
      BY <3>1
    <3>3. get_blen_from_slen(wcount(digits), base) \in 1..MaxWords
      BY DigitsFacts
    <3>4. arrays.dst = Zeros(get_blen_from_slen(wcount(digits), base))
      BY <3>2 DEF Start
    <3> QED BY <3>3, <3>4
  <2> QED BY <2>1, <2>2
<1> QED BY <1>1, <1>2, <1>3, <1>4, <1>5

LEMMA ExactInit ==
    ASSUME LoopInit
    PROVE  Exact /\ Tops
<1>1. Layout
  BY LayoutInit
<1>2. Phase = "row" /\ Target = "dst" /\ loop_pc = "row" /\ row = 0
  BY StartsAt DEF Phase, Target
<1>3. op \in {"add", "sub", "mul", "init"} /\ msw \in Nat
  BY <1>1, LayoutFacts
<1>4. Value = Number(arrays.dst)
  BY <1>1, <1>2, ValueAtRest
<1>5. op \in {"mul", "init"} => Number(arrays.dst) = 0 /\ ZeroAbove(arrays.dst, msw)
  BY <1>3, StartsAt, ZeroNumber
<1>6. Number(arrays.dst) = Consumed(row)
  BY <1>1, <1>2, <1>3, <1>5, StartsAt, ConsumedOfNone
<1>7. op = "add" /\ a[wcount(a) - 1] = 0 => ZeroAbove(arrays.dst, msw)
  <2> SUFFICES ASSUME op = "add", a[wcount(a) - 1] = 0, NEW k \in DOMAIN arrays.dst, k > msw
               PROVE  arrays.dst[k] = 0
    BY DEF ZeroAbove
  <2>1. arrays.dst = a /\ msw = wcount(a) - 2 /\ DOMAIN a = 0 .. (wcount(a) - 1)
        /\ wcount(a) \in Nat
    BY StartsAt, ArrayFacts
  <2>2. k = wcount(a) - 1
    <3> DEFINE n == wcount(a)
    <3>1. n \in Nat /\ k \in 0 .. (n - 1) /\ k > n - 2
      BY <2>1
    <3> HIDE DEF n
    <3>2. k = n - 1
      BY ONLY <3>1
    <3> QED BY <3>2 DEF n
  <2> QED BY <2>1, <2>2
<1>8. op = "sub" => Value < Weight[msw + 1]
  <2> SUFFICES ASSUME op = "sub" PROVE Value < Weight[msw + 1]
    OBVIOUS
  <2>1. arrays.dst = a /\ msw = wcount(a) - 1 /\ IsArray(a, wcount(a)) /\ wcount(a) \in Nat
    BY StartsAt, ArrayFacts
  <2>2. msw + 1 = wcount(a)
    BY <2>1
  <2> QED BY <1>4, <2>1, <2>2, NumberType
<1>9. Exact
  BY <1>2, <1>6 DEF Exact
<1>10. Tops
  BY <1>2, <1>5, <1>7, <1>8 DEF Tops
<1> QED BY <1>9, <1>10

LEMMA ExactSame ==
    ASSUME Layout, Exact, Tops, UNCHANGED loop_vars
    PROVE  Exact' /\ Tops'
<1>1. UNCHANGED <<op, a, b, arrays, row, col, at, old, chain, msw, msw_tmp, loop_pc>>
  BY DEF loop_vars
<1>2. Phase' = Phase /\ Scaled' = Scaled /\ Sign' = Sign /\ (Wrapped' <=> Wrapped)
  BY <1>1 DEF Phase, Scaled, Sign, Wrapped
<1>3. Target' = Target /\ Pending' = Pending
  BY <1>1, <1>2 DEF Target, Pending
<1>4. Value' = Value
  BY <1>1, <1>3 DEF Value
<1>5. /\ Consumed(row)' = Consumed(row) /\ Consumed(row + 1)' = Consumed(row + 1)
      /\ NumeralPrefix(row)' = NumeralPrefix(row) /\ Number(a)' = Number(a)
      /\ wcount(a)' = wcount(a)
  BY <1>1, ConsumedSame
<1>6. Multiplier' = Multiplier /\ Unscaled' = Unscaled
  BY <1>1, <1>5 DEF Multiplier, Unscaled
<1>7. HalfScaled(col)' = HalfScaled(col) /\ HalfScaled(col + 1)' = HalfScaled(col + 1)
  BY <1>1, <1>2, <1>6 DEF HalfScaled
<1>8. Exact'
  BY <1>1, <1>2, <1>4, <1>5, <1>7 DEF Exact
<1>9. Tops'
  BY <1>1, <1>2, <1>4, <1>5 DEF Tops, Higher, ZeroAbove
<1> QED BY <1>8, <1>9

\* The inductive invariant of the loops.
LoopIInv == Layout /\ Exact /\ Tops

LEMMA LoopStep ==
    ASSUME LoopIInv, LoopNext
    PROVE  LoopIInv'
<1> USE DEF LoopIInv
<1>1. Layout'
  BY LayoutStep
<1>2. Exact'
  BY ExactStartRow, ExactPropagate, ExactEndChain, ExactCounts, ExactScale, ExactEndScale,
     ExactAccumulate DEF LoopNext
<1>3. Tops'
  BY TopsStartRow, TopsPropagate, TopsEndChain, TopsCounts, TopsScale, TopsEndScale,
     TopsAccumulate DEF LoopNext
<1> QED BY <1>1, <1>2, <1>3

\* The state of the loops is exact throughout: the words written, the carry that
\* runs and what is still to come add up to the result (bignum.c:126-219, 267-283,
\* 334-349, 431-451, 764-787).
THEOREM LoopInvariance == WordsSpec => []LoopIInv
<1>1. WordsInit => LoopIInv
  BY LayoutInit, ExactInit DEF WordsInit, LoopIInv
<1>2. LoopIInv /\ [WordsNext]_words_vars => LoopIInv'
  BY LoopStep, LayoutSame, ExactSame, PrintingFacts DEF LoopIInv
<1> QED BY <1>1, <1>2, PTL DEF WordsSpec

\* Between two rows the destination holds the result for the part of b consumed
\* so far, for every word size and every length: each carry chain moved exactly
\* one unit up and lost none.
THEOREM LoopsAreExact == WordsSpec => []RowsAreExact
<1>1. LoopIInv => RowsAreExact
  <2> SUFFICES ASSUME LoopIInv, loop_pc \in {"row", "done"} PROVE RowsAreExact
    BY DEF RowsAreExact
  <2>1. Number(arrays.dst) = Consumed(row)
    BY DEF LoopIInv, Exact, Phase
  <2>2. op \in {"add", "sub", "mul", "init"}
    BY LayoutFacts DEF LoopIInv
  <2> QED BY <2>1, <2>2 DEF RowsAreExact, Consumed
<1> QED BY <1>1, LoopInvariance, PTL

\* The arrays hold words and the indices are indices, whatever the carries.
THEOREM LoopTypesAreKept == WordsSpec => []LoopTypeOK
<1>1. LoopIInv => LoopTypeOK
  <2> SUFFICES ASSUME LoopIInv PROVE LoopTypeOK
    OBVIOUS
  <2>1. Layout
    BY DEF LoopIInv
  <2>2. \A t \in Names : arrays[t] \in Arrays(wcount(arrays[t]))
    BY <2>1, SizesFacts DEF Layout, IsArray
  <2>3. arrays.dst \in Arrays(wcount(arrays.dst)) /\ arrays.tmp \in Arrays(wcount(arrays.tmp))
    BY <2>2 DEF Names
  <2>4. msw \in DOMAIN arrays.dst
    <3>1. DOMAIN arrays.dst = 0 .. (wcount(arrays.dst) - 1)
      BY <2>3 DEF Arrays
    <3> QED BY <2>1, <3>1, LayoutFacts
  <2> QED BY <2>1, <2>3, <2>4, LayoutFacts DEF LoopTypeOK, Layout, Sizes, Phases
<1> QED BY <1>1, LoopInvariance, PTL

----------------------------------------------------------------------------
(* The loops stay inside their arrays.                                     *)

\* For a sum or a difference the words of b are words of the destination, as
\* long as none has led out of it.
Rows ==
    /\ Phase = "done" => row = wcount(b)
    /\ op \in {"add", "sub"} =>
          /\ Phase \in {"row", "done"} => row <= wcount(arrays.dst)
          /\ Phase \in {"added", "trim"} => row < wcount(arrays.dst)

\* Only these operands lead out of it.
Predicted ==
    \/ op = "add" /\ SumOverruns(Number(a), wcount(a) - 1, Number(b), wcount(b))
    \/ op = "sub" /\ wcount(b) > wcount(a)

Bounds == Rows /\ (Phase = "oob" => Predicted)

LEMMA PrefixFacts ==
    ASSUME Layout, NEW n \in 0 .. wcount(b)
    PROVE  Prefix(n) <= Number(b) /\ Prefix(wcount(b)) = Number(b) /\ Number(b) \in Nat
           /\ Number(b) < Weight[wcount(b)] /\ wcount(b) \in 0..MaxPower
<1>1. IsArray(b, wcount(b)) /\ wcount(b) \in Nat
  BY SizesFacts DEF Layout, Sizes
<1>2. Prefix(n) = Low(b, n) /\ Prefix(wcount(b)) = Low(b, wcount(b))
  BY DEF Prefix, Low
<1>3. Low(b, n) <= Low(b, wcount(b))
  BY <1>1, LowMonotone
<1>4. Number(b) = Low(b, wcount(b)) /\ Number(b) \in Nat /\ Number(b) < Weight[wcount(b)]
  BY <1>1, NumberIsLow, NumberType
<1> QED BY <1>1, <1>2, <1>3, <1>4 DEF IsArray

\* What is scaled fits the array, scaled and half scaled.
LEMMA UnscaledFits ==
    ASSUME Layout, op \in {"mul", "init"}, row < wcount(b), Phase \in {"scale", "scaled"}
    PROVE  /\ Unscaled \in Nat /\ Multiplier \in 0..Base
           /\ Unscaled < Weight[wcount(arrays[Scaled])]
           /\ Multiplier * Unscaled < Weight[wcount(arrays[Scaled])]
<1> USE LayoutFacts
<1>1. Unscaled \in Nat /\ Multiplier \in 0..Base /\ Multiplier \in Nat
      /\ row \in 0 .. (wcount(b) - 1) /\ row + 1 \in 0 .. wcount(b) /\ row \in 0 .. wcount(b)
  BY OperandNumbers, MultiplierType, SizeAssumption DEF Unscaled
<1>2. CASE op = "mul"
  <2> DEFINE n == wcount(a)
  <2>1. IsArray(a, n) /\ n \in Nat /\ n + 1 <= MaxWords /\ wcount(arrays[Scaled]) = n + 1
    <3>1. n \in 1..MaxLen /\ MaxLen \in Nat /\ 2 * MaxLen <= MaxWords
          /\ wcount(arrays.tmp) = n + 1
      BY <1>2, LoopAssumption DEF Layout, Sizes
    <3>2. Scaled = "tmp"
      BY <1>2 DEF Scaled
    <3> QED BY <1>2, <3>1, <3>2 DEF Layout, Sizes
  <2>2. Unscaled = Number(a) /\ Number(a) < Weight[n]
    BY <1>2, <2>1, NumberType DEF Unscaled
  <2>3. n \in 0 .. (MaxPower - 1) /\ n \in 0..MaxPower
    BY <2>1, WeightFacts
  <2>4. Weight[n + 1] = Base * Weight[n] /\ Weight[n] \in Nat
    BY <2>3, WeightFacts
  <2>5. Multiplier < Base
    BY <1>1, <1>2, ConsumedStep DEF Multiplier
  <2> HIDE DEF n
  <2>6. ASSUME NEW m \in Nat, NEW u \in Nat, NEW w \in Nat, NEW z \in Nat, m < z, u < w
        PROVE  u < z * w /\ m * u < z * w
    <3>1. m * u <= m * w
      BY <2>6
    <3>2. m * w < z * w /\ w <= z * w
      BY <2>6
    <3>3. m * u \in Nat /\ m * w \in Nat /\ z * w \in Nat
      BY <2>6
    <3> QED BY ONLY <2>6, <3>1, <3>2, <3>3
  <2>7. Unscaled < Base * Weight[n] /\ Multiplier * Unscaled < Base * Weight[n]
    <3>1. Base \in Nat
      BY SizeAssumption
    <3> QED BY <1>1, <2>2, <2>4, <2>5, <2>6, <3>1
  <2> QED BY <1>1, <2>1, <2>4, <2>7
<1>3. CASE op = "init"
  <2> DEFINE r == a[0]
             q == wcount(b)
  <2>1. /\ r \in Radixes /\ r \in Nat /\ r >= 2 /\ q \in 1..MaxDigits /\ q \in 0..MaxPower
        /\ wcount(arrays[Scaled]) = get_blen_from_slen(q, r)
    <3>1. wcount(arrays.dst) = get_blen_from_slen(q, r) /\ Scaled = "dst" /\ q \in 1..MaxDigits
      BY <1>3 DEF Scaled, Layout, Sizes
    <3> QED BY <1>3, <3>1, OperandNumbers
  <2>2. Unscaled = NumeralPrefix(row) /\ Multiplier = r /\ Unscaled < Power[r][row]
    BY <1>1, <1>3, OperandNumbers DEF Unscaled, Multiplier
  <2>3. /\ row \in 0 .. (MaxPower - 1) /\ row \in 0..MaxPower /\ row + 1 \in 0..MaxPower
        /\ row + 1 <= q
    BY <1>1, <2>1, WeightFacts
  <2>4. /\ Power[r][row + 1] = r * Power[r][row] /\ Power[r][row] \in Nat
        /\ Power[r][row + 1] <= Power[r][q] /\ Power[r][q] \in Nat /\ Power[r][row + 1] \in Nat
    BY <2>1, <2>3, PowerFacts, PowerMonotone
  <2> HIDE DEF r, q
  <2>5. ASSUME NEW m \in Nat, m >= 2, NEW u \in Nat, NEW w \in Nat, u < w
        PROVE  u <= m * u /\ m * u < m * w /\ m * u \in Nat
    BY <2>5
  <2>6. Unscaled <= r * Unscaled /\ r * Unscaled < Power[r][q] /\ r * Unscaled \in Nat
    BY <1>1, <2>1, <2>2, <2>4, <2>5
  <2>7. r * Unscaled < Weight[get_blen_from_slen(q, r)]
        /\ get_blen_from_slen(q, r) \in 1..MaxWords
    <3>1. Power[r][q] <= Weight[MaxWords]
      BY <2>1, LoopAssumption
    <3>2. q \in 0..MaxDigits /\ q > 0 /\ r * Unscaled \in 0 .. (Power[r][q] - 1)
      BY <2>1, <2>4, <2>6, SizeAssumption
    <3> QED BY <2>1, <3>1, <3>2, NumeralFits
  <2>8. Weight[get_blen_from_slen(q, r)] \in Nat
    BY <2>7, WeightFacts
  <2> QED BY <1>1, <2>1, <2>2, <2>6, <2>7, <2>8
<1> QED BY <1>2, <1>3

LEMMA HalfScaledFits ==
    ASSUME Layout, op \in {"mul", "init"}, row < wcount(b), Phase \in {"scale", "scaled"},
           NEW k \in 0 .. wcount(arrays[Scaled])
    PROVE  HalfScaled(k) \in Int /\ HalfScaled(k) < Weight[wcount(arrays[Scaled])]
<1> DEFINE n == wcount(arrays[Scaled])
           low == Low(arrays[Scaled], k)
<1>1. IsArray(arrays[Scaled], n) /\ n \in 0..MaxPower
  BY SizesFacts DEF Layout, IsArray
<1>2. low \in Nat /\ low < Weight[k] /\ Weight[k] <= Weight[n] /\ Weight[k] \in Nat
      /\ Weight[n] \in Nat
  <2>0. k \in 0..n /\ n \in 0..MaxPower /\ MaxPower \in Nat
    BY <1>1, WeightFacts
  <2> HIDE DEF n
  <2>1. k \in 0..MaxPower /\ k <= n
    BY ONLY <2>0
  <2> QED BY <1>1, <2>1, LowFacts, WeightMonotone, WeightFacts
<1>3. /\ Unscaled \in Nat /\ Multiplier \in Nat /\ Unscaled < Weight[n]
      /\ Multiplier * Unscaled < Weight[n]
  BY UnscaledFits
<1>4. HalfScaled(k) = low + Multiplier * (Unscaled - low)
  BY DEF HalfScaled
<1> HIDE DEF n, low
<1>5. ASSUME NEW l \in Nat, NEW m \in Nat, NEW u \in Nat, NEW w \in Nat, l < w, u < w, m * u < w
      PROVE  l + m * (u - l) \in Int /\ l + m * (u - l) < w
  <2>1. CASE m = 0
    BY <1>5, <2>1
  <2>2. CASE m # 0
    <3>1. l + m * (u - l) = m * u - (m - 1) * l
      BY <1>5
    <3>2. (m - 1) * l \in Nat /\ m * u \in Nat
      <4>1. m - 1 \in Nat
        BY <1>5, <2>2
      <4> QED BY <1>5, <4>1
    <3> QED BY <1>5, <3>1, <3>2
  <2> QED BY <2>1, <2>2
<1>6. HalfScaled(k) \in Int /\ HalfScaled(k) < Weight[n]
  BY <1>2, <1>3, <1>4, <1>5
<1> QED BY <1>6 DEF n

\* Scaling a word turns what is still to be scaled into what is scaled.
LEMMA HalfScaledStep ==
    ASSUME Layout, Exact, Phase = "scale", col \in 0 .. (wcount(arrays[Scaled]) - 1)
    PROVE  Number(arrays[Scaled]) + (Multiplier - 1) * (arrays[Scaled][col] * Weight[col])
              = HalfScaled(col)
<1> USE LayoutFacts
<1> DEFINE x == arrays[Scaled]
           n == wcount(arrays[Scaled])
           scaled == Number(x) + (Multiplier - 1) * (x[col] * Weight[col])
<1>2. op \in {"mul", "init"} /\ row < wcount(b)
  BY DEF Layout, Phases, Indices
<1>4. IsArray(x, n) /\ Scaled \in Names /\ n \in Nat /\ DOMAIN x = 0 .. (n - 1)
  BY SizesFacts DEF Layout
<1>5. Number(x) = HalfScaled(col + 1) /\ Number(x) \in Nat
  <2> HIDE DEF n
  <2> QED BY <1>4, NumberType DEF Exact
<1>6. Unscaled \in Nat /\ Multiplier \in Int
  BY <1>2, OperandNumbers, MultiplierType, SizeAssumption DEF Unscaled
<1> DEFINE d == x[col] * Weight[col]
           low == Low(x, col)
           m == Multiplier
           u == Unscaled
<1>7. Low(x, col + 1) = low + d
  BY <1>4, LowStep
<1>8. d \in Nat /\ low \in Nat
  <2>1. x[col] \in Nat /\ col \in 0..MaxPower /\ col \in 0..n
    BY <1>4, ArrayFacts
  <2>2. Weight[col] \in Nat
    BY <2>1, WeightFacts
  <2>3. d \in Nat
    BY <2>1, <2>2
  <2>4. low \in Nat
    BY <1>4, <2>1, LowFacts
  <2> QED BY <2>3, <2>4
<1>9. HalfScaled(col + 1) = (low + d) + m * (u - (low + d)) /\ HalfScaled(col) = low + m * (u - low)
  BY <1>7 DEF HalfScaled
<1>10. scaled = HalfScaled(col + 1) + (m - 1) * d
  BY <1>5
<1>11. ASSUME NEW l \in Int, NEW e \in Int, NEW v \in Int, NEW r \in Int
       PROVE  ((l + e) + r * (v - (l + e))) + (r - 1) * e = l + r * (v - l)
  BY <1>11
<1>12. m \in Int /\ u \in Int /\ low \in Int /\ d \in Int
  BY <1>6, <1>8
<1> HIDE DEF d, low, m, u, scaled
<1>13. scaled = HalfScaled(col)
  BY ONLY <1>9, <1>10, <1>11, <1>12
<1> QED BY <1>13 DEF scaled

\* What the destination of a product is worth while a row is accumulated.
LEMMA AccumulatedFits ==
    ASSUME Layout, Exact, Phase = "accumulated"
    PROVE  Value \in Nat /\ Value < Weight[wcount(arrays.dst)]
<1> USE LayoutFacts
<1> DEFINE la == wcount(a)
           lb == wcount(b)
           n == wcount(arrays.tmp)
<1>1. op = "mul" /\ row < lb /\ 0 <= col /\ col <= msw_tmp /\ msw_tmp < n
  BY DEF Layout, Phases, Indices
<1>2. /\ IsArray(a, la) /\ la \in 1..MaxLen /\ lb \in 1..MaxLen /\ wcount(arrays.dst) = la + lb
      /\ IsArray(arrays.tmp, n) /\ n \in Nat
      /\ la \in Nat /\ lb \in Nat /\ la + lb <= MaxPower /\ MaxPower \in Nat
  <2>1. IsArray(a, la) /\ la \in 1..MaxLen /\ lb \in 1..MaxLen /\ wcount(arrays.dst) = la + lb
        /\ IsArray(arrays.tmp, n)
    BY <1>1 DEF Layout, Sizes
  <2>2. la + lb <= MaxPower /\ MaxPower \in Nat /\ MaxLen \in Nat
    BY <2>1, LoopAssumption, WeightFacts
  <2> QED BY <2>1, <2>2
<1>3. /\ Number(arrays.tmp) = Number(a) * b[row]
      /\ Value = Consumed(row) + Low(arrays.tmp, col + 1) * Weight[row]
  BY DEF Exact
<1>4. /\ Consumed(row) \in Int /\ Weight[row] \in Nat /\ b[row] \in Nat
      /\ Consumed(row + 1) = Consumed(row) + Number(a) * (b[row] * Weight[row])
      /\ Number(a) \in Nat /\ Number(a) < Weight[la]
      /\ Consumed(row) = Number(a) * Prefix(row) /\ Prefix(row) \in Nat
      /\ Consumed(row + 1) = Number(a) * Prefix(row + 1)
      /\ Prefix(row + 1) \in Nat /\ Prefix(row + 1) < Weight[row + 1]
  <2>1. row \in 0 .. (lb - 1) /\ row \in 0..lb /\ row + 1 \in 0..lb
    BY <1>1
  <2>2. /\ Consumed(row) \in Int /\ Weight[row] \in Nat /\ b[row] \in Nat
        /\ Consumed(row + 1) = Consumed(row) + Number(a) * (b[row] * Weight[row])
    BY <1>1, <2>1, ConsumedStep
  <2>3. Number(a) \in Nat /\ Number(a) < Weight[la]
    <3> HIDE DEF la
    <3> QED BY <1>2, NumberType
  <2>4. /\ Prefix(row) \in Nat /\ Prefix(row + 1) \in Nat /\ Prefix(row + 1) < Weight[row + 1]
    BY <2>1, OperandNumbers
  <2> QED BY <1>1, <2>2, <2>3, <2>4 DEF Consumed
<1>5. Low(arrays.tmp, col + 1) \in Nat /\ Low(arrays.tmp, col + 1) <= Number(arrays.tmp)
  <2>1. col + 1 \in 0..n /\ n \in 0..n /\ col + 1 <= n
    BY <1>1, <1>2
  <2> HIDE DEF n
  <2>2. Low(arrays.tmp, col + 1) \in Nat /\ Low(arrays.tmp, col + 1) <= Low(arrays.tmp, n)
        /\ Number(arrays.tmp) = Low(arrays.tmp, n)
    BY ONLY <1>2, <2>1, LowFacts, LowMonotone, NumberIsLow
  <2> QED BY <2>2
<1>6. /\ Weight[la + (row + 1)] = Weight[la] * Weight[row + 1]
      /\ Weight[la + (row + 1)] <= Weight[la + lb] /\ Weight[la + lb] \in Nat
      /\ Weight[la] \in Nat /\ Weight[row + 1] \in Nat
  <2>1. /\ la \in 0..MaxPower /\ row + 1 \in 0..MaxPower /\ la + (row + 1) \in 0..MaxPower
        /\ la + lb \in 0..MaxPower /\ la + (row + 1) <= la + lb /\ la + (row + 1) <= MaxPower
    BY <1>1, <1>2
  <2> HIDE DEF la, lb
  <2> QED BY ONLY <2>1, WeightSum, WeightMonotone, WeightFacts
<1> DEFINE l == Low(arrays.tmp, col + 1)
           p == Prefix(row)
           p1 == Prefix(row + 1)
           x == Number(a)
           d == b[row]
           w == Weight[row]
           w1 == Weight[row + 1]
           wl == Weight[la]
<1>7. /\ l \in Nat /\ p \in Nat /\ p1 \in Nat /\ x \in Nat /\ d \in Nat /\ w \in Nat
      /\ w1 \in Nat /\ wl \in Nat /\ l <= x * d /\ x < wl /\ p1 < w1
      /\ x * p1 = x * p + x * (d * w) /\ Value = x * p + l * w
  BY <1>3, <1>4, <1>5, <1>6
<1>8. wl * w1 <= Weight[wcount(arrays.dst)] /\ Weight[wcount(arrays.dst)] \in Nat
  BY <1>2, <1>6
<1> HIDE DEF l, p, p1, x, d, w, w1, wl
<1>9. l * w <= x * (d * w) /\ l * w \in Nat
  <2>1. ASSUME NEW y \in Nat, NEW z \in Nat, NEW u \in Nat, y <= z PROVE y * u <= z * u
    BY <2>1
  <2>2. l * w <= (x * d) * w
    <3>1. x * d \in Nat
      BY <1>7
    <3> QED BY ONLY <1>7, <2>1, <3>1
  <2>3. (x * d) * w = x * (d * w)
    BY <1>7
  <2> QED BY <1>7, <2>2, <2>3
<1>10. x * p \in Nat /\ x * p1 \in Nat /\ x * (d * w) \in Nat
  <2>1. d * w \in Nat
    BY <1>7
  <2> QED BY <1>7, <2>1
<1>11. Value \in Nat /\ Value <= x * p1
  BY ONLY <1>7, <1>9, <1>10
<1>12. x * p1 < wl * w1
  <2>1. ASSUME NEW y \in Nat, NEW z \in Nat, NEW u \in Nat, NEW v \in Nat, y < z, u < v
        PROVE  y * u < z * v
    <3>1. y * u <= y * v /\ y * v < z * v
      BY <2>1
    <3>2. y * u \in Nat /\ y * v \in Nat /\ z * v \in Nat
      BY <2>1
    <3> QED BY ONLY <3>1, <3>2
  <2> QED BY ONLY <1>7, <2>1
<1>13. wl * w1 \in Nat
  BY <1>7
<1> QED BY ONLY <1>8, <1>10, <1>11, <1>12, <1>13

\* A carry that leaves the destination of a sum was predicted.
LEMMA CarryOutIsPredicted ==
    ASSUME Layout, op = "add", row < wcount(b),
           Number(a) + Prefix(row + 1) >= Weight[wcount(a)]
    PROVE  Predicted
<1> DEFINE n == wcount(a)
           x == Number(a)
           y == Number(b)
<1>1. IsArray(a, n) /\ n \in Nat /\ n >= 2 /\ n \in 0..MaxPower /\ required_capacity(n - 1) = n
  <2>1. IsArray(a, n) /\ n >= 2
    BY DEF Layout, Sizes
  <2> HIDE DEF n
  <2> QED BY <2>1, ArrayFacts DEF IsArray, required_capacity
<1>2. x \in Nat /\ x < Weight[n] /\ Weight[n] \in Nat
  <2> HIDE DEF n
  <2> QED BY <1>1, NumberType, WeightFacts
<1>3. /\ y \in Nat /\ y < Weight[wcount(b)] /\ Prefix(row + 1) <= y /\ wcount(b) \in 0..MaxPower
      /\ Prefix(row + 1) \in Nat
  <2>1. row + 1 \in 0 .. wcount(b)
    BY LayoutFacts
  <2> QED BY <2>1, PrefixFacts, OperandNumbers
<1>4. CASE wcount(b) > n
  BY <1>1, <1>4 DEF Predicted, SumOverruns
<1>5. CASE ~(wcount(b) > n)
  <2>1. Weight[wcount(b)] <= Weight[n]
    <3> HIDE DEF n
    <3>1. wcount(b) <= n
      BY <1>1, <1>3, <1>5
    <3> QED BY <1>1, <1>3, <3>1, WeightMonotone
  <2>2. y < Weight[n]
    <3>1. Weight[wcount(b)] \in Nat
      BY <1>3, WeightFacts
    <3> QED BY <1>2, <1>3, <2>1, <3>1
  <2>3. x % Weight[n] = x /\ y % Weight[n] = y
    <3> HIDE DEF n, x, y
    <3> QED BY <1>1, <1>2, <1>3, <2>2, LowWords
  <2>4. x + y >= Weight[n]
    BY <1>2, <1>3
  <2>5. n \in CarriesInto(x, y, n)
    BY <1>1, <2>3, <2>4 DEF CarriesInto
  <2> QED BY <1>1, <2>5 DEF Predicted, SumOverruns
<1> QED BY <1>4, <1>5

\* No chain runs out of its array otherwise.
LEMMA ChainOverruns ==
    ASSUME Layout, Exact, Propagate, OutOfBounds
    PROVE  Predicted
<1> USE LayoutFacts
<1> DEFINE n == wcount(arrays[Target])
<1>1. loop_pc = "chain" /\ Target \in Names /\ Pending = Sign * Weight[n] /\ at + 1 = n
  <2>1. loop_pc' = "oob"
    BY DEF OutOfBounds
  <2> QED BY <2>1, ChainGoesOn
<1>2. Phase \in {"added", "trim", "scaled", "accumulated", "digit"} /\ row < wcount(b)
  BY <1>1 DEF Layout, Phases, Indices
<1>3. Number(arrays[Target]) \in Nat /\ Number(arrays[Target]) < Weight[n] /\ Weight[n] \in Nat
  <2>1. IsArray(arrays[Target], n) /\ n \in 0..MaxPower
    BY <1>1, SizesFacts DEF Layout, IsArray
  <2> HIDE DEF n
  <2> QED BY <2>1, NumberType, WeightFacts
<1>4. Value = Number(arrays[Target]) + Pending
  BY DEF Value
<1>5. CASE op = "sub"
  <2>1. Phase = "trim"
    BY <1>2, <1>5 DEF Layout, Phases
  <2>2. Value < 0
    BY <1>1, <1>3, <1>4, <1>5 DEF Sign
  <2>3. Value = Number(a) - Prefix(row + 1)
    BY <1>5, <2>1 DEF Exact, Consumed
  <2>4. Prefix(row + 1) <= Number(b) /\ Number(b) \in Nat /\ Prefix(row + 1) \in Nat
        /\ Number(a) \in Nat
    <3>1. row + 1 \in 0 .. wcount(b)
      BY <1>2
    <3> QED BY <1>5, <3>1, PrefixFacts, OperandNumbers
  <2>5. Number(a) >= Number(b)
    BY <1>5 DEF Layout, Sizes
  <2> QED BY <2>2, <2>3, <2>4, <2>5
<1>6. CASE op # "sub"
  <2>1. Value >= Weight[n]
    BY <1>1, <1>3, <1>4, <1>6 DEF Sign
  <2>2. CASE Phase = "added"
    <3>1. op = "add" /\ Target = "dst" /\ n = wcount(a)
      BY <2>2 DEF Layout, Phases, Target, Sizes
    <3>2. Value = Number(a) + Prefix(row + 1)
      BY <2>2, <3>1 DEF Exact, Consumed
    <3> QED BY <1>2, <2>1, <3>1, <3>2, CarryOutIsPredicted
  <2>3. CASE Phase = "trim"
    BY <1>6, <2>3 DEF Layout, Phases
  <2>4. CASE Phase = "scaled"
    <3>1. Target = Scaled /\ op \in {"mul", "init"} /\ Value = HalfScaled(col)
      BY <2>4 DEF Target, Layout, Phases, Exact
    <3>2. 0 <= col /\ col < at
      BY <2>4 DEF Layout, Indices
    <3>3. col \in 0 .. wcount(arrays[Scaled])
      BY <1>1, <3>1, <3>2
    <3>4. HalfScaled(col) \in Int /\ HalfScaled(col) < Weight[wcount(arrays[Scaled])]
      BY <1>2, <2>4, <3>1, <3>3, HalfScaledFits
    <3> QED BY <1>3, <2>1, <3>1, <3>4
  <2>5. CASE Phase = "accumulated"
    <3>1. Target = "dst"
      BY <2>5 DEF Target
    <3> QED BY <1>3, <2>1, <2>5, <3>1, AccumulatedFits
  <2>6. CASE Phase = "digit"
    <3> DEFINE r == a[0]
               q == wcount(b)
    <3>1. Target = "dst" /\ op = "init" /\ Value = NumeralPrefix(row + 1)
      BY <2>6 DEF Target, Layout, Phases, Exact, Consumed
    <3>2. r \in Radixes /\ q \in 1..MaxDigits /\ n = get_blen_from_slen(q, r) /\ q \in 0..MaxPower
      BY <3>1, OperandNumbers DEF Layout, Sizes
    <3>3. row + 1 \in 0..q /\ row + 1 \in 0..MaxPower /\ row + 1 <= q
      <4>1. row \in Nat /\ row < q /\ MaxPower \in Nat
        BY <1>2, WeightFacts
      <4> HIDE DEF q
      <4> QED BY ONLY <3>2, <4>1
    <3>4. Value \in Nat /\ Value < Power[r][row + 1]
      BY <3>1, <3>3, OperandNumbers
    <3>5. Power[r][row + 1] <= Power[r][q] /\ Power[r][q] \in Nat /\ Power[r][row + 1] \in Nat
      <4> HIDE DEF r, q
      <4> QED BY <3>2, <3>3, PowerMonotone, PowerFacts
    <3>6. Value < Weight[n]
      <4> HIDE DEF r, q, n
      <4>1. Value \in 0 .. (Power[r][q] - 1) /\ q \in 0..MaxDigits /\ q > 0
        BY <3>2, <3>4, <3>5, SizeAssumption
      <4>2. Power[r][q] <= Weight[MaxWords]
        BY <3>2, LoopAssumption
      <4> QED BY <3>2, <4>1, <4>2, NumeralFits
    <3> QED BY <1>3, <2>1, <3>4, <3>6
  <2> QED BY <1>2, <2>2, <2>3, <2>4, <2>5, <2>6
<1> QED BY <1>5, <1>6

LEMMA PredictedStays ==
    ASSUME UNCHANGED <<op, a, b>>
    PROVE  Predicted' <=> Predicted
BY DEF Predicted, Number, wcount, SumOverruns, CarriesInto, required_capacity

\* No step leaves an array otherwise.
LEMMA OverrunsPredicted ==
    ASSUME Layout, Exact, Bounds, LoopNext, Phase' = "oob"
    PROVE  Predicted
<1> USE LayoutFacts
<1>1. CASE StartRow
  <2>1. /\ loop_pc = "row" /\ row < wcount(b) /\ Phase = "row" /\ op' = op
    BY <1>1 DEF StartRow, Phase
  <2>2. b[row] \in Word /\ row \in Nat
    BY <2>1, ConsumedStep
  <2>3. ASSUME NEW s, s = Sign, NEW after, after \in {"added", "trim"},
               StartChain("dst", row, s, b[row], after)
        PROVE  row >= wcount(arrays.dst)
    <3>1. Sizes /\ "dst" \in Names
      BY DEF Layout, Names
    <3>2. \/ OutOfBounds /\ row >= wcount(arrays["dst"])
          \/ Phase' = after
      BY ONLY <2>1, <2>2, <2>3, <3>1, ChainStarts
    <3> QED BY <2>3, <3>2
  <2>4. CASE op = "add" /\ StartChain("dst", row, 1, b[row], "added")
    <3>1. row >= wcount(arrays.dst)
      BY <2>3, <2>4 DEF Sign
    <3>2. wcount(arrays.dst) = wcount(a) /\ required_capacity(wcount(a) - 1) = wcount(a)
      BY <2>4 DEF Layout, Sizes, required_capacity
    <3> QED BY <2>1, <2>4, <3>1, <3>2 DEF Predicted, SumOverruns
  <2>5. CASE op = "sub" /\ StartChain("dst", row, -1, b[row], "trim")
    <3>1. row >= wcount(arrays.dst)
      BY <2>3, <2>5 DEF Sign
    <3>2. wcount(arrays.dst) = wcount(a)
      BY <2>5 DEF Layout, Sizes
    <3> QED BY <2>1, <2>5, <3>1, <3>2 DEF Predicted
  <2>6. CASE loop_pc' = "scale"
    BY <2>6 DEF Phase
  <2> QED BY <1>1, <2>4, <2>5, <2>6 DEF StartRow
<1>2. CASE Propagate
  <2>1. Phase # "oob"
    BY <1>2 DEF Propagate, Layout, Phases
  <2>2. OutOfBounds
    BY <1>2, <2>1, ChainGoesOn
  <2> QED BY <1>2, <2>2, ChainOverruns
<1>3. CASE EndChain
  BY <1>3, ChainEnds DEF Bounds
<1>4. CASE CountAdded \/ Trim \/ CountScaled \/ CountAccumulated \/ CountDigit \/ EndRows
  BY <1>4 DEF CountAdded, Trim, CountScaled, CountAccumulated, CountDigit, EndRows, Phase
<1>5. CASE Scale
  <2> DEFINE x == arrays[Scaled]
             n == wcount(arrays[Scaled])
             product == x[col] * Multiplier
             scaled == Number(x) + (Multiplier - 1) * (x[col] * Weight[col])
             y == [x EXCEPT ![col] = product % Base]
  <2>1. /\ loop_pc = "scale" /\ col \in 0 .. (n - 1) /\ product % Base \in Word
        /\ product \div Base \in Word /\ product \div Base # 0
        /\ Number(y) + (product \div Base) * Weight[n] = scaled
    <3>1. loop_pc' # "scale" /\ Phase' # "scaled"
      BY DEF Phase
    <3> QED BY <1>5, <3>1, ScaleSplits
  <2>2. Phase = "scale" /\ op \in {"mul", "init"} /\ row < wcount(b)
    BY <2>1 DEF Layout, Phases, Indices, Phase
  <2>3. scaled = HalfScaled(col)
    BY <2>1, <2>2, HalfScaledStep
  <2>4. HalfScaled(col) \in Int /\ HalfScaled(col) < Weight[n]
    <3>1. col \in 0..n
      BY <2>1
    <3> QED BY <2>2, <3>1, HalfScaledFits
  <2>5. IsArray(x, n) /\ n \in 0..MaxPower
    BY SizesFacts DEF Layout, IsArray
  <2>6. Number(y) \in Nat /\ Weight[n] \in Nat
    <3> HIDE DEF n, x, product
    <3> QED BY <2>1, <2>5, LowUpdate, NumberType, WeightFacts
  <2> DEFINE q == product \div Base
  <2>7. q \in Nat /\ q >= 1 /\ Number(y) + q * Weight[n] = HalfScaled(col)
    BY <2>1, <2>3, SizeAssumption DEF Word
  <2> HIDE DEF n, x, product, y, q
  <2>8. q * Weight[n] >= Weight[n] /\ q * Weight[n] \in Nat
    BY <2>6, <2>7
  <2> QED BY ONLY <2>4, <2>6, <2>7, <2>8
<1>6. CASE EndScale
  <2>1. loop_pc = "scale" /\ row < wcount(b)
    BY <1>6 DEF EndScale, Layout, Indices, Phase
  <2>2. op = "init" /\ StartChain("dst", 0, 1, b[row], "digit")
    BY <1>6 DEF EndScale, Phase
  <2>3. 0 >= wcount(arrays.dst) \/ Phase' = "digit"
    <3>1. Sizes /\ "dst" \in Names /\ Sign = 1 /\ b[row] \in Word /\ 0 \in Nat /\ op' = op
      BY <1>6, <2>1, <2>2, ConsumedStep DEF Layout, Names, Sign, EndScale
    <3>2. StartChain("dst", 0, 1, b[row], "digit")
      BY <2>2
    <3> QED BY ONLY <3>1, <3>2, ChainStarts
  <2>4. wcount(arrays.dst) \in 1..MaxWords
    BY DEF Layout, Sizes
  <2> QED BY <2>3, <2>4
<1>7. CASE Accumulate
  <2>1. /\ loop_pc = "accumulate" /\ Phase = "accumulate" /\ op' = op
        /\ row < wcount(b) /\ op = "mul"
        /\ 0 <= col /\ col <= msw_tmp /\ msw_tmp < wcount(arrays.tmp)
        /\ StartChain("dst", col + row, 1, arrays.tmp[col], "accumulated")
    BY <1>7 DEF Accumulate, Layout, Phases, Indices, Phase
  <2>2. /\ wcount(a) \in Nat /\ wcount(arrays.dst) = wcount(a) + wcount(b)
        /\ wcount(arrays.tmp) = wcount(a) + 1
    BY <2>1, LoopAssumption DEF Layout, Sizes
  <2>3. col + row < wcount(arrays.dst) /\ col + row \in Nat
    BY <2>1, <2>2
  <2>4. arrays.tmp[col] \in Word
    <3>1. IsArray(arrays.tmp, wcount(arrays.tmp)) /\ col \in 0 .. (wcount(arrays.tmp) - 1)
      BY <2>1 DEF Layout, Sizes
    <3> QED BY <3>1, ArrayFacts
  <2>5. col + row >= wcount(arrays.dst) \/ Phase' = "accumulated"
    <3>1. Sizes /\ "dst" \in Names /\ Sign = 1
      BY <2>1 DEF Layout, Names, Sign
    <3> DEFINE j == col + row
               v == arrays.tmp[col]
    <3>2. StartChain("dst", j, 1, v, "accumulated") /\ j \in Nat /\ v \in Word
      BY <2>1, <2>3, <2>4
    <3> HIDE DEF j, v
    <3>3. j >= wcount(arrays.dst) \/ Phase' = "accumulated"
      BY ONLY <2>1, <3>1, <3>2, ChainStarts
    <3> QED BY <3>3 DEF j
  <2> QED BY <2>3, <2>5
<1> QED BY <1>1, <1>2, <1>3, <1>4, <1>5, <1>6, <1>7 DEF LoopNext

LEMMA RowsStep ==
    ASSUME Layout, Rows, LoopNext
    PROVE  Rows'
<1> USE LayoutFacts
<1>1. CASE StartRow
  <2>1. /\ loop_pc = "row" /\ row < wcount(b) /\ Phase = "row" /\ UNCHANGED <<op, a, b>>
    BY <1>1 DEF StartRow, Phase
  <2>2. b[row] \in Word /\ row \in Nat
    BY <2>1, ConsumedStep
  <2>3. ASSUME NEW s, s = Sign, NEW after, after \in {"added", "trim"},
               StartChain("dst", row, s, b[row], after)
        PROVE  Rows'
    <3>1. Sizes /\ "dst" \in Names /\ op' = op
      BY <2>1 DEF Layout, Names
    <3>2. \/ OutOfBounds
          \/ /\ Phase' = after /\ row' = row /\ row \in 0 .. (wcount(arrays["dst"]) - 1)
             /\ \E w \in Word : OneWritten(arrays, arrays', "dst", row, w)
      BY ONLY <2>2, <2>3, <3>1, ChainStarts
    <3>3. CASE OutOfBounds
      <4>1. Phase' = "oob"
        BY <3>3 DEF OutOfBounds, Phase
      <4> QED BY <4>1 DEF Rows
    <3>4. CASE ~OutOfBounds
      <4>1. wcount(arrays.dst)' = wcount(arrays.dst)
        BY <3>1, <3>2, <3>4 DEF OneWritten, SameShape
      <4> QED BY <2>3, <3>2, <3>4, <4>1 DEF Rows
    <3> QED BY <3>3, <3>4
  <2>4. CASE op = "add" /\ StartChain("dst", row, 1, b[row], "added")
    BY <2>3, <2>4 DEF Sign
  <2>5. CASE op = "sub" /\ StartChain("dst", row, -1, b[row], "trim")
    BY <2>3, <2>5 DEF Sign
  <2>6. CASE loop_pc' = "scale"
    BY <2>6 DEF Phase, Rows
  <2> QED BY <1>1, <2>4, <2>5, <2>6 DEF StartRow
<1>2. CASE Propagate
  <2>1. CASE OutOfBounds
    <3>1. Phase' = "oob"
      BY <2>1 DEF OutOfBounds, Phase
    <3> QED BY <3>1 DEF Rows
  <2>2. CASE ~OutOfBounds
    <3>1. /\ UNCHANGED <<op, a, b>> /\ Phase' = Phase /\ row' = row /\ Target \in Names
          /\ \E w \in Word : OneWritten(arrays, arrays', Target, at + 1, w)
      BY <1>2, <2>2, ChainGoesOn
    <3>2. wcount(arrays.dst)' = wcount(arrays.dst)
      BY <3>1 DEF OneWritten, SameShape, Names
    <3>3. wcount(b)' = wcount(b)
      BY <3>1 DEF wcount
    <3> QED BY <3>1, <3>2, <3>3 DEF Rows
  <2> QED BY <2>1, <2>2
<1>3. CASE EndChain
  <2>1. Phase' = Phase /\ UNCHANGED <<op, a, b, arrays, row>>
    BY <1>3, ChainEnds
  <2> QED BY <2>1 DEF Rows, wcount
<1>4. CASE CountAdded \/ Trim \/ CountScaled \/ CountAccumulated \/ CountDigit \/ EndRows
  <2>1. /\ wcount(b)' = wcount(b) /\ wcount(arrays.dst)' = wcount(arrays.dst) /\ op' = op
        /\ Phase = loop_pc /\ Phase' = loop_pc'
    BY <1>4 DEF CountAdded, Trim, CountScaled, CountAccumulated, CountDigit, EndRows, Phase, wcount
  <2>2. CASE CountAdded \/ Trim
    <3>1. \/ Phase' = "row" /\ row' = row + 1
          \/ Phase' = "trim" /\ row' = row
      BY <2>1, <2>2 DEF CountAdded, Trim
    <3>2. Phase \in {"added", "trim"} /\ op \in {"add", "sub"}
      BY <2>1, <2>2 DEF CountAdded, Trim, Layout, Phases
    <3>3. row < wcount(arrays.dst)
      BY <3>2 DEF Rows
    <3>4. row + 1 <= wcount(arrays.dst)
      BY <3>3
    <3> QED BY <2>1, <3>1, <3>2, <3>3, <3>4 DEF Rows
  <2>3. CASE CountScaled \/ CountAccumulated \/ CountDigit
    <3>1. op \in {"mul", "init"} /\ Phase' # "done"
      BY <2>1, <2>3 DEF CountScaled, CountAccumulated, CountDigit, Layout, Phases
    <3> QED BY <2>1, <3>1 DEF Rows
  <2>4. CASE EndRows
    <3>1. Phase = "row" /\ Phase' = "done" /\ row' = row /\ row = wcount(b)
      BY <2>1, <2>4 DEF EndRows
    <3> QED BY <2>1, <3>1 DEF Rows
  <2> QED BY <1>4, <2>2, <2>3, <2>4
<1>5. CASE Scale \/ EndScale \/ Accumulate
  <2>1. op \in {"mul", "init"} /\ op' = op
    BY <1>5 DEF Scale, EndScale, Accumulate, Phase, Layout, Phases
  <2>2. Phase' # "done"
    BY <1>5 DEF Scale, EndScale, Accumulate, StartChain, OutOfBounds, Phase
  <2> QED BY <2>1, <2>2 DEF Rows
<1> QED BY <1>1, <1>2, <1>3, <1>4, <1>5 DEF LoopNext

LEMMA BoundsStep ==
    ASSUME Layout, Exact, Bounds, LoopNext
    PROVE  Bounds'
<1>1. UNCHANGED <<op, a, b>>
  BY DEF LoopNext, StartRow, EndRows, Propagate, EndChain, CountAdded, Trim, Scale, CountScaled,
         EndScale, Accumulate, CountAccumulated, CountDigit
<1>2. Predicted' <=> Predicted
  BY <1>1, PredictedStays
<1> QED BY <1>2, RowsStep, OverrunsPredicted DEF Bounds

LEMMA BoundsInit ==
    ASSUME LoopInit
    PROVE  Bounds
<1>1. Layout /\ Phase = "row" /\ row = 0
  BY LayoutInit DEF LoopInit, Phase
<1> QED BY <1>1, LayoutFacts DEF Bounds, Rows

LEMMA BoundsSame ==
    ASSUME Bounds, UNCHANGED loop_vars
    PROVE  Bounds'
<1>1. UNCHANGED <<op, a, b, arrays, row, chain, loop_pc>>
  BY DEF loop_vars
<1>2. Phase' = Phase /\ (Predicted' <=> Predicted)
  BY <1>1, PredictedStays DEF Phase
<1> QED BY <1>1, <1>2 DEF Bounds, Rows, wcount

LEMMA BoundsHold == WordsSpec => []Bounds
<1>1. WordsInit => Bounds
  BY BoundsInit DEF WordsInit
<1>2. LoopIInv /\ Bounds /\ [WordsNext]_words_vars => Bounds'
  BY BoundsStep, BoundsSame, PrintingFacts DEF LoopIInv
<1> QED BY <1>1, <1>2, LoopInvariance, PTL DEF WordsSpec

\* What a finished sum is.
LEMMA FinishedSum ==
    ASSUME Layout, Exact, Bounds, loop_pc = "done", op = "add"
    PROVE  /\ Number(arrays.dst) = Number(a) + Number(b) /\ wcount(b) <= wcount(a)
           /\ Number(a) \in Nat /\ Number(b) \in Nat
           /\ Number(a) + Number(b) < Weight[wcount(a)]
<1> USE LayoutFacts
<1>1. Phase = "done" /\ row = wcount(b) /\ row <= wcount(arrays.dst)
  BY DEF Phase, Bounds, Rows
<1>2. wcount(arrays.dst) = wcount(a) /\ IsArray(arrays.dst, wcount(arrays.dst))
  BY DEF Layout, Sizes
<1>3. row \in 0 .. wcount(b)
  OBVIOUS
<1>4. Number(arrays.dst) = Number(a) + Number(b) /\ Number(a) \in Nat /\ Number(b) \in Nat
  BY <1>1, <1>3, PrefixFacts, OperandNumbers DEF Exact, Consumed
<1>5. Number(arrays.dst) < Weight[wcount(arrays.dst)]
  BY <1>2, NumberType
<1> QED BY <1>1, <1>2, <1>4, <1>5

\* bn_mul and bn_init never leave their buffers, sub_unsigned does exactly when min
\* has more words than max, and add_unsigned exactly when BnNumbers says so
\* (bignum.c:126-219, 267-283, 334-349, 431-451, 764-787), for every word size and
\* length.
THEOREM LoopsStayInside == WordsSpec => []OverrunsArePredicted
<1>1. LoopIInv /\ Bounds => OverrunsArePredicted
  <2> SUFFICES ASSUME LoopIInv, Bounds, Finished PROVE OverrunsArePredicted
    BY DEF OverrunsArePredicted
  <2> USE LayoutFacts
  <2>0. Layout /\ Exact /\ op \in {"add", "sub", "mul", "init"}
    BY DEF LoopIInv
  <2>1. CASE loop_pc = "oob"
    <3>1. Predicted
      BY <2>1 DEF Bounds, Phase
    <3> QED BY <2>0, <2>1, <3>1 DEF OverrunsArePredicted, Predicted
  <2>2. CASE loop_pc = "done"
    <3>1. CASE op = "add"
      <4> DEFINE n == wcount(a)
                 x == Number(a)
                 y == Number(b)
      <4>1. wcount(b) <= n /\ x \in Nat /\ y \in Nat /\ x + y < Weight[n]
        BY <2>0, <2>2, <3>1, FinishedSum
      <4>2. n \in Nat /\ n \in 0..MaxPower /\ required_capacity(n - 1) = n
        <5>1. n = wcount(arrays.dst) /\ IsArray(arrays.dst, n)
          BY <2>0, <3>1 DEF Layout, Sizes
        <5> HIDE DEF n
        <5> QED BY <5>1, ArrayFacts DEF IsArray, required_capacity
      <4>3. Weight[n] \in Nat /\ wcount(b) \in Nat
        <5> HIDE DEF n
        <5> QED BY <2>0, <4>2, WeightFacts
      <4>4. x % Weight[n] = x /\ y % Weight[n] = y
        <5> HIDE DEF n, x, y
        <5>1. x < Weight[n] /\ y < Weight[n]
          BY <4>1, <4>3
        <5> QED BY <4>1, <4>2, <5>1, LowWords
      <4>5. ~SumOverruns(x, n - 1, y, wcount(b))
        <5> HIDE DEF n, x, y
        <5>1. ~(wcount(b) > n)
          BY <4>1, <4>2, <4>3
        <5>2. n \notin CarriesInto(x, y, n)
          BY <4>1, <4>3, <4>4 DEF CarriesInto
        <5> QED BY <4>2, <5>1, <5>2 DEF SumOverruns
      <4> QED BY <2>2, <3>1, <4>5 DEF OverrunsArePredicted
    <3>2. CASE op = "sub"
      <4>1. Phase = "done" /\ row = wcount(b) /\ row <= wcount(arrays.dst)
        BY <2>2, <3>2 DEF Phase, Bounds, Rows
      <4>2. wcount(arrays.dst) = wcount(a)
        BY <2>0, <3>2 DEF Layout, Sizes
      <4>3. ~(wcount(b) > wcount(a))
        BY <2>0, <4>1, <4>2
      <4> QED BY <2>2, <3>2, <4>3 DEF OverrunsArePredicted
    <3>3. CASE op \in {"mul", "init"}
      BY <2>2, <3>3 DEF OverrunsArePredicted
    <3> QED BY <2>0, <3>1, <3>2, <3>3
  <2> QED BY <2>1, <2>2 DEF Finished
<1> QED BY <1>1, LoopInvariance, BoundsHold, PTL

----------------------------------------------------------------------------
(* The lengths.                                                            *)

\* A word is worth no more than the number it is part of.
LEMMA TermBelow ==
    ASSUME NEW n, NEW x, IsArray(x, n), NEW k \in 0 .. (n - 1)
    PROVE  x[k] * Weight[k] \in Nat /\ x[k] * Weight[k] <= Number(x) /\ Number(x) \in Nat
<1>1. n \in Nat /\ k + 1 \in 0..n /\ k \in 0..n /\ k \in 0..MaxPower /\ x[k] \in Nat /\ n \in 0..n
      /\ k + 1 <= n
  BY ArrayFacts
<1>2. Low(x, k + 1) = Low(x, k) + x[k] * Weight[k] /\ Low(x, k) \in Nat
      /\ Low(x, k + 1) <= Low(x, n) /\ Low(x, n) \in Nat /\ Low(x, k + 1) \in Nat
  BY <1>1, LowStep, LowFacts, LowMonotone
<1>3. Weight[k] \in Nat
  BY <1>1, WeightFacts
<1>4. x[k] * Weight[k] \in Nat
  BY <1>1, <1>3
<1> QED BY ONLY <1>2, <1>4, NumberIsLow, IsArray(x, n)

\* The words from word k on are worth a multiple of its weight.
LEMMA HighIsMultiple ==
    ASSUME NEW n, NEW x, IsArray(x, n), NEW k \in 0..n
    PROVE  \E q \in Nat : Number(x) = Low(x, k) + q * Weight[k]
<1> DEFINE S == {j \in 0 .. (n - k) : \E q \in Nat : Low(x, k + j) = Low(x, k) + q * Weight[k]}
<1>1. n \in Nat /\ k \in Nat /\ n - k \in Nat /\ n \in 0..MaxPower /\ MaxPower \in Nat
      /\ k \in 0..MaxPower
  BY ArrayFacts, WeightFacts DEF IsArray
<1>2. Low(x, k) \in Nat /\ Weight[k] \in Nat
  BY <1>1, LowFacts, WeightFacts
<1>3. 0 \in S
  <2>1. Low(x, k + 0) = Low(x, k) + 0 * Weight[k]
    BY <1>1, <1>2
  <2> QED BY <1>1, <2>1
<1>4. ASSUME NEW j \in 0 .. ((n - k) - 1), j \in S PROVE j + 1 \in S
  <2>1. PICK q \in Nat : Low(x, k + j) = Low(x, k) + q * Weight[k]
    BY <1>4
  <2> DEFINE m == k + j
  <2>2. m \in 0 .. (n - 1) /\ m + 1 = k + (j + 1) /\ j \in 0..MaxPower /\ j + k <= MaxPower
        /\ j \in Nat /\ j + 1 \in 0 .. (n - k)
    BY <1>1
  <2>3. Low(x, m + 1) = Low(x, m) + x[m] * Weight[m] /\ x[m] \in Nat
    <3> HIDE DEF m
    <3> QED BY <2>2, LowStep, ArrayFacts
  <2>4. Weight[m] = Weight[k] * Weight[j] /\ Weight[j] \in Nat
    BY <1>1, <2>2, WeightSum, WeightFacts
  <2>5. ASSUME NEW u \in Nat, NEW v \in Nat, NEW w \in Nat, NEW l \in Nat, NEW d \in Nat
        PROVE  (l + u * w) + d * (w * v) = l + (u + d * v) * w /\ u + d * v \in Nat
    <3>1. d * (w * v) = (d * v) * w /\ d * v \in Nat
      BY <2>5
    <3>2. (u + d * v) * w = u * w + (d * v) * w
      BY <2>5, <3>1
    <3>3. u * w \in Nat /\ (d * v) * w \in Nat
      BY <2>5, <3>1
    <3> QED BY ONLY <3>1, <3>2, <3>3, <2>5, u \in Nat, l \in Nat
  <2> DEFINE p == q + x[m] * Weight[j]
  <2>6. Low(x, m + 1) = Low(x, k) + p * Weight[k] /\ p \in Nat
    <3> HIDE DEF m
    <3>1. Low(x, m) = Low(x, k) + q * Weight[k]
      BY <2>1 DEF m
    <3> QED BY <1>2, <2>3, <2>4, <2>5, <3>1
  <2> HIDE DEF p, m
  <2>7. Low(x, k + (j + 1)) = Low(x, k) + p * Weight[k]
    BY <2>2, <2>6
  <2> QED BY <2>2, <2>6, <2>7
<1> HIDE DEF S
<1>5. \A j \in 0 .. (n - k) : j \in S
  <2> DEFINE d == n - k
  <2>1. d \in Nat /\ \A j \in 0 .. (d - 1) : j \in S => j + 1 \in S
    BY <1>1, <1>4
  <2> HIDE DEF d
  <2>2. \A j \in 0..d : j \in S
    BY ONLY <1>3, <2>1, UpTo
  <2> QED BY <2>2 DEF d
<1>6. n - k \in S /\ k + (n - k) = n
  BY <1>1, <1>5
<1>7. \E q \in Nat : Low(x, n) = Low(x, k) + q * Weight[k]
  BY <1>6 DEF S
<1> QED BY <1>7, NumberIsLow

\* The low words are the remainder.
LEMMA LowIsRemainder ==
    ASSUME NEW n, NEW x, IsArray(x, n), NEW k \in 0..n
    PROVE  Number(x) % Weight[k] = Low(x, k)
<1>1. k \in 0..MaxPower
  BY ArrayFacts, WeightFacts DEF IsArray
<1> DEFINE w == Weight[k]
           l == Low(x, k)
           d == Number(x) \div w
           r == Number(x) % w
<1>2. w \in Nat \ {0} /\ l \in Nat /\ l < w /\ Number(x) \in Nat
  BY <1>1, WeightFacts, LowFacts, NumberType
<1>3. PICK q \in Nat : Number(x) = l + q * w
  BY HighIsMultiple
<1>4. d \in Int /\ r \in 0 .. (w - 1) /\ Number(x) = w * d + r
  <2> HIDE DEF w
  <2> QED BY <1>2
<1> HIDE DEF w, l, d, r
<1>5. q * w + l = d * w + r /\ l \in 0 .. (w - 1)
  <2>1. w * d = d * w
    BY <1>2, <1>4
  <2> QED BY <1>2, <1>3, <1>4, <2>1
<1>6. l = r
  <2>1. q \in Int /\ d \in Int /\ w \in Nat \ {0} /\ r \in 0 .. (w - 1) /\ l \in 0 .. (w - 1)
    BY <1>2, <1>4, <1>5
  <2>2. (q - d) * w = r - l
    <3>1. (q - d) * w = q * w - d * w /\ q * w \in Int /\ d * w \in Int
      BY ONLY <2>1
    <3> QED BY ONLY <1>5, <2>1, <3>1
  <2>3. CASE q - d >= 1
    <3>1. (q - d) * w >= w
      BY ONLY <2>1, <2>3
    <3> QED BY ONLY <2>1, <2>2, <3>1
  <2>4. CASE d - q >= 1
    <3>1. (d - q) * w >= w /\ (q - d) * w = - ((d - q) * w)
      BY ONLY <2>1, <2>4
    <3> QED BY ONLY <2>1, <2>2, <3>1
  <2>5. CASE q = d
    BY ONLY <2>1, <2>2, <2>5
  <2> QED BY <2>1, <2>3, <2>4, <2>5
<1> QED BY <1>6 DEF l, r, w

\* A larger number has no smaller high part.
LEMMA HighMonotone ==
    ASSUME NEW n, NEW x, IsArray(x, n), NEW y, IsArray(y, n), NEW k \in 0..n,
           Number(y) >= Number(x)
    PROVE  Number(y) - Low(y, k) >= Number(x) - Low(x, k)
<1>1. k \in 0..MaxPower
  BY ArrayFacts, WeightFacts DEF IsArray
<1> DEFINE w == Weight[k]
           l == Low(x, k)
           m == Low(y, k)
<1>2. w \in Nat \ {0} /\ l \in Nat /\ l < w /\ m \in Nat /\ m < w
      /\ Number(x) \in Nat /\ Number(y) \in Nat
  BY <1>1, WeightFacts, LowFacts, NumberType
<1>3. PICK p \in Nat : Number(x) = l + p * w
  BY HighIsMultiple
<1>4. PICK q \in Nat : Number(y) = m + q * w
  BY HighIsMultiple
<1> HIDE DEF w, l, m
<1>5. q >= p
  <2> SUFFICES ASSUME q < p PROVE FALSE
    OBVIOUS
  <2>1. (q + 1) * w <= p * w /\ (q + 1) * w = q * w + w
    BY <1>2
  <2>2. q * w \in Nat /\ p * w \in Nat
    BY <1>2
  <2> QED BY ONLY <1>2, <1>3, <1>4, <2>1, <2>2, Number(y) >= Number(x)
<1>6. q * w >= p * w /\ q * w \in Nat /\ p * w \in Nat
  BY <1>2, <1>5
<1>7. Number(y) - m >= Number(x) - l
  BY ONLY <1>2, <1>3, <1>4, <1>6
<1> QED BY <1>7 DEF l, m

\* The least number of words, when the highest is known.
LEMMA WordsOfTop ==
    ASSUME NEW k \in 0 .. (MaxWords - 1), NEW x \in Nat, x < Weight[k + 1],
           k = 0 \/ Weight[k] <= x
    PROVE  WordsOf(x) = k + 1
<1>1. k + 1 \in 1..MaxWords /\ k \in 0..MaxPower /\ k \in Nat
  BY SizeAssumption, WeightFacts
<1>2. WordsOf(x) \in 1 .. (k + 1) /\ x < Weight[WordsOf(x)]
  BY <1>1, WordsOfFits
<1>3. CASE WordsOf(x) <= k
  <2>1. Weight[WordsOf(x)] <= Weight[k] /\ Weight[k] \in Nat /\ Weight[WordsOf(x)] \in Nat
        /\ k # 0
    <3>1. WordsOf(x) \in 0..MaxPower
      BY <1>1, <1>2, <1>3, WeightFacts
    <3> QED BY <1>1, <1>2, <1>3, <3>1, WeightMonotone, WeightFacts
  <2> QED BY <1>2, <2>1
<1> QED BY <1>1, <1>2, <1>3

\* What the scaled array and the destination of a product are worth.
ScaledValue == Number(arrays[Scaled]) + (IF Phase = "scaled" THEN Pending ELSE 0)
DstValue == Number(arrays.dst) + (IF Phase = "accumulated" THEN Pending ELSE 0)

\* bn_init only makes its number larger, so that no word it reached becomes zero.
Reached(k) == k = 0 \/ Weight[k] <= Value

InitTop ==
    op = "init" =>
       /\ Phase \in {"row", "done"} => Reached(msw)
       /\ Phase \in {"scale", "scaled", "digit"} => Reached(msw_tmp)
       /\ Phase \in {"scaled", "digit"} => Reached(at)

\* So does scaling, but by zero.
LEMMA ScaleGrows ==
    ASSUME Layout, Scale, Phase' # "oob"
    PROVE  /\ UNCHANGED <<op, a, b, row, msw, msw_tmp>> /\ Multiplier' = Multiplier
           /\ Phase = "scale" /\ op \in {"mul", "init"} /\ Multiplier \in Nat
           /\ ScaledValue \in Nat /\ ScaledValue' \in Int
           /\ Multiplier >= 1 => ScaledValue' >= ScaledValue
           /\ \/ Phase' = "scale"
              \/ Phase' = "scaled" /\ at' = col + 1 /\ Multiplier >= 1
                 /\ Weight[col + 1] <= ScaledValue'
           /\ op = "init" => Value = ScaledValue /\ Value' = ScaledValue'
           /\ op = "mul" => arrays.dst' = arrays.dst
<1> USE LayoutFacts
<1> DEFINE x == arrays[Scaled]
           n == wcount(arrays[Scaled])
           product == x[col] * Multiplier
           d == x[col] * Weight[col]
           scaled == Number(x) + (Multiplier - 1) * d
<1>1. /\ loop_pc = "scale" /\ col \in 0 .. (n - 1) /\ UNCHANGED <<op, a, b>>
      /\ Multiplier \in 0..Base /\ product \in Nat /\ product \div Base \in Word
      /\ \/ /\ loop_pc' = "scale"
            /\ OneWritten(arrays, arrays', Scaled, col, product % Base)
            /\ UNCHANGED <<row, at, old, chain, msw, msw_tmp>>
            /\ Number(arrays[Scaled])' = scaled
         \/ /\ product \div Base # 0 /\ col + 1 \in 0 .. (n - 1)
            /\ \E y \in [Names -> UNION {Arrays(k) : k \in 0..MaxPower}], w \in Word :
                  /\ OneWritten(arrays, y, Scaled, col, product % Base)
                  /\ OneWritten(y, arrays', Scaled, col + 1, w)
            /\ Value' = scaled
            /\ at' = col + 1
            /\ Phase' = "scaled" /\ Target' = Scaled
            /\ UNCHANGED <<row, col, msw, msw_tmp>>
  <2>1. ~OutOfBounds
    BY DEF OutOfBounds, Phase
  <2> QED BY <2>1, ScaleSplits
<1>2. Phase = "scale" /\ op \in {"mul", "init"} /\ row' = row /\ Scaled' = Scaled
  BY <1>1 DEF Layout, Phases, Phase, Scaled
<1>3. Multiplier' = Multiplier /\ Multiplier \in Nat
  BY <1>1, <1>2, SizeAssumption DEF Multiplier
<1>4. IsArray(x, n) /\ Scaled \in Names
  BY SizesFacts DEF Layout
<1>5. /\ d \in Nat /\ d <= Number(x) /\ Number(x) \in Nat /\ x[col] \in Nat
      /\ col \in 0..MaxPower /\ col \in 0 .. (MaxPower - 1)
  <2> HIDE DEF n
  <2> QED BY <1>1, <1>4, TermBelow, ArrayFacts
<1>6. Weight[col] \in Nat /\ Weight[col + 1] = Base * Weight[col] /\ Weight[col + 1] \in Nat
  <2>1. col + 1 \in 0..MaxPower
    BY <1>5, WeightFacts
  <2> QED BY <1>5, <2>1, WeightFacts
<1> DEFINE m == Multiplier
<1>7. m * d = product * Weight[col] /\ m * d \in Nat
  <2>1. ASSUME NEW y \in Nat, NEW u \in Nat, NEW v \in Nat PROVE u * (y * v) = (y * u) * v
    BY <2>1
  <2>2. m * d = product * Weight[col]
    BY <1>3, <1>5, <1>6, <2>1
  <2>3. m * d \in Nat
    <3> HIDE DEF d, m
    <3> QED BY <1>3, <1>5 DEF m
  <2> QED BY <2>2, <2>3
<1>8. scaled = (Number(x) - d) + m * d /\ scaled \in Int
  <2> HIDE DEF d
  <2>1. (m - 1) * d = m * d - d
    BY <1>3, <1>5
  <2> HIDE DEF m
  <2>2. scaled = Number(x) + (m - 1) * d
    BY DEF m
  <2> HIDE DEF scaled
  <2> QED BY <1>5, <1>7, <2>1, <2>2
<1>9. m >= 1 => scaled >= Number(x)
  <2>1. m >= 1 => m * d >= d
    <3> HIDE DEF d
    <3> QED BY <1>3, <1>5
  <2> HIDE DEF scaled, d, m
  <2> QED BY <1>5, <1>7, <1>8, <2>1
<1>10. product \div Base # 0 => m >= 1 /\ scaled >= Weight[col + 1]
  <2> SUFFICES ASSUME product \div Base # 0 PROVE m >= 1 /\ scaled >= Weight[col + 1]
    OBVIOUS
  <2>1. product >= Base
    <3> HIDE DEF product
    <3> QED BY <1>1, SizeAssumption
  <2>2. m >= 1
    <3> SUFFICES ASSUME m = 0 PROVE FALSE
      BY <1>3
    <3>1. product = 0
      BY <1>5
    <3> QED BY <2>1, <3>1, SizeAssumption
  <2>3. product * Weight[col] >= Base * Weight[col]
    <3> HIDE DEF product
    <3> QED BY <1>1, <1>6, <2>1, SizeAssumption
  <2> HIDE DEF product, d, m, scaled
  <2>4. m * d >= Weight[col + 1]
    BY <1>6, <1>7, <2>3
  <2> QED BY <1>5, <1>6, <1>7, <1>8, <2>2, <2>4
<1>11. ScaledValue = Number(x)
  <2> HIDE DEF scaled, product, d, m
  <2> QED BY <1>2, <1>5 DEF ScaledValue
<1>12. op = "init" => Value = Number(x)
  <2>1. op = "init" => Target = "dst" /\ Scaled = "dst" /\ Target' = "dst" /\ Scaled' = "dst"
    BY <1>1, <1>2 DEF Target, Scaled
  <2> QED BY <1>1, <2>1, ValueAtRest
<1>15. op = "mul" => arrays'["dst"] = arrays["dst"]
  <2>1. op = "mul" => Scaled = "tmp" /\ "dst" \in Names /\ "dst" # "tmp"
    BY DEF Scaled, Names
  <2> HIDE DEF product, scaled, x, n
  <2> QED BY <1>1, <2>1 DEF OneWritten
<1>13. CASE /\ loop_pc' = "scale"
            /\ UNCHANGED <<row, at, old, chain, msw, msw_tmp>>
            /\ Number(arrays[Scaled])' = scaled
  <2> HIDE DEF scaled, product, d, m
  <2>1. Phase' = "scale" /\ Pending' = 0
    BY <1>13 DEF Phase, Pending
  <2>2. ScaledValue' = scaled
    BY <1>8, <1>13, <2>1 DEF ScaledValue
  <2>3. op = "init" => Value' = scaled
    <3>1. op = "init" => Target' = "dst" /\ Scaled' = "dst"
      BY <1>1, <2>1 DEF Target, Scaled
    <3>2. op = "init" => Number(arrays'["dst"]) = scaled
      BY <1>13, <3>1
    <3> QED BY <3>2, <1>8, <1>13, <2>1, <3>1 DEF Value
  <2>4. m >= 1 => ScaledValue' >= ScaledValue
    BY <1>9, <1>11, <2>2
  <2> QED BY <1>1, <1>2, <1>3, <1>5, <1>8, <1>11, <1>12, <1>13, <1>15, <2>1, <2>2, <2>3, <2>4 DEF m
<1>14. CASE /\ product \div Base # 0
            /\ Value' = scaled
            /\ at' = col + 1
            /\ Phase' = "scaled" /\ Target' = Scaled
            /\ UNCHANGED <<row, col, msw, msw_tmp>>
  <2> HIDE DEF scaled, product, d, m
  <2>1. ScaledValue' = scaled
    BY <1>2, <1>14 DEF ScaledValue, Value
  <2>2. m >= 1 => ScaledValue' >= ScaledValue
    BY <1>9, <1>11, <2>1
  <2>3. m >= 1 /\ Weight[col + 1] <= ScaledValue'
    BY <1>6, <1>8, <1>10, <1>14, <2>1
  <2> QED BY <1>1, <1>2, <1>3, <1>5, <1>8, <1>11, <1>12, <1>14, <1>15, <2>1, <2>2, <2>3 DEF m
<1> HIDE DEF scaled, product, d, m, x, n
<1> QED BY <1>1, <1>13, <1>14

LEMMA ReachedStays ==
    ASSUME Value \in Int, Value' \in Int, Value' >= Value, Layout, NEW k \in Nat, k <= MaxPower,
           Reached(k)
    PROVE  k = 0 \/ Weight[k] <= Value'
<1>1. Weight[k] \in Nat
  <2>1. k \in 0..MaxPower
    BY WeightFacts
  <2> QED BY <2>1, WeightFacts
<1> QED BY <1>1 DEF Reached

LEMMA ValueType ==
    ASSUME Layout
    PROVE  Value \in Int /\ (op # "sub" => Value \in Nat /\ Pending \in Nat /\ Pending <= Value)
<1>1. Number(arrays[Target]) \in Nat
  <2>1. Target \in Names /\ IsArray(arrays[Target], wcount(arrays[Target]))
    BY SizesFacts DEF Layout
  <2> QED BY <2>1, NumberType
<1>2. CASE loop_pc = "chain"
  <2>1. at < wcount(arrays[Target]) /\ at \in Nat /\ Target \in Names
    BY <1>2, LayoutFacts DEF Layout, Indices, Phases
  <2>2. at + 1 \in 0..MaxPower
    BY <2>1, LayoutFacts, WeightFacts
  <2>3. Weight[at + 1] \in Nat
    BY <2>2, WeightFacts
  <2>4. Sign \in {1, -1} /\ (op # "sub" => Sign = 1)
    BY DEF Sign
  <2>5. Pending \in Int /\ (op # "sub" => Pending \in Nat)
    BY <2>3, <2>4 DEF Pending
  <2> QED BY <1>1, <2>5 DEF Value
<1>3. CASE loop_pc # "chain"
  <2>1. Pending = 0
    BY <1>3 DEF Pending
  <2> QED BY <1>1, <2>1 DEF Value
<1> QED BY <1>2, <1>3

\* Indices are exponents.
LEMMA IndexBounds ==
    ASSUME Layout
    PROVE  /\ msw \in Nat /\ msw <= MaxPower /\ msw + 1 \in 1..MaxWords /\ msw + 1 \in 0..MaxPower
           /\ Phase \in {"scale", "scaled", "accumulate", "accumulated", "digit"} =>
                 msw_tmp \in Nat /\ msw_tmp + 1 <= MaxPower
           /\ Phase \in {"added", "trim", "scaled", "accumulated", "digit"} =>
                 at \in Nat /\ at + 1 <= MaxPower /\ at <= MaxPower /\ at + 1 \in 0..MaxPower
           /\ MaxPower \in Nat
<1> USE LayoutFacts
<1>1. MaxWords <= MaxPower /\ MaxPower \in Nat /\ MaxWords \in Nat
  BY WeightFacts
<1>2. /\ wcount(arrays.dst) <= MaxWords /\ wcount(arrays.tmp) <= MaxWords
      /\ wcount(arrays[Scaled]) <= MaxWords /\ wcount(arrays[Target]) <= MaxWords
      /\ wcount(arrays[Scaled]) \in Nat /\ wcount(arrays[Target]) \in Nat
  BY DEF Names
<1>3. msw < wcount(arrays.dst)
  OBVIOUS
<1> QED BY <1>1, <1>2, <1>3 DEF Layout, Indices

LEMMA InitTopStep ==
    ASSUME Layout, InitTop, LoopNext
    PROVE  InitTop'
<1> SUFFICES ASSUME op' = "init", Phase' # "oob" PROVE InitTop'
  BY DEF InitTop
<1> USE LayoutFacts
<1>0. op = "init" /\ op' = op
  BY DEF LoopNext, StartRow, EndRows, Propagate, EndChain, CountAdded, Trim, Scale, CountScaled,
         EndScale, Accumulate, CountAccumulated, CountDigit
<1>1. Value \in Nat /\ msw <= MaxPower
  BY <1>0, ValueType, IndexBounds
\* the value does not change, nor what is reached but for the location
<1>2. ASSUME Value' = Value, msw' = msw, msw_tmp' = msw_tmp,
             Phase' \in {"row", "done"} => Phase \in {"row", "done"},
             Phase' \in {"scale", "scaled", "digit"} => Phase \in {"scale", "scaled", "digit"},
             Phase' \in {"scaled", "digit"} => Phase \in {"scaled", "digit"} /\ at' = at
      PROVE  InitTop'
  BY <1>0, <1>2 DEF InitTop, Reached
<1>3. CASE StartRow
  <2>1. /\ loop_pc = "row" /\ Phase = "row" /\ Phase' = "scale" /\ msw_tmp' = msw
        /\ loop_pc' = "scale" /\ arrays' = arrays
    BY <1>0, <1>3 DEF StartRow, Phase
  <2>2. Value' = Value
    BY <1>0, <2>1 DEF Value, Pending, Target
  <2> QED BY <1>0, <2>1, <2>2 DEF InitTop, Reached
<1>4. CASE EndRows
  <2>1. /\ loop_pc = "row" /\ Phase = "row" /\ Phase' = "done" /\ loop_pc' = "done"
        /\ arrays' = arrays /\ msw' = msw /\ msw_tmp' = msw_tmp
    BY <1>4 DEF EndRows, Phase
  <2>2. Value' = Value
    BY <1>0, <2>1 DEF Value, Pending, Target
  <2> QED BY <1>2, <2>1, <2>2
<1>5. CASE Propagate
  <2>1. loop_pc = "chain" /\ Pending = Sign * Weight[at + 1] /\ Phase \in {"scaled", "digit"}
    BY <1>0, <1>5, ChainGoesOn DEF Layout, Phases
  <2>2. /\ Value' = Value /\ at' = at + 1 /\ UNCHANGED <<msw, msw_tmp>> /\ Phase' = Phase
    <3>1. ~OutOfBounds
      BY DEF OutOfBounds, Phase
    <3> QED BY <1>5, <3>1, ChainGoesOn
  <2>3. Weight[at'] <= Value'
    <3>1. Weight[at + 1] \in Nat
      BY <2>1, IndexBounds, WeightFacts
    <3>2. Pending = Weight[at + 1] /\ Pending <= Value
      BY <1>0, <2>1, <3>1, ValueType DEF Sign
    <3> QED BY <2>2, <3>2
  <2> QED BY <1>0, <2>1, <2>2, <2>3 DEF InitTop, Reached
<1>6. CASE EndChain
  <2>1. Phase' = Phase /\ Value' = Value /\ UNCHANGED <<at, msw, msw_tmp>>
    BY <1>6, ChainEnds
  <2> QED BY <1>2, <2>1
<1>7. CASE CountAdded \/ Trim \/ CountAccumulated \/ Accumulate
  BY <1>0, <1>7 DEF CountAdded, Trim, CountAccumulated, Accumulate, Layout, Phases, Phase
<1>8. CASE CountScaled \/ CountDigit
  <2>1. /\ loop_pc \in {"scaled", "digit"} /\ loop_pc' \in {"scale", "row"} /\ arrays' = arrays
        /\ (loop_pc' = "scale" /\ msw_tmp' = Higher(msw_tmp, at))
           \/ (loop_pc' = "row" /\ msw' = Higher(msw_tmp, at))
    BY <1>8 DEF CountScaled, CountDigit
  <2>2. Phase = loop_pc /\ Phase' = loop_pc' /\ Value' = Value
    BY <1>0, <2>1 DEF Phase, Value, Pending, Target, Scaled
  <2>3. Reached(Higher(msw_tmp, at))
    <3>1. Reached(msw_tmp) /\ Reached(at)
      BY <1>0, <2>1, <2>2 DEF InitTop
    <3> QED BY <3>1 DEF Higher
  <2> QED BY <1>0, <2>1, <2>2, <2>3 DEF InitTop, Reached
<1>9. CASE Scale
  <2>1. /\ Phase = "scale" /\ msw_tmp' = msw_tmp /\ Multiplier \in Nat
        /\ ScaledValue \in Nat /\ ScaledValue' \in Int
        /\ Multiplier >= 1 => ScaledValue' >= ScaledValue
        /\ Phase' = "scale"
           \/ (Phase' = "scaled" /\ at' = col + 1 /\ Weight[col + 1] <= ScaledValue')
        /\ Value = ScaledValue /\ Value' = ScaledValue'
    BY <1>0, <1>9, ScaleGrows
  <2>2. Multiplier >= 1
    <3>1. a[0] \in Radixes
      BY <1>0 DEF Layout, Sizes
    <3> QED BY <1>0, <3>1, PowerFacts DEF Multiplier
  <2>3. Reached(msw_tmp) /\ msw_tmp <= MaxPower
    BY <1>0, <2>1, IndexBounds DEF InitTop
  <2>4. msw_tmp = 0 \/ Weight[msw_tmp] <= Value'
    BY <2>1, <2>2, <2>3, ReachedStays
  <2> QED BY <1>0, <2>1, <2>4 DEF InitTop, Reached
<1>10. CASE EndScale
  <2>1. /\ loop_pc = "scale" /\ Phase = "scale" /\ StartChain("dst", 0, 1, b[row], "digit")
        /\ row < wcount(b)
    BY <1>0, <1>10 DEF EndScale, Phase, Layout, Indices
  <2>2. b[row] \in Nat /\ b[row] \in Word /\ Weight[0] = 1
    BY <2>1, ConsumedStep, WeightFacts
  <2>3. /\ Value' = Number(arrays["dst"]) + 1 * (b[row] * Weight[0]) /\ at' = 0
        /\ Phase' = "digit" /\ msw_tmp' = msw_tmp
    <3>1. Sizes /\ "dst" \in Names /\ Sign = 1 /\ 0 \in Nat /\ op' = op
          /\ StartChain("dst", 0, 1, b[row], "digit") /\ ~OutOfBounds
      BY <1>0, <2>1 DEF Layout, Names, Sign, OutOfBounds, Phase
    <3> QED BY ONLY <2>2, <3>1, ChainStarts
  <2>4. Value = Number(arrays["dst"])
    BY <2>1, ValueAtRest DEF Target
  <2>5. Value' \in Nat /\ Value' >= Value
    BY <1>1, <2>2, <2>3, <2>4
  <2>6. Reached(msw_tmp) /\ msw_tmp <= MaxPower
    BY <1>0, <2>1, IndexBounds DEF InitTop
  <2>7. msw_tmp = 0 \/ Weight[msw_tmp] <= Value'
    BY <1>1, <2>5, <2>6, ReachedStays
  <2> QED BY <1>0, <2>3, <2>7 DEF InitTop, Reached
<1> QED BY <1>3, <1>4, <1>5, <1>6, <1>7, <1>8, <1>9, <1>10 DEF LoopNext

\* bn_mul: the scratch row reaches no word beyond those of a but when it is worth as
\* much, and the destination every word but the highest.
TmpReached(k) == k < wcount(a) \/ (Multiplier >= 1 /\ Weight[k] <= ScaledValue)
DstReached(k) == k < wcount(arrays.dst) - 1 \/ Weight[k] <= DstValue

MulTop ==
    op = "mul" =>
       /\ Phase # "oob" => DstReached(msw) /\ msw + 2 >= wcount(a) + row
       /\ Phase \in {"scale", "scaled", "accumulate", "accumulated"} =>
             TmpReached(msw_tmp) /\ msw_tmp >= wcount(a) - 1
       /\ Phase = "scaled" => Multiplier >= 1 /\ TmpReached(at)
       /\ Phase \in {"accumulate", "accumulated"} /\ col > 0 => msw >= row + col - 1
       /\ Phase = "accumulated" => at >= row + col /\ DstReached(at)

LEMMA MulFacts ==
    ASSUME Layout, op = "mul"
    PROVE  /\ wcount(a) \in Nat /\ wcount(a) >= 1 /\ wcount(b) \in Nat
           /\ wcount(arrays.dst) = wcount(a) + wcount(b)
           /\ Phase \in {"scale", "scaled", "accumulate", "accumulated"} =>
                 wcount(arrays.tmp) = wcount(a) + 1 /\ row < wcount(b)
           /\ Scaled = "tmp" /\ Scaled' = IF op' = "mul" THEN "tmp" ELSE "dst"
BY LoopAssumption DEF Layout, Sizes, Indices, Scaled

\* The values at rest and in a chain.
LEMMA MulValues ==
    ASSUME Layout, op = "mul"
    PROVE  /\ ScaledValue \in Nat /\ DstValue \in Nat
           /\ Phase = "scaled" => ScaledValue = Value
           /\ Phase = "accumulated" => DstValue = Value
           /\ Phase # "scaled" => ScaledValue = Number(arrays.tmp)
           /\ Phase # "accumulated" => DstValue = Number(arrays.dst)
<1>1. Scaled = "tmp" /\ Number(arrays.tmp) \in Nat /\ Number(arrays.dst) \in Nat
  <2>1. IsArray(arrays.dst, wcount(arrays.dst)) /\ IsArray(arrays.tmp, wcount(arrays.tmp))
    BY DEF Layout, Sizes
  <2> QED BY <2>1, NumberType DEF Scaled
<1>2. Phase = "scaled" => Target = "tmp"
  BY <1>1 DEF Target
<1>3. Phase = "accumulated" => Target = "dst"
  BY DEF Target
<1>4. Value \in Nat
  BY ValueType
<1> QED BY <1>1, <1>2, <1>3, <1>4 DEF ScaledValue, DstValue, Value

\* The highest word of the scratch row is used only when it is not zero.
LEMMA HighestTmp ==
    ASSUME Layout, MulTop, op = "mul", Phase = "accumulate", msw_tmp = wcount(a)
    PROVE  arrays.tmp[wcount(a)] >= 1 /\ arrays.tmp[wcount(a)] \in Nat
<1> DEFINE n == wcount(a)
<1>1. n \in Nat /\ wcount(arrays.tmp) = n + 1 /\ Scaled = "tmp"
  BY MulFacts
<1>2. IsArray(arrays.tmp, n + 1)
  <2>1. IsArray(arrays.tmp, wcount(arrays.tmp))
    BY DEF Layout, Sizes
  <2> QED BY <1>1, <2>1
<1>3. Weight[n] <= Number(arrays.tmp)
  <2>1. TmpReached(n)
    BY DEF MulTop
  <2> QED BY <1>1, <2>1, MulValues DEF TmpReached
<1>4. arrays.tmp[n] \in Nat
  <2> HIDE DEF n
  <2> QED BY <1>1, <1>2, ArrayFacts
<1>5. CASE arrays.tmp[n] = 0
  <2>1. Number(arrays.tmp) = Low(arrays.tmp, n + 1) /\ Low(arrays.tmp, n + 1) = Low(arrays.tmp, n)
        /\ Low(arrays.tmp, n) \in Nat /\ Low(arrays.tmp, n) < Weight[n] /\ Weight[n] \in Nat
    <3> HIDE DEF n
    <3>1. n \in 0 .. ((n + 1) - 1) /\ n \in 0 .. (n + 1)
      BY <1>1
    <3>2. Low(arrays.tmp, n + 1) = Low(arrays.tmp, n) + arrays.tmp[n] * Weight[n]
          /\ Low(arrays.tmp, n) \in Nat /\ Low(arrays.tmp, n) < Weight[n] /\ n \in 0..MaxPower
      BY <1>2, <3>1, LowStep, LowFacts, ArrayFacts
    <3>3. Weight[n] \in Nat
      BY <3>2, WeightFacts
    <3>4. 0 * Weight[n] = 0
      BY <3>3
    <3> QED BY <1>2, <1>5, <3>2, <3>3, <3>4, NumberIsLow
  <2> QED BY <1>3, <2>1
<1> QED BY <1>4, <1>5

\* Bounds that grow.
LEMMA ReachedMore ==
    ASSUME NEW k \in Nat, k <= MaxPower, NEW x \in Int, NEW y \in Int, x <= y, Weight[k] <= x
    PROVE  Weight[k] <= y
<1>1. Weight[k] \in Nat
  <2>1. k \in 0..MaxPower
    BY WeightFacts
  <2> QED BY <2>1, WeightFacts
<1> QED BY <1>1

LEMMA MulTopAccumulate ==
    ASSUME Layout, MulTop, Accumulate, Phase' # "oob", op = "mul", op' = op
    PROVE  MulTop'
<1> USE LayoutFacts
<1>1. /\ loop_pc = "accumulate" /\ UNCHANGED <<op, a, b>> /\ Phase = "accumulate"
      /\ 0 <= col /\ col <= msw_tmp + 1 /\ msw_tmp < wcount(arrays.tmp)
  BY DEF Accumulate, Layout, Indices, Phase
<1>2. /\ wcount(a) \in Nat /\ wcount(a) >= 1 /\ wcount(b) \in Nat
      /\ wcount(arrays.dst) = wcount(a) + wcount(b)
      /\ wcount(arrays.tmp) = wcount(a) + 1 /\ row < wcount(b)
      /\ Scaled = "tmp" /\ Scaled' = "tmp" /\ wcount(a)' = wcount(a)
  <2>1. wcount(a)' = wcount(a)
    BY <1>1 DEF wcount
  <2> QED BY <1>1, <2>1, MulFacts
<1>3. /\ DstReached(msw) /\ msw + 2 >= wcount(a) + row
      /\ TmpReached(msw_tmp) /\ msw_tmp >= wcount(a) - 1
      /\ col > 0 => msw >= row + col - 1
  BY <1>1 DEF MulTop
<1>4. /\ ScaledValue = Number(arrays.tmp) /\ DstValue = Number(arrays.dst)
      /\ Number(arrays.dst) \in Nat
  <2>1. Phase # "scaled" /\ Phase # "accumulated" /\ DstValue \in Nat
    BY <1>1, MulValues
  <2> QED BY <2>1, MulValues
<1>5. CASE ~(col <= msw_tmp)
  <2>1. /\ row' = row + 1 /\ loop_pc' = "row" /\ Phase' = "row"
        /\ UNCHANGED <<arrays, msw>>
    BY <1>5 DEF Accumulate, Phase
  <2>2. msw >= row + col - 1 /\ col = msw_tmp + 1 /\ col >= wcount(a)
    BY <1>1, <1>2, <1>3, <1>5
  <2>3. msw' + 2 >= wcount(a)' + row'
    BY <1>2, <2>1, <2>2
  <2>4. DstValue' = DstValue
    <3>1. DstValue' = Number(arrays.dst) + 0
      BY <2>1 DEF DstValue
    <3> QED BY <1>4, <3>1
  <2>5. DstReached(msw)'
    BY <1>3, <2>1, <2>4 DEF DstReached
  <2> QED BY <2>1, <2>3, <2>5 DEF MulTop
<1>6. CASE col <= msw_tmp
  <2>1. StartChain("dst", col + row, 1, arrays.tmp[col], "accumulated")
    BY <1>6 DEF Accumulate
  <2>2. /\ col \in 0 .. (wcount(arrays.tmp) - 1) /\ arrays.tmp[col] \in Word
        /\ arrays.tmp[col] \in Nat
    <3>1. IsArray(arrays.tmp, wcount(arrays.tmp)) /\ col \in 0 .. (wcount(arrays.tmp) - 1)
      BY <1>1, <1>6 DEF Layout, Sizes
    <3> QED BY <3>1, ArrayFacts
  <2> DEFINE j == col + row
             v == arrays.tmp[col]
  <2>3. /\ Phase' = "accumulated" /\ at' = j /\ j \in 0 .. (wcount(arrays.dst) - 1)
        /\ \E w \in Word : OneWritten(arrays, arrays', "dst", j, w)
        /\ Value' = Number(arrays.dst) + 1 * (v * Weight[j]) /\ Target' = "dst"
        /\ UNCHANGED <<row, col, msw, msw_tmp>>
    <3>1. Sizes /\ "dst" \in Names /\ Sign = 1 /\ op' = op /\ ~OutOfBounds
      BY <1>1 DEF Layout, Names, Sign, OutOfBounds, Phase
    <3>2. StartChain("dst", j, 1, v, "accumulated") /\ j \in Nat /\ v \in Word
      BY <1>1, <2>1, <2>2
    <3> HIDE DEF j, v
    <3> QED BY ONLY <3>1, <3>2, ChainStarts
  <2>4. /\ arrays'["tmp"] = arrays["tmp"] /\ wcount(arrays'["dst"]) = wcount(arrays["dst"])
    <3> HIDE DEF j
    <3> QED BY <2>3 DEF OneWritten, SameShape, Names
  <2>5. Weight[j] \in Nat /\ v \in Nat
    <3>1. j \in 0..MaxPower
      <4>1. wcount(arrays.dst) \in 1..MaxWords
        BY DEF Layout, Sizes
      <4> HIDE DEF j
      <4> QED BY ONLY <2>3, <4>1, WeightFacts
    <3> QED BY <2>2, <3>1, WeightFacts
  <2> DEFINE z == v * Weight[j]
  <2>6. z \in Nat /\ Value' = Number(arrays.dst) + z /\ (v >= 1 => z >= Weight[j])
    <3>1. z \in Nat /\ Value' = Number(arrays.dst) + z
      BY <2>3, <2>5
    <3>2. v >= 1 => z >= Weight[j]
      <4> HIDE DEF j, v
      <4> QED BY <2>5
    <3> QED BY <3>1, <3>2
  <2>7. DstValue' = Value'
    BY <2>3 DEF DstValue, Value
  <2>8. DstReached(msw)'
    <3>1. CASE msw < wcount(arrays.dst) - 1
      BY <2>3, <2>4, <3>1 DEF DstReached
    <3>2. CASE Weight[msw] <= DstValue
      <4>1. Weight[msw] <= DstValue'
        <5> HIDE DEF z, j, v
        <5>1. DstValue \in Nat /\ DstValue' \in Nat /\ DstValue <= DstValue' /\ msw \in Nat
              /\ msw <= MaxPower
          BY <1>4, <2>6, <2>7, IndexBounds
        <5> QED BY <3>2, <5>1, ReachedMore
      <4> QED BY <2>3, <4>1 DEF DstReached
    <3> QED BY <1>3, <3>1, <3>2 DEF DstReached
  <2>9. DstReached(j)'
    <3>1. CASE j < wcount(arrays.dst) - 1
      BY <2>3, <2>4, <3>1 DEF DstReached
    <3>2. CASE ~(j < wcount(arrays.dst) - 1)
      <4>1. col = wcount(a) /\ msw_tmp = wcount(a)
        BY <1>1, <1>2, <1>6, <3>2
      <4>2. v >= 1
        BY <1>1, <4>1, HighestTmp
      <4>3. Weight[j] <= DstValue'
        <5> HIDE DEF z, j, v
        <5> QED BY <1>4, <2>5, <2>6, <2>7, <4>2
      <4> QED BY <2>3, <4>3 DEF DstReached
    <3> QED BY <3>1, <3>2
  <2>10. TmpReached(msw_tmp)'
    <3>1. ScaledValue' = ScaledValue
      BY <1>2, <1>4, <2>3, <2>4, MulValues DEF ScaledValue
    <3>2. Multiplier' = Multiplier
      BY <1>1, <2>3 DEF Multiplier
    <3> QED BY <1>2, <1>3, <2>3, <3>1, <3>2 DEF TmpReached
  <2> QED BY <1>2, <1>3, <2>3, <2>8, <2>9, <2>10 DEF MulTop
<1> QED BY <1>5, <1>6

LEMMA MulTopStep ==
    ASSUME Layout, MulTop, LoopNext
    PROVE  MulTop'
<1> SUFFICES ASSUME op' = "mul", Phase' # "oob" PROVE MulTop'
  BY DEF MulTop
<1> USE LayoutFacts
<1>0. op = "mul" /\ UNCHANGED <<op, a, b>>
  BY DEF LoopNext, StartRow, EndRows, Propagate, EndChain, CountAdded, Trim, Scale, CountScaled,
         EndScale, Accumulate, CountAccumulated, CountDigit
<1>1. /\ wcount(a) \in Nat /\ wcount(a) >= 1 /\ wcount(b) \in Nat
      /\ wcount(arrays.dst) = wcount(a) + wcount(b) /\ wcount(a)' = wcount(a)
      /\ Phase \in {"scale", "scaled", "accumulate", "accumulated"} =>
            wcount(arrays.tmp) = wcount(a) + 1 /\ row < wcount(b)
      /\ Scaled = "tmp" /\ Scaled' = "tmp"
  <2>1. wcount(a)' = wcount(a)
    BY <1>0 DEF wcount
  <2> QED BY <1>0, <2>1, MulFacts
<1>2. /\ ScaledValue \in Nat /\ DstValue \in Nat
      /\ Phase = "scaled" => ScaledValue = Value
      /\ Phase = "accumulated" => DstValue = Value
      /\ Phase # "scaled" => ScaledValue = Number(arrays.tmp)
      /\ Phase # "accumulated" => DstValue = Number(arrays.dst)
  BY <1>0, MulValues
<1>3. CASE StartRow
  <2>1. /\ loop_pc = "row" /\ Phase = "row" /\ Phase' = "scale" /\ msw_tmp' = wcount(a) - 1
        /\ loop_pc' = "scale" /\ arrays' = [arrays EXCEPT !.tmp = Extended(a, 0)]
        /\ UNCHANGED <<row, msw>>
    BY <1>0, <1>3 DEF StartRow, Phase
  <2>2. arrays'.dst = arrays.dst
    BY <2>1
  <2>3. DstValue' = DstValue
    <3>1. DstValue' = Number(arrays.dst) + 0
      BY <2>1, <2>2 DEF DstValue
    <3>2. DstValue = Number(arrays.dst)
      BY <1>2, <2>1
    <3> QED BY <1>2, <3>1, <3>2
  <2>4. DstReached(msw)' /\ msw' + 2 >= wcount(a)' + row'
    BY <1>0, <1>1, <2>1, <2>2, <2>3 DEF MulTop, DstReached
  <2>5. TmpReached(msw_tmp)' /\ msw_tmp' >= wcount(a)' - 1
    BY <1>1, <2>1 DEF TmpReached
  <2> QED BY <2>1, <2>4, <2>5 DEF MulTop
<1>4. CASE EndRows
  <2>1. /\ loop_pc = "row" /\ Phase = "row" /\ Phase' = "done" /\ loop_pc' = "done"
        /\ arrays' = arrays /\ msw' = msw /\ row' = row
    BY <1>4 DEF EndRows, Phase
  <2>2. DstValue' = DstValue
    BY <2>1 DEF DstValue
  <2> QED BY <1>0, <1>1, <2>1, <2>2 DEF MulTop, DstReached
<1>5. CASE Propagate
  <2>1. /\ loop_pc = "chain" /\ Pending = Sign * Weight[at + 1] /\ Phase \in {"scaled", "accumulated"}
        /\ Target \in Names
    BY <1>0, <1>5, ChainGoesOn DEF Layout, Phases
  <2>2. /\ Value' = Value /\ at' = at + 1 /\ UNCHANGED <<row, col, msw, msw_tmp>>
        /\ Phase' = Phase /\ Target' = Target
        /\ \E w \in Word : OneWritten(arrays, arrays', Target, at + 1, w)
    <3>1. ~OutOfBounds
      BY DEF OutOfBounds, Phase
    <3> QED BY <1>5, <3>1, ChainGoesOn
  <2>3. Weight[at'] <= Value'
    <3>1. Weight[at + 1] \in Nat
      BY <2>1, IndexBounds, WeightFacts
    <3>2. Pending = Weight[at + 1] /\ Pending <= Value
      BY <1>0, <2>1, <3>1, ValueType DEF Sign
    <3> QED BY <2>2, <3>2
  <2>4. /\ \A t \in Names : wcount(arrays'[t]) = wcount(arrays[t])
        /\ \A t \in Names : t # Target => arrays'[t] = arrays[t]
    BY <2>2 DEF OneWritten, SameShape
  <2>5. wcount(arrays.dst)' = wcount(arrays.dst)
    BY <2>4 DEF Names
  <2>6. Multiplier' = Multiplier
    BY <1>0, <2>2 DEF Multiplier
  <2>7. CASE Phase = "scaled"
    <3>1. Target = "tmp" /\ arrays.dst' = arrays.dst
      BY <1>1, <2>4, <2>7 DEF Target, Names
    <3>2. ScaledValue = Value /\ ScaledValue' = Value' /\ DstValue' = DstValue
      BY <1>1, <1>2, <2>2, <2>7, <3>1 DEF ScaledValue, DstValue, Value
    <3>3. Multiplier' >= 1
      BY <1>0, <2>6, <2>7 DEF MulTop
    <3>4. TmpReached(at)'
      BY <2>3, <3>2, <3>3 DEF TmpReached
    <3>5. TmpReached(msw_tmp)'
      BY <1>0, <1>1, <2>2, <2>6, <2>7, <3>2 DEF MulTop, TmpReached
    <3>6. DstReached(msw)'
      BY <1>0, <2>2, <2>5, <2>7, <3>2 DEF MulTop, DstReached
    <3> QED BY <1>0, <1>1, <2>2, <2>7, <3>3, <3>4, <3>5, <3>6 DEF MulTop
  <2>8. CASE Phase = "accumulated"
    <3>1. Target = "dst" /\ arrays.tmp' = arrays.tmp
      BY <2>4, <2>8 DEF Target, Names
    <3>2. DstValue = Value /\ DstValue' = Value' /\ ScaledValue' = ScaledValue
      BY <1>1, <1>2, <2>2, <2>8, <3>1 DEF ScaledValue, DstValue, Value
    <3>3. DstReached(at)'
      BY <2>3, <3>2 DEF DstReached
    <3>4. TmpReached(msw_tmp)'
      BY <1>0, <1>1, <2>2, <2>6, <2>8, <3>2 DEF MulTop, TmpReached
    <3>5. DstReached(msw)'
      BY <1>0, <2>2, <2>5, <2>8, <3>2 DEF MulTop, DstReached
    <3>6. at' >= row' + col'
      BY <1>0, <2>2, <2>8 DEF MulTop
    <3> QED BY <1>0, <1>1, <2>2, <2>8, <3>3, <3>4, <3>5, <3>6 DEF MulTop
  <2> QED BY <2>1, <2>7, <2>8
<1>6. CASE EndChain
  <2>1. /\ Phase' = Phase /\ Pending = 0 /\ loop_pc' = Phase
        /\ UNCHANGED <<arrays, row, col, at, msw, msw_tmp>>
    BY <1>6, ChainEnds
  <2>2. Phase # "chain"
    BY <1>6, ChainEnds DEF Layout, Phases
  <2>3. Pending' = 0
    BY <2>1, <2>2 DEF Pending
  <2>4. ScaledValue' = ScaledValue /\ DstValue' = DstValue /\ Multiplier' = Multiplier
    BY <1>0, <1>1, <2>1, <2>3 DEF ScaledValue, DstValue, Multiplier
  <2> QED BY <1>0, <1>1, <2>1, <2>4 DEF MulTop, TmpReached, DstReached
<1>7. CASE CountAdded \/ Trim \/ CountDigit
  BY <1>0, <1>7 DEF CountAdded, Trim, CountDigit, Layout, Phases, Phase
<1>8. CASE CountScaled
  <2>1. /\ loop_pc = "scaled" /\ Phase = "scaled" /\ Phase' = "scale" /\ loop_pc' = "scale"
        /\ arrays' = arrays /\ msw_tmp' = Higher(msw_tmp, at) /\ row' = row /\ msw' = msw
    BY <1>8 DEF CountScaled, Phase
  <2>2. ScaledValue' = ScaledValue /\ DstValue' = DstValue /\ Multiplier' = Multiplier
    BY <1>0, <1>1, <2>1 DEF ScaledValue, DstValue, Pending, Multiplier
  <2>3. TmpReached(Higher(msw_tmp, at)) /\ Higher(msw_tmp, at) >= wcount(a) - 1
    BY <1>0, <1>1, <2>1 DEF MulTop, Higher
  <2>4. TmpReached(msw_tmp)' /\ msw_tmp' >= wcount(a)' - 1
    BY <1>1, <2>1, <2>2, <2>3 DEF TmpReached
  <2> QED BY <1>0, <1>1, <2>1, <2>2, <2>4 DEF MulTop, DstReached
<1>9. CASE CountAccumulated
  <2>1. /\ loop_pc = "accumulated" /\ Phase = "accumulated" /\ Phase' = "accumulate"
        /\ loop_pc' = "accumulate" /\ arrays' = arrays /\ msw' = Higher(msw, at)
        /\ row' = row /\ col' = col + 1 /\ msw_tmp' = msw_tmp
    BY <1>9 DEF CountAccumulated, Phase
  <2>2. ScaledValue' = ScaledValue /\ DstValue' = DstValue /\ Multiplier' = Multiplier
    BY <1>0, <1>1, <2>1 DEF ScaledValue, DstValue, Pending, Multiplier
  <2>3. /\ DstReached(Higher(msw, at)) /\ Higher(msw, at) + 2 >= wcount(a) + row
        /\ Higher(msw, at) >= row + (col + 1) - 1
    BY <1>0, <1>1, <2>1 DEF MulTop, Higher
  <2>4. DstReached(msw)' /\ msw' + 2 >= wcount(a)' + row' /\ msw' >= row' + col' - 1
    BY <1>1, <2>1, <2>2, <2>3 DEF DstReached
  <2> QED BY <1>0, <1>1, <2>1, <2>2, <2>4 DEF MulTop, TmpReached
<1>10. CASE Scale
  <2>1. /\ Phase = "scale" /\ UNCHANGED <<row, msw, msw_tmp>> /\ Multiplier' = Multiplier
        /\ Multiplier \in Nat /\ ScaledValue \in Nat /\ ScaledValue' \in Int
        /\ Multiplier >= 1 => ScaledValue' >= ScaledValue
        /\ Phase' = "scale"
           \/ (Phase' = "scaled" /\ at' = col + 1 /\ Multiplier >= 1
               /\ Weight[col + 1] <= ScaledValue')
        /\ arrays.dst' = arrays.dst
    BY <1>0, <1>10, ScaleGrows
  <2>2. DstValue' = DstValue
    BY <2>1 DEF DstValue
  <2>3. TmpReached(msw_tmp)'
    <3>1. CASE msw_tmp < wcount(a)
      BY <1>1, <2>1, <3>1 DEF TmpReached
    <3>2. CASE Multiplier >= 1 /\ Weight[msw_tmp] <= ScaledValue
      <4>1. msw_tmp \in Nat /\ msw_tmp <= MaxPower
        BY <2>1, IndexBounds
      <4>2. Weight[msw_tmp] <= ScaledValue'
        BY <2>1, <3>2, <4>1, ReachedMore
      <4> QED BY <2>1, <3>2, <4>2 DEF TmpReached
    <3> QED BY <1>0, <2>1, <3>1, <3>2 DEF MulTop, TmpReached
  <2>4. Phase' = "scaled" => Multiplier' >= 1 /\ TmpReached(at)'
    BY <2>1 DEF TmpReached
  <2> QED BY <1>0, <1>1, <2>1, <2>2, <2>3, <2>4 DEF MulTop, DstReached
<1>11. CASE EndScale
  <2>1. /\ loop_pc = "scale" /\ Phase = "scale" /\ Phase' = "accumulate" /\ col' = 0
        /\ loop_pc' = "accumulate" /\ UNCHANGED <<arrays, row, msw, msw_tmp>>
    BY <1>0, <1>11 DEF EndScale, Phase
  <2>2. ScaledValue' = ScaledValue /\ DstValue' = DstValue /\ Multiplier' = Multiplier
    BY <1>0, <1>1, <2>1 DEF ScaledValue, DstValue, Pending, Multiplier
  <2> QED BY <1>0, <1>1, <2>1, <2>2 DEF MulTop, TmpReached, DstReached
<1>12. CASE Accumulate
  BY <1>0, <1>12, MulTopAccumulate
<1> QED BY <1>3, <1>4, <1>5, <1>6, <1>7, <1>8, <1>9, <1>10, <1>11, <1>12 DEF LoopNext

\* sub_unsigned drops every leading zero word.
SubTop ==
    op = "sub" /\ Phase \in {"row", "done"} /\ row > 0 => msw = 0 \/ arrays.dst[msw] # 0

LEMMA SubTopStep ==
    ASSUME Layout, SubTop, LoopNext
    PROVE  SubTop'
<1> SUFFICES ASSUME op' = "sub", Phase' \in {"row", "done"}, row' > 0
             PROVE  (msw = 0 \/ arrays.dst[msw] # 0)'
  BY DEF SubTop
<1> USE LayoutFacts
<1>0. op = "sub" /\ op' = op
  BY DEF LoopNext, StartRow, EndRows, Propagate, EndChain, CountAdded, Trim, Scale, CountScaled,
         EndScale, Accumulate, CountAccumulated, CountDigit
<1>1. CASE StartRow
  <2>1. StartChain("dst", row, -1, b[row], "trim")
    BY <1>0, <1>1 DEF StartRow
  <2> QED BY <2>1 DEF StartChain, OutOfBounds, Phase
<1>2. CASE EndRows
  BY <1>0, <1>2 DEF EndRows, Phase, SubTop
<1>3. CASE Propagate
  <2>1. ~OutOfBounds
    BY DEF OutOfBounds, Phase
  <2>2. Phase' = Phase /\ loop_pc = "chain"
    BY <1>3, <2>1, ChainGoesOn
  <2> QED BY <2>2 DEF Layout, Phases
<1>4. CASE EndChain
  BY <1>4, ChainEnds DEF Layout, Phases
<1>5. CASE Trim
  BY <1>5 DEF Trim, Phase
<1>6. CASE CountAdded \/ CountScaled \/ CountAccumulated \/ CountDigit \/ Scale \/ EndScale
           \/ Accumulate
  BY <1>0, <1>6 DEF CountAdded, CountScaled, CountAccumulated, CountDigit, Scale, EndScale,
                    Accumulate, Layout, Phases, Phase
<1> QED BY <1>1, <1>2, <1>3, <1>4, <1>5, <1>6 DEF LoopNext

\* add_unsigned writes beyond the words of the larger operand only where a word of
\* the other one, or a carry, goes; above, the destination still holds the operand.
SameAbove(k) == \A q \in DOMAIN a : q > k => arrays.dst[q] = a[q]
Counted(k) == k \in CarriesInto(Number(a), Number(b), wcount(a))
High(x, k) == Number(x) - Low(x, k)

AddTop ==
    op = "add" =>
       /\ Phase # "oob" =>
             /\ wcount(a) <= msw + 2 /\ row <= msw + 1
             /\ msw = wcount(a) - 2 \/ msw < row \/ Counted(msw)
       /\ Phase \in {"row", "done"} => SameAbove(msw)
       /\ Phase = "added" =>
             /\ SameAbove(Higher(msw, at))
             /\ at = row \/ (at > row /\ Counted(at))
             /\ \A k \in (at + 1) .. wcount(a) : High(arrays.dst, k) >= High(a, k)

LEMMA AddFacts ==
    ASSUME Layout, op = "add"
    PROVE  /\ IsArray(a, wcount(a)) /\ IsArray(arrays.dst, wcount(a)) /\ wcount(a) \in Nat
           /\ wcount(arrays.dst) = wcount(a) /\ wcount(a) >= 2 /\ wcount(a) \in 0..MaxPower
           /\ DOMAIN a = 0 .. (wcount(a) - 1)
           /\ Number(a) \in Nat /\ Number(b) \in Nat /\ Target = "dst"
           /\ IsArray(b, wcount(b))
<1>1. IsArray(a, wcount(a)) /\ IsArray(arrays.dst, wcount(arrays.dst)) /\ IsArray(b, wcount(b))
      /\ wcount(arrays.dst) = wcount(a) /\ wcount(a) >= 2
  BY DEF Layout, Sizes
<1>2. Phase # "scaled"
  BY DEF Layout, Phases
<1> QED BY <1>1, <1>2, ArrayFacts, NumberType DEF IsArray, Target

\* A carry that runs into a word is one that BnNumbers counts.
LEMMA CarryCounts ==
    ASSUME Layout, op = "add", NEW k \in 1 .. (wcount(a) - 1), row < wcount(b), row < k,
           Number(arrays.dst) + Weight[k] = Number(a) + Prefix(row + 1),
           High(arrays.dst, k) >= High(a, k)
    PROVE  Counted(k)
<1> USE LayoutFacts
<1> DEFINE n == wcount(a)
           x == Number(a)
           y == Number(b)
           z == Number(arrays.dst)
           lx == Low(a, k)
           lz == Low(arrays.dst, k)
           p == Prefix(row + 1)
           w == Weight[k]
           m == wcount(b)
<1>1. IsArray(a, n) /\ IsArray(arrays.dst, n) /\ n \in Nat /\ k \in 0..n /\ k \in 1..n
      /\ k \in Nat /\ k \in 0..MaxPower /\ IsArray(b, m) /\ m \in Nat
  <2>1. n \in Nat /\ n \in 0..MaxPower /\ MaxPower \in Nat /\ k \in 1 .. (n - 1)
    BY AddFacts, WeightFacts
  <2>2. k \in 0..n /\ k \in Nat /\ k \in 0..MaxPower /\ k \in 1..n
    <3> HIDE DEF n
    <3> QED BY ONLY <2>1
  <2> QED BY <2>2, AddFacts
<1>2. /\ lx \in Nat /\ lx < w /\ lz \in Nat /\ w \in Nat /\ x \in Nat /\ y \in Nat /\ z \in Nat
  <2> HIDE DEF n
  <2> QED BY <1>1, LowFacts, WeightFacts, NumberType, PrefixFacts
<1>3. x % w = lx
  <2> HIDE DEF n
  <2> QED BY <1>1, LowIsRemainder
<1>4. p \in Nat /\ p <= y /\ row + 1 \in 0..m /\ row + 1 <= k
  <2>1. row + 1 \in 0..m /\ row + 1 <= k
    BY <1>1
  <2> QED BY <2>1, PrefixFacts, OperandNumbers
<1>5. lx + p >= w
  <2>1. z - lz >= x - lx /\ z + w = x + p
    BY DEF High
  <2> HIDE DEF x, z, lx, lz, w, p
  <2> QED BY <1>2, <1>4, <2>1
<1>6. (y % w) >= p /\ y % w \in Nat
  <2>1. CASE k <= m
    <3>1. y % w = Low(b, k) /\ p = Low(b, row + 1) /\ Low(b, row + 1) <= Low(b, k)
          /\ Low(b, k) \in Nat
      <4>1. k \in 0..m
        BY <1>1, <2>1
      <4>2. p = Low(b, row + 1)
        BY DEF Prefix, Low
      <4> HIDE DEF m
      <4> QED BY <1>1, <1>4, <4>1, <4>2, LowIsRemainder, LowMonotone, LowFacts
    <3> QED BY <1>4, <3>1
  <2>2. CASE ~(k <= m)
    <3>1. y < Weight[m] /\ m \in 0..MaxPower /\ m <= k
      BY <1>1, <1>4, <2>2, PrefixFacts
    <3>2. Weight[m] <= w /\ Weight[m] \in Nat
      <4> HIDE DEF m
      <4> QED BY <1>1, <3>1, WeightMonotone, WeightFacts
    <3>3. y < w
      BY <1>2, <3>1, <3>2
    <3>4. y % w = y
      <4> HIDE DEF y
      <4> QED BY <1>1, <1>2, <3>3, LowWords
    <3> QED BY <1>2, <1>4, <3>4
  <2> QED BY <2>1, <2>2
<1>7. (x % w) + (y % w) >= w
  <2> HIDE DEF x, y, w, lx, p
  <2> QED BY <1>2, <1>3, <1>4, <1>5, <1>6
<1> QED BY <1>1, <1>7 DEF Counted, CarriesInto

LEMMA CountedStays ==
    ASSUME UNCHANGED <<op, a, b>>
    PROVE  /\ \A k : Counted(k)' <=> Counted(k)
           /\ wcount(a)' = wcount(a) /\ Number(a)' = Number(a)
BY DEF Counted, CarriesInto, Number, wcount

\* What the words from k on are worth depends on them alone.
LEMMA HighSame ==
    ASSUME NEW n, NEW x, IsArray(x, n), NEW y, IsArray(y, n), NEW k \in 0..n,
           \A q \in k .. (n - 1) : y[q] = x[q]
    PROVE  High(y, k) = High(x, k)
<1> DEFINE S == {m \in 0 .. (n - k) : Low(y, k + m) - Low(y, k) = Low(x, k + m) - Low(x, k)}
<1>1. n \in Nat /\ k \in Nat /\ n - k \in Nat /\ DOMAIN x = 0 .. (n - 1)
  BY ArrayFacts
<1>2. Low(x, k) \in Nat /\ Low(y, k) \in Nat
  BY LowFacts
<1>3. 0 \in S
  BY <1>1, <1>2
<1>4. ASSUME NEW m \in 0 .. ((n - k) - 1), m \in S PROVE m + 1 \in S
  <2> DEFINE q == k + m
  <2>1. q \in 0 .. (n - 1) /\ q \in k .. (n - 1) /\ q + 1 = k + (m + 1) /\ m + 1 \in 0 .. (n - k)
    BY <1>1
  <2>2. y[q] = x[q]
    BY <2>1
  <2>3. /\ Low(x, q + 1) = Low(x, q) + x[q] * Weight[q] /\ Low(y, q + 1) = Low(y, q) + y[q] * Weight[q]
        /\ Low(x, q) \in Int /\ Low(y, q) \in Int
    <3> HIDE DEF q
    <3> QED BY <2>1, LowStep
  <2>4. x[q] * Weight[q] \in Nat
    <3> HIDE DEF q
    <3> QED BY <2>1, TermBelow
  <2>5. Low(y, q) - Low(y, k) = Low(x, q) - Low(x, k)
    BY <1>4
  <2> DEFINE d == x[q] * Weight[q]
  <2>6. /\ Low(x, q + 1) = Low(x, q) + d /\ Low(y, q + 1) = Low(y, q) + d /\ d \in Nat
    BY <2>2, <2>3, <2>4
  <2> HIDE DEF q, d
  <2>7. Low(y, q + 1) - Low(y, k) = Low(x, q + 1) - Low(x, k)
    BY <1>2, <2>3, <2>5, <2>6
  <2> QED BY <2>1, <2>7
<1> HIDE DEF S
<1>5. n - k \in S
  <2> DEFINE d == n - k
  <2>1. d \in Nat /\ \A m \in 0 .. (d - 1) : m \in S => m + 1 \in S
    BY <1>1, <1>4
  <2> HIDE DEF d
  <2>2. \A m \in 0..d : m \in S
    BY ONLY <1>3, <2>1, UpTo
  <2>3. d \in S
    BY <2>1, <2>2
  <2> QED BY <2>3 DEF d
<1>6. Low(y, n) - Low(y, k) = Low(x, n) - Low(x, k)
  <2>1. k + (n - k) = n
    BY <1>1
  <2> QED BY <1>5, <2>1 DEF S
<1> QED BY <1>6, NumberIsLow DEF High

\* The words above the one written stay what they are worth.
LEMMA HighStays ==
    ASSUME NEW n, NEW x, IsArray(x, n), NEW y, IsArray(y, n), NEW j \in 0 .. (n - 1),
           \A q \in DOMAIN x : q # j => y[q] = x[q], NEW k \in 0..n, j < k
    PROVE  High(y, k) = High(x, k)
<1>1. \A q \in k .. (n - 1) : q \in DOMAIN x /\ q # j
  <2>1. n \in Nat /\ DOMAIN x = 0 .. (n - 1)
    BY ArrayFacts
  <2> QED BY <2>1
<1> QED BY <1>1, HighSame

LEMMA AddTopStart ==
    ASSUME Layout, Exact, AddTop, StartRow, op = "add", Phase' # "oob", UNCHANGED <<op, a, b>>
    PROVE  AddTop'
<1> USE LayoutFacts
<1> DEFINE n == wcount(a)
<1>1. /\ loop_pc = "row" /\ Phase = "row" /\ row < wcount(b)
      /\ StartChain("dst", row, 1, b[row], "added")
  BY DEF StartRow, Phase
<1>2. /\ IsArray(a, n) /\ IsArray(arrays.dst, n) /\ n \in Nat /\ n \in 0..MaxPower
      /\ wcount(arrays.dst) = n /\ DOMAIN a = 0 .. (n - 1) /\ DOMAIN arrays.dst = 0 .. (n - 1)
      /\ Number(a) \in Nat
  <2>1. IsArray(arrays.dst, n)
    BY AddFacts
  <2>2. DOMAIN arrays.dst = 0 .. (n - 1)
    <3> HIDE DEF n
    <3> QED BY <2>1, ArrayFacts
  <2> QED BY <2>2, AddFacts
<1>3. /\ Phase' = "added" /\ at' = row /\ UNCHANGED <<row, msw>> /\ row \in 0 .. (n - 1)
      /\ \E w \in Word : OneWritten(arrays, arrays', "dst", row, w)
  <2>1. /\ Sizes /\ "dst" \in Names /\ Sign = 1 /\ ~OutOfBounds
        /\ row \in Nat /\ b[row] \in Word
    BY <1>1, ConsumedStep DEF Layout, Names, Sign, OutOfBounds, Phase
  <2>2. /\ Phase' = "added" /\ at' = row /\ UNCHANGED <<row, msw>>
        /\ row \in 0 .. (wcount(arrays["dst"]) - 1)
        /\ \E w \in Word : OneWritten(arrays, arrays', "dst", row, w)
    BY ONLY <1>1, <2>1, op' = op, ChainStarts
  <2> QED BY <1>2, <2>2
<1>4. /\ IsArray(arrays'["dst"], n)
      /\ \A q \in DOMAIN arrays["dst"] : q # row => arrays'["dst"][q] = arrays["dst"][q]
  <2>1. IsArray(arrays'["dst"], wcount(arrays'["dst"])) /\ wcount(arrays'["dst"]) = wcount(arrays["dst"])
    BY <1>2, <1>3 DEF OneWritten, SameShape, Names
  <2> QED BY <1>2, <1>3, <2>1 DEF OneWritten
<1>5. \A k : Counted(k)' <=> Counted(k)
  BY CountedStays
<1>6. wcount(a)' = n /\ Number(a)' = Number(a)
  BY CountedStays
<1>7. SameAbove(Higher(msw, at))'
  <2>1. SameAbove(msw)
    BY <1>1 DEF AddTop
  <2>2. Higher(msw, at)' = Higher(msw, row) /\ Higher(msw, row) >= msw /\ Higher(msw, row) >= row
    BY <1>3, HigherFacts DEF Higher
  <2>3. ASSUME NEW q \in DOMAIN a, q > Higher(msw, row) PROVE arrays'["dst"][q] = a[q]
    <3>0. Higher(msw, row) \in Nat /\ msw \in Nat /\ row \in Nat
          /\ Higher(msw, row) >= msw /\ Higher(msw, row) >= row
      BY <2>2, HigherFacts
    <3> HIDE DEF n
    <3>1. q > msw /\ q > row /\ q \in DOMAIN arrays.dst
      BY ONLY <1>2, <2>3, <3>0
    <3> QED BY <1>4, <2>1, <3>1 DEF SameAbove
  <2> QED BY <2>2, <2>3 DEF SameAbove
<1>8. \A k \in (at' + 1) .. wcount(a)' : High(arrays.dst, k)' >= High(a, k)'
  <2> SUFFICES ASSUME NEW k \in (row + 1) .. n
               PROVE  High(arrays'["dst"], k) >= High(a, k)
    BY <1>3, <1>6 DEF High
  <2>1. k \in 0..n /\ row < k
    <3>1. row \in Nat /\ n \in Nat
      BY <1>2
    <3> HIDE DEF n
    <3> QED BY ONLY <3>1, k \in (row + 1) .. n
  <2>2. High(arrays'["dst"], k) = High(arrays.dst, k)
    <3> HIDE DEF n
    <3>1. /\ IsArray(arrays.dst, n) /\ IsArray(arrays'["dst"], n) /\ row \in 0 .. (n - 1)
          /\ \A q \in DOMAIN arrays.dst : q # row => arrays'["dst"][q] = arrays.dst[q]
      BY <1>2, <1>3, <1>4
    <3> QED BY ONLY <2>1, <3>1, HighStays
  <2>3. Number(arrays.dst) >= Number(a)
    <3>1. Number(arrays.dst) = Number(a) + Prefix(row)
      BY <1>1 DEF Exact, Consumed
    <3>2. Prefix(row) \in Nat
      BY OperandNumbers
    <3> QED BY <1>2, <3>1, <3>2
  <2>4. High(arrays.dst, k) >= High(a, k)
    <3> HIDE DEF n
    <3> QED BY <1>2, <2>1, <2>3, HighMonotone DEF High
  <2> QED BY <2>2, <2>4
<1>9. /\ n <= msw + 2 /\ row <= msw + 1 /\ (msw = n - 2 \/ msw < row \/ Counted(msw))
  BY <1>1 DEF AddTop
<1> QED BY <1>3, <1>5, <1>6, <1>7, <1>8, <1>9 DEF AddTop

LEMMA AddTopPropagate ==
    ASSUME Layout, Exact, AddTop, Propagate, op = "add", Phase' # "oob", UNCHANGED <<op, a, b>>
    PROVE  AddTop'
<1> USE LayoutFacts
<1> DEFINE n == wcount(a)
           k == at + 1
<1>1. /\ loop_pc = "chain" /\ Pending = Sign * Weight[k] /\ Phase = "added" /\ Target = "dst"
      /\ row < wcount(b)
  BY ChainGoesOn DEF Layout, Phases, Indices, Target
<1>2. /\ IsArray(a, n) /\ IsArray(arrays.dst, n) /\ n \in Nat /\ n \in 0..MaxPower
      /\ wcount(arrays.dst) = n /\ DOMAIN a = 0 .. (n - 1) /\ DOMAIN arrays.dst = 0 .. (n - 1)
      /\ Number(a) \in Nat
  <2>1. IsArray(arrays.dst, n)
    BY AddFacts
  <2>2. DOMAIN arrays.dst = 0 .. (n - 1)
    <3> HIDE DEF n
    <3> QED BY <2>1, ArrayFacts
  <2> QED BY <2>2, AddFacts
<1>3. /\ Phase' = "added" /\ at' = k /\ UNCHANGED <<row, msw>> /\ k \in 0 .. (n - 1)
      /\ \E w \in Word : OneWritten(arrays, arrays', "dst", k, w)
  <2>1. ~OutOfBounds
    BY DEF OutOfBounds, Phase
  <2>2. /\ Phase' = Phase /\ at' = at + 1 /\ UNCHANGED <<row, msw>>
        /\ at + 1 \in 0 .. (wcount(arrays[Target]) - 1)
        /\ \E w \in Word : OneWritten(arrays, arrays', Target, at + 1, w)
    BY <2>1, ChainGoesOn
  <2> QED BY <1>1, <1>2, <2>2
<1>4. /\ IsArray(arrays'["dst"], n)
      /\ \A q \in DOMAIN arrays["dst"] : q # k => arrays'["dst"][q] = arrays["dst"][q]
  <2> HIDE DEF k
  <2>1. IsArray(arrays'["dst"], wcount(arrays'["dst"])) /\ wcount(arrays'["dst"]) = wcount(arrays["dst"])
    BY <1>2, <1>3 DEF OneWritten, SameShape, Names
  <2> QED BY <1>2, <1>3, <2>1 DEF OneWritten
<1>5. \A q : Counted(q)' <=> Counted(q)
  BY CountedStays
<1>6. wcount(a)' = n /\ Number(a)' = Number(a)
  BY CountedStays
<1>7. /\ n <= msw + 2 /\ row <= msw + 1 /\ (msw = n - 2 \/ msw < row \/ Counted(msw))
      /\ SameAbove(Higher(msw, at)) /\ at >= row
      /\ \A q \in (at + 1) .. n : High(arrays.dst, q) >= High(a, q)
  BY <1>1 DEF AddTop
<1>8. Counted(k)
  <2>1. Value = Number(arrays.dst) + Weight[k] /\ Value = Number(a) + Prefix(row + 1)
    <3>1. Weight[k] \in Nat
      BY <1>1, IndexBounds, WeightFacts
    <3>2. Value = Number(a) + Prefix(row + 1)
      BY <1>1 DEF Exact, Consumed
    <3> QED BY <1>1, <3>1, <3>2 DEF Value, Sign
  <2>2. k \in 1 .. (n - 1) /\ row < k /\ k \in (at + 1) .. n
    <3>1. k \in Nat /\ k = at + 1 /\ at \in Nat /\ row \in Nat /\ k \in 0 .. (n - 1) /\ at >= row
      BY <1>3, <1>7
    <3> HIDE DEF n, k
    <3> QED BY ONLY <1>2, <3>1
  <2>3. High(arrays.dst, k) >= High(a, k)
    BY <1>7, <2>2
  <2> HIDE DEF n, k
  <2> QED BY <1>1, <2>1, <2>2, <2>3, CarryCounts DEF n
<1>9. SameAbove(Higher(msw, at))'
  <2>1. Higher(msw, at)' = Higher(msw, k) /\ Higher(msw, k) >= k /\ Higher(msw, k) >= Higher(msw, at)
    BY <1>3, HigherFacts DEF Higher
  <2>2. ASSUME NEW q \in DOMAIN a, q > Higher(msw, k) PROVE arrays'["dst"][q] = a[q]
    <3>0. Higher(msw, at) \in Nat /\ k \in Nat /\ Higher(msw, k) \in Nat
          /\ Higher(msw, k) >= Higher(msw, at) /\ Higher(msw, k) >= k
      BY <2>1, HigherFacts
    <3> HIDE DEF n, k
    <3>1. q > Higher(msw, at) /\ q > k /\ q \in DOMAIN arrays.dst
      BY ONLY <1>2, <2>2, <3>0
    <3>2. arrays.dst[q] = a[q]
      BY <1>7, <3>1 DEF SameAbove
    <3>3. q # k
      BY <3>0, <3>1
    <3>4. arrays'["dst"][q] = arrays["dst"][q]
      BY ONLY <1>4, <3>1, <3>3
    <3> QED BY <3>2, <3>4
  <2> QED BY <2>1, <2>2 DEF SameAbove
<1>10. \A q \in (at' + 1) .. wcount(a)' : High(arrays.dst, q)' >= High(a, q)'
  <2> SUFFICES ASSUME NEW q \in (k + 1) .. n
               PROVE  High(arrays'["dst"], q) >= High(a, q)
    BY <1>3, <1>6 DEF High
  <2>1. q \in 0..n /\ k < q /\ q \in (at + 1) .. n
    <3>1. k \in Nat /\ k = at + 1 /\ q \in (k + 1) .. n
      OBVIOUS
    <3> HIDE DEF n, k
    <3> QED BY ONLY <1>2, <3>1
  <2>2. High(arrays'["dst"], q) = High(arrays.dst, q)
    <3> HIDE DEF n, k
    <3>1. /\ IsArray(arrays.dst, n) /\ IsArray(arrays'["dst"], n) /\ k \in 0 .. (n - 1)
          /\ \A p \in DOMAIN arrays.dst : p # k => arrays'["dst"][p] = arrays.dst[p]
      BY <1>2, <1>3, <1>4
    <3> QED BY ONLY <2>1, <3>1, HighStays
  <2> QED BY <1>7, <2>1, <2>2
<1>11. at' > row /\ Counted(at)'
  <2>1. at' > row
    BY <1>3, <1>7
  <2>2. Number(a)' = Number(a) /\ Number(b)' = Number(b) /\ wcount(a)' = wcount(a)
    BY DEF Number, wcount
  <2>3. Counted(at)'
    BY <1>3, <1>8, <2>2 DEF Counted, CarriesInto
  <2> QED BY <2>1, <2>3
<1>12. Counted(msw)' <=> Counted(msw)
  BY <1>3, <1>5 DEF Counted
<1> QED BY <1>3, <1>6, <1>7, <1>9, <1>10, <1>11, <1>12 DEF AddTop

LEMMA AddTopStep ==
    ASSUME Layout, Exact, AddTop, LoopNext
    PROVE  AddTop'
<1> SUFFICES ASSUME op' = "add", Phase' # "oob" PROVE AddTop'
  BY DEF AddTop
<1> USE LayoutFacts
<1>0. op = "add" /\ UNCHANGED <<op, a, b>>
  BY DEF LoopNext, StartRow, EndRows, Propagate, EndChain, CountAdded, Trim, Scale, CountScaled,
         EndScale, Accumulate, CountAccumulated, CountDigit
<1>1. /\ \A k : Counted(k)' <=> Counted(k)
      /\ wcount(a)' = wcount(a) /\ Number(a)' = Number(a) /\ Number(b)' = Number(b)
  BY <1>0, CountedStays DEF Number
<1>2. CASE StartRow
  BY <1>0, <1>2, AddTopStart
<1>3. CASE Propagate
  BY <1>0, <1>3, AddTopPropagate
<1>4. CASE EndRows \/ EndChain
  <2>1. /\ \/ Phase' = Phase
           \/ Phase = "row" /\ Phase' = "done"
        /\ UNCHANGED <<arrays, row, at, msw>>
    <3>1. CASE EndRows
      BY <3>1 DEF EndRows, Phase
    <3>2. CASE EndChain
      BY <3>2, ChainEnds
    <3> QED BY <1>4, <3>1, <3>2
  <2>2. (Counted(msw)' <=> Counted(msw)) /\ (Counted(at)' <=> Counted(at))
    BY <1>1, <2>1 DEF Counted, CarriesInto
  <2>3. (SameAbove(msw)' <=> SameAbove(msw)) /\ (SameAbove(Higher(msw, at))' <=> SameAbove(Higher(msw, at)))
    BY <1>0, <2>1 DEF SameAbove, Higher
  <2>4. \A k : High(arrays.dst, k)' = High(arrays.dst, k) /\ High(a, k)' = High(a, k)
    BY <1>0, <2>1 DEF High
  <2> QED BY <1>0, <1>1, <2>1, <2>2, <2>3, <2>4 DEF AddTop
<1>5. CASE CountAdded
  <2>1. /\ loop_pc = "added" /\ Phase = "added" /\ Phase' = "row" /\ msw' = Higher(msw, at)
        /\ row' = row + 1 /\ arrays' = arrays
    BY <1>5 DEF CountAdded, Phase
  <2>2. /\ wcount(a) <= msw + 2 /\ row <= msw + 1 /\ (msw = wcount(a) - 2 \/ msw < row \/ Counted(msw))
        /\ SameAbove(Higher(msw, at)) /\ (at = row \/ (at > row /\ Counted(at)))
    BY <1>0, <2>1 DEF AddTop
  <2>3. /\ Higher(msw, at) \in {msw, at} /\ Higher(msw, at) >= msw /\ Higher(msw, at) >= at
        /\ Higher(msw, at) \in Nat
    BY HigherFacts
  <2>4. SameAbove(msw)'
    BY <1>0, <2>1, <2>2 DEF SameAbove
  <2>5. wcount(a) \in Nat
    BY <1>0, AddFacts
  <2>6. wcount(a) <= msw' + 2 /\ row' <= msw' + 1
    BY <2>1, <2>2, <2>3, <2>5
  <2>7. msw' = wcount(a) - 2 \/ msw' < row' \/ Counted(msw')
    <3>1. CASE Higher(msw, at) = msw
      BY <2>1, <2>2, <2>5, <3>1
    <3>2. CASE Higher(msw, at) = at
      BY <2>1, <2>2, <2>5, <3>2
    <3> QED BY <2>3, <3>1, <3>2
  <2>8. Counted(msw)' <=> Counted(msw')
    BY <1>1 DEF Counted, CarriesInto
  <2> QED BY <1>1, <2>1, <2>4, <2>6, <2>7, <2>8 DEF AddTop
<1>6. CASE Trim \/ CountScaled \/ CountAccumulated \/ CountDigit \/ Scale \/ EndScale \/ Accumulate
  BY <1>0, <1>6 DEF Trim, CountScaled, CountAccumulated, CountDigit, Scale, EndScale,
                    Accumulate, Layout, Phases, Phase
<1> QED BY <1>2, <1>3, <1>4, <1>5, <1>6 DEF LoopNext

\* What the loops say of their most significant words.
Reaches == InitTop /\ MulTop /\ SubTop /\ AddTop

LEMMA ReachesInit ==
    ASSUME LoopInit
    PROVE  Reaches
<1>1. Layout /\ Phase = "row" /\ row = 0 /\ loop_pc = "row"
  BY LayoutInit DEF LoopInit, Phase
<1>2. /\ op \in {"add", "sub"} => arrays.dst = a
      /\ op = "add" => msw = wcount(a) - 2
      /\ op \in {"sub", "mul"} => msw = wcount(a) - 1
      /\ op = "init" => msw = 0
  BY StartsAt
<1>3. InitTop /\ SubTop
  BY <1>1, <1>2 DEF InitTop, SubTop, Reached
<1>4. MulTop
  <2>1. op = "mul" => /\ wcount(a) \in Nat /\ wcount(a) >= 1 /\ wcount(b) \in Nat \ {0}
                      /\ wcount(arrays.dst) = wcount(a) + wcount(b)
    BY <1>1, MulFacts, LayoutFacts
  <2> QED BY <1>1, <1>2, <2>1 DEF MulTop, DstReached
<1>5. AddTop
  <2>1. op = "add" => wcount(a) \in Nat /\ wcount(a) >= 2
    BY <1>1, AddFacts
  <2> QED BY <1>1, <1>2, <2>1 DEF AddTop, SameAbove
<1> QED BY <1>3, <1>4, <1>5 DEF Reaches

LEMMA ReachesSame ==
    ASSUME Reaches, UNCHANGED loop_vars
    PROVE  Reaches'
<1>1. UNCHANGED <<op, a, b, arrays, row, col, at, old, chain, msw, msw_tmp, loop_pc>>
  BY DEF loop_vars
<1>2. Phase' = Phase /\ Scaled' = Scaled /\ Sign' = Sign /\ (Wrapped' <=> Wrapped)
  BY <1>1 DEF Phase, Scaled, Sign, Wrapped
<1>3. Target' = Target /\ Pending' = Pending /\ Multiplier' = Multiplier
  BY <1>1, <1>2 DEF Target, Pending, Multiplier
<1>4. Value' = Value /\ ScaledValue' = ScaledValue /\ DstValue' = DstValue
  BY <1>1, <1>2, <1>3 DEF Value, ScaledValue, DstValue
<1>5. wcount(a)' = wcount(a) /\ Number(a)' = Number(a) /\ Number(b)' = Number(b)
  BY <1>1 DEF wcount, Number
<1>6. InitTop'
  BY <1>1, <1>2, <1>4 DEF Reaches, InitTop, Reached
<1>7. MulTop'
  BY <1>1, <1>2, <1>3, <1>4, <1>5 DEF Reaches, MulTop, TmpReached, DstReached
<1>8. SubTop'
  BY <1>1, <1>2 DEF Reaches, SubTop
<1>9. AddTop'
  <2>1. (Counted(msw)' <=> Counted(msw)) /\ (Counted(at)' <=> Counted(at))
    BY <1>1, <1>5 DEF Counted, CarriesInto
  <2>2. (SameAbove(msw)' <=> SameAbove(msw)) /\ (SameAbove(Higher(msw, at))' <=> SameAbove(Higher(msw, at)))
    BY <1>1 DEF SameAbove, Higher
  <2>3. \A k : High(arrays.dst, k)' = High(arrays.dst, k) /\ High(a, k)' = High(a, k)
    BY <1>1 DEF High
  <2> QED BY <1>1, <1>2, <1>5, <2>1, <2>2, <2>3 DEF Reaches, AddTop
<1> QED BY <1>6, <1>7, <1>8, <1>9 DEF Reaches

LEMMA ReachesHold == WordsSpec => []Reaches
<1>1. WordsInit => Reaches
  BY ReachesInit DEF WordsInit
<1>2. LoopIInv /\ Reaches /\ [WordsNext]_words_vars => Reaches'
  <2> SUFFICES ASSUME LoopIInv, Reaches, LoopNext PROVE Reaches'
    BY ReachesSame, PrintingFacts
  <2> QED BY InitTopStep, MulTopStep, SubTopStep, AddTopStep DEF LoopIInv, Reaches
<1> QED BY <1>1, <1>2, LoopInvariance, PTL DEF WordsSpec

\* Above the words written nothing is counted.
LEMMA NothingCountedAbove ==
    ASSUME Layout, Exact, Bounds, AddTop, loop_pc = "done", op = "add",
           NEW k \in 1 .. wcount(a), Counted(k)
    PROVE  k <= msw
<1> USE LayoutFacts
<1> SUFFICES ASSUME k > msw PROVE FALSE
  BY AddFacts
<1> DEFINE n == wcount(a)
           x == Number(a)
           y == Number(b)
           w == Weight[k]
<1>1. /\ IsArray(a, n) /\ IsArray(arrays.dst, n) /\ n \in Nat /\ n \in 0..MaxPower
      /\ DOMAIN a = 0 .. (n - 1) /\ k \in 1..n
  BY AddFacts
<1>2. /\ Number(arrays.dst) = x + y /\ x \in Nat /\ y \in Nat
  BY FinishedSum
<1>3. SameAbove(msw)
  BY DEF AddTop, Phase
<1>4. k \in 0..n /\ k \in 0..MaxPower /\ k \in Nat
  <2>1. MaxPower \in Nat
    BY WeightFacts
  <2> HIDE DEF n
  <2> QED BY ONLY <1>1, <2>1
<1>5. High(arrays.dst, k) = High(a, k)
  <2>1. \A q \in k .. (n - 1) : arrays.dst[q] = a[q]
    <3>1. \A q \in k .. (n - 1) : q \in DOMAIN a /\ q > msw
      <4>1. msw \in Nat /\ k > msw
        OBVIOUS
      <4> HIDE DEF n
      <4> QED BY ONLY <1>1, <1>4, <4>1
    <3> QED BY <1>3, <3>1 DEF SameAbove
  <2>2. /\ IsArray(arrays.dst, n) /\ IsArray(a, n) /\ k \in 0..n
        /\ \A q \in k .. (n - 1) : arrays.dst[q] = a[q]
    BY <1>1, <1>4, <2>1
  <2> HIDE DEF n
  <2> QED BY ONLY <2>2, HighSame
<1>6. /\ Low(a, k) \in Nat /\ Low(arrays.dst, k) \in Nat /\ Low(arrays.dst, k) < w /\ w \in Nat \ {0}
      /\ x % w = Low(a, k)
  <2> HIDE DEF n
  <2> QED BY <1>1, <1>4, LowFacts, LowIsRemainder, WeightFacts
<1>7. Low(a, k) + y < w
  <2>1. (x + y) - Low(arrays.dst, k) = x - Low(a, k)
    BY <1>2, <1>5 DEF High
  <2> HIDE DEF x, y, w
  <2> QED BY <1>2, <1>6, <2>1
<1>8. y % w = y
  <2> HIDE DEF x, y
  <2>1. y < w
    BY <1>2, <1>6, <1>7
  <2> QED BY <1>2, <1>4, <2>1, LowWords
<1>9. (x % w) + (y % w) >= w
  BY DEF Counted, CarriesInto
<1> HIDE DEF x, y, w
<1> QED BY <1>2, <1>6, <1>7, <1>8, <1>9

----------------------------------------------------------------------------
(* The lengths.                                                            *)

LEMMA DoneFacts ==
    ASSUME Layout, loop_pc = "done"
    PROVE  /\ Phase = "done" /\ Value = Number(arrays.dst) /\ Number(arrays.dst) \in Nat
           /\ IsArray(arrays.dst, wcount(arrays.dst)) /\ wcount(arrays.dst) \in Nat
           /\ msw \in 0 .. (wcount(arrays.dst) - 1) /\ msw \in Nat
           /\ msw \in 0 .. (MaxWords - 1) /\ msw \in 0..MaxPower /\ msw + 1 \in 0..MaxPower
           /\ Weight[msw] \in Nat /\ Weight[msw + 1] \in Nat
<1>1. Phase = "done" /\ Target = "dst"
  BY DEF Phase, Target
<1>2. Value = Number(arrays.dst) /\ Number(arrays.dst) \in Nat
  BY <1>1, ValueAtRest
<1>3. msw \in 0 .. (MaxWords - 1) /\ msw \in 0..MaxPower /\ msw + 1 \in 0..MaxPower
  BY IndexBounds, SizeAssumption
<1>4. Weight[msw] \in Nat /\ Weight[msw + 1] \in Nat
  BY <1>3, WeightFacts
<1> QED BY <1>1, <1>2, <1>3, <1>4, LayoutFacts DEF Layout, Sizes

LEMMA NumeralLength ==
    ASSUME LoopIInv, Reaches, loop_pc = "done", op = "init"
    PROVE  msw + 1 = WordsOf(Number(arrays.dst))
<1>1. msw = 0 \/ Weight[msw] <= Number(arrays.dst)
  BY DoneFacts DEF LoopIInv, Reaches, InitTop, Reached
<1>2. Number(arrays.dst) < Weight[msw + 1]
  <2>1. ZeroAbove(arrays.dst, msw)
    BY DoneFacts DEF LoopIInv, Tops
  <2> QED BY <2>1, DoneFacts, TopLow DEF LoopIInv
<1> QED BY <1>1, <1>2, DoneFacts, WordsOfTop DEF LoopIInv

LEMMA DifferenceLength ==
    ASSUME LoopIInv, Bounds, Reaches, loop_pc = "done", op = "sub"
    PROVE  msw + 1 = WordsOf(Number(arrays.dst))
<1>1. row > 0
  <2>1. row = wcount(b) /\ wcount(b) \in Nat \ {0}
    BY DoneFacts, LayoutFacts DEF LoopIInv, Bounds, Rows
  <2> QED BY <2>1
<1>2. msw = 0 \/ arrays.dst[msw] # 0
  BY <1>1, DoneFacts DEF LoopIInv, Reaches, SubTop
<1>3. msw = 0 \/ Weight[msw] <= Number(arrays.dst)
  <2> SUFFICES ASSUME arrays.dst[msw] # 0 PROVE Weight[msw] <= Number(arrays.dst)
    BY <1>2
  <2>1. arrays.dst[msw] \in Nat /\ Weight[msw] \in Nat /\ Number(arrays.dst) \in Nat
    BY DoneFacts, ArrayFacts DEF LoopIInv
  <2>2. arrays.dst[msw] * Weight[msw] <= Number(arrays.dst)
    BY DoneFacts, TermBelow DEF LoopIInv
  <2>3. \A x, y \in Nat : x # 0 => x * y >= y
    OBVIOUS
  <2>4. arrays.dst[msw] * Weight[msw] >= Weight[msw] /\ arrays.dst[msw] * Weight[msw] \in Nat
    BY <2>1, <2>3
  <2> QED BY <2>1, <2>2, <2>4
<1>4. Number(arrays.dst) < Weight[msw + 1]
  BY DoneFacts DEF LoopIInv, Tops
<1> QED BY <1>3, <1>4, DoneFacts, WordsOfTop DEF LoopIInv

LEMMA ProductLength ==
    ASSUME LoopIInv, Bounds, Reaches, loop_pc = "done", op = "mul"
    PROVE  msw + 1 = ProductLen(Number(arrays.dst), wcount(a) + wcount(b))
<1> DEFINE n == wcount(a) + wcount(b)
           x == Number(arrays.dst)
<1>1. /\ n = wcount(arrays.dst) /\ n \in Nat /\ row = wcount(b)
      /\ wcount(a) \in Nat /\ wcount(b) \in Nat
  BY DoneFacts, MulFacts DEF LoopIInv, Bounds, Rows
<1>2. msw < n - 1 \/ Weight[msw] <= x
  BY <1>1, DoneFacts DEF LoopIInv, Reaches, MulTop, DstReached, DstValue
<1>3. msw + 2 >= n /\ msw <= n - 1 /\ msw \in Nat
  BY <1>1, DoneFacts DEF LoopIInv, Reaches, MulTop
<1>4. x < Weight[msw + 1] /\ x \in Nat
  <2>1. ZeroAbove(arrays.dst, msw)
    BY DoneFacts DEF LoopIInv, Tops
  <2> QED BY <2>1, DoneFacts, TopLow DEF LoopIInv
<1>5. Weight[msw] \in Nat /\ Weight[msw + 1] \in Nat
  BY DoneFacts DEF LoopIInv
<1> HIDE DEF n, x
<1>6. CASE msw = n - 1
  BY <1>1, <1>2, <1>4, <1>5, <1>6 DEF ProductLen, n, x
<1>7. CASE msw = n - 2
  <2>1. n - 1 = msw + 1
    BY <1>1, <1>3, <1>7
  <2>2. ~(x >= Weight[n - 1])
    BY <1>4, <1>5, <2>1
  <2> QED BY <2>1, <2>2 DEF ProductLen, n, x
<1> QED BY <1>1, <1>3, <1>6, <1>7

LEMMA SumLength ==
    ASSUME LoopIInv, Bounds, Reaches, loop_pc = "done", op = "add"
    PROVE  msw + 1 = SumLen(Number(a), wcount(a) - 1, Number(b), wcount(b))
<1> DEFINE n == wcount(a)
           C == CarriesInto(Number(a), Number(b), n)
           S == {n - 2, wcount(b) - 1} \cup C
<1>1. /\ n \in Nat /\ n >= 2 /\ wcount(b) \in Nat \ {0} /\ wcount(b) <= n
      /\ row = wcount(b)
  BY DoneFacts, AddFacts, FinishedSum, LayoutFacts DEF LoopIInv, Bounds, Rows
<1>2. C \subseteq 1..n /\ \A k \in C : k <= msw
  <2>1. C \subseteq 1..n
    BY DEF CarriesInto
  <2>2. ASSUME NEW k \in C PROVE k <= msw
    <3>1. k \in 1 .. wcount(a) /\ Counted(k)
      BY <2>1, <2>2 DEF Counted
    <3> QED BY <3>1, NothingCountedAbove DEF LoopIInv, Reaches
  <2> QED BY <2>1, <2>2
<1>3. /\ n <= msw + 2 /\ wcount(b) <= msw + 1 /\ msw \in Nat
      /\ msw = n - 2 \/ msw < wcount(b) \/ msw \in C
  BY <1>1, DoneFacts DEF LoopIInv, Reaches, AddTop, Counted
<1> HIDE DEF n, C
<1>4. S \subseteq 0..n /\ S # {} /\ (\A k \in S : k <= msw) /\ msw \in S
  <2>1. n - 2 \in 0..n /\ wcount(b) - 1 \in 0..n /\ n - 2 <= msw /\ wcount(b) - 1 <= msw
    BY <1>1, <1>3
  <2>2. msw < wcount(b) => msw = wcount(b) - 1
    BY <1>1, <1>3
  <2>3. 1..n \subseteq 0..n
    OBVIOUS
  <2> QED BY <1>2, <1>3, <2>1, <2>2, <2>3
<1>5. Max(S) = msw
  <2>1. Max(S) \in S /\ Max(S) >= msw /\ Max(S) \in 0..n
    BY <1>1, <1>4, MaxFact
  <2> HIDE DEF S
  <2> QED BY <1>1, <1>3, <1>4, <2>1
<1>6. (n - 1) - 1 = n - 2 /\ required_capacity(n - 1) = n
  BY <1>1 DEF required_capacity
<1>7. SumLen(Number(a), n - 1, Number(b), wcount(b)) = 1 + Max(S)
  BY <1>6 DEF SumLen, C
<1> QED BY <1>3, <1>5, <1>7 DEF n

\* The length a finished loop reports is the one BnNumbers gives, for every word
\* size and every length: no significant word is cut off, and leading zero words
\* stay only where BnNumbers says (bignum.c:263-291, 334-359, 431-457, 762-798).
THEOREM LoopLengthsAreExact == WordsSpec => []LengthsAreExact
<1>1. LoopIInv /\ Bounds /\ Reaches => LengthsAreExact
  <2> SUFFICES ASSUME LoopIInv, Bounds, Reaches, loop_pc = "done" PROVE LengthsAreExact
    BY DEF LengthsAreExact
  <2>1. op \in {"add", "sub", "mul", "init"}
    BY LayoutFacts DEF LoopIInv
  <2>2. CASE op = "add"
    BY <2>2, SumLength DEF LengthsAreExact
  <2>3. CASE op = "sub"
    BY <2>3, DifferenceLength DEF LengthsAreExact, DifferenceLen
  <2>4. CASE op = "mul"
    BY <2>4, ProductLength DEF LengthsAreExact
  <2>5. CASE op = "init"
    BY <2>5, NumeralLength DEF LengthsAreExact
  <2> QED BY <2>1, <2>2, <2>3, <2>4, <2>5
<1> QED BY <1>1, LoopInvariance, BoundsHold, ReachesHold, PTL

----------------------------------------------------------------------------
(* bn_tostring.                                                            *)

\* The digits written so far, and those there is room for.
Count == last_idx - first
Capacity == get_slen_from_blen(wcount(words), radix)

\* The object printed is the loop's result, and the scratch copy has its size.
TextLayout ==
    /\ text_pc = "idle" =>
          msw_idx = 0 /\ i = -1 /\ remainder = 0 /\ last_idx = 0 /\ heap = {}
    /\ text_pc # "idle" =>
          /\ loop_pc = "done" /\ words = Result
          /\ wcount(words) \in 1..MaxWords /\ IsArray(words, wcount(words))
          /\ negative \in BOOLEAN /\ radix \in Radixes
          /\ IsArray(buf, wcount(words))
          /\ msw_idx \in -1 .. (wcount(words) - 1)
          /\ remainder \in 0 .. (radix - 1)
          /\ last_idx \in Nat /\ i \in -1..MaxPower

\* What is allocated when.
Blocks ==
    /\ text_pc \in {"idle", "alloc"} => heap = {}
    /\ text_pc = "copy" => heap = {"str"}
    /\ text_pc \in {"digit", "divide", "reverse"} => heap = {"str", "buf"}
    /\ text_pc = "done" => heap = IF ret = "OK" THEN {"str"} ELSE {}
    /\ text_pc \in {"idle", "alloc", "copy", "digit", "divide", "reverse", "done"}
    /\ ret = "OK" => text_pc = "done"

\* The string has the size asked for, and holds the sign and digits.
Characters ==
    /\ text_pc \in {"alloc", "copy"} => buf = words
    /\ text_pc = "copy" => DOMAIN str = 0..slen
    /\ text_pc \in {"digit", "divide", "reverse"} \/ ret = "OK" =>
          /\ DOMAIN str = 0..slen /\ first <= last_idx
          /\ \A k \in first .. (last_idx - 1) : str[k] \in 0 .. (radix - 1)
          /\ negative => str[0] = Minus

\* What the scratch copy held when the division of its words began: the words
\* above i hold quotients now.
Undivided ==
    (Number(buf) - Low(buf, i + 1)) * radix + Low(buf, i + 1) + remainder * Weight[i + 1]

\* A word that is not zero is left as long as there are digits to come, so that
\* there are no more of them than there is room for.
Divides ==
    /\ text_pc = "digit" =>
          /\ Number(words) = Number(buf) * Power[radix][Count] + Written /\ Written \in Nat
          /\ ZeroAbove(buf, msw_idx)
          /\ Count <= Capacity
          /\ Count = 0 => msw_idx >= 0
          /\ Count > 0 /\ msw_idx >= 0 => buf[msw_idx] # 0
          /\ Count > 1 /\ msw_idx < 0 => str[last_idx - 1] # 0
    /\ text_pc = "divide" =>
          /\ Number(words) = Undivided * Power[radix][Count] + Written /\ Written \in Nat
          /\ ZeroAbove(buf, msw_idx)
          /\ Count < Capacity
          /\ i <= msw_idx
          /\ i < msw_idx => buf[msw_idx] # 0
          /\ Count > 0 => Undivided >= 1

\* What digit k counts for when those below i have been swapped with those at the
\* other end.
Exponent(k) == IF k < i \/ k > ptr_last_idx - i THEN ptr_last_idx - k ELSE k
Mixed ==
    SumFunction([k \in first .. (last_idx - 1) |-> str[k] * Power[radix][Exponent(k - first)]])

Reverses ==
    text_pc = "reverse" \/ ret = "OK" =>
       /\ first < last_idx /\ Count <= Capacity
       /\ i \in Nat /\ (i > 0 => i - 1 <= ptr_last_idx \div 2)
       /\ str[last_idx] = Terminator
       /\ Number(words) = Mixed
       /\ Count = 1 \/ str[IF i = 0 THEN last_idx - 1 ELSE first] # 0
       /\ text_pc = "done" => i > ptr_last_idx \div 2

TextIInv == TextLayout /\ Blocks /\ Characters /\ Divides /\ Reverses

LEMMA TextFacts ==
    ASSUME TextLayout, text_pc # "idle"
    PROVE  /\ wcount(words) \in 1..MaxWords /\ wcount(words) \in Nat /\ wcount(words) \in 0..MaxPower
           /\ IsArray(buf, wcount(words)) /\ IsArray(words, wcount(words))
           /\ DOMAIN buf = 0 .. (wcount(words) - 1)
           /\ \A k \in DOMAIN buf : buf[k] \in Word /\ buf[k] \in Nat /\ buf[k] < Base
           /\ radix \in Nat /\ radix >= 2 /\ radix <= Base /\ Base \in Nat /\ radix \in Radixes
           /\ first \in {0, 1} /\ (negative => first = 1) /\ last_idx \in Nat
           /\ last_idx = first + Count /\ Count \in Int
           /\ Capacity \in 1..MaxPower /\ Capacity \in Nat /\ MaxPower \in Nat
           /\ Weight[wcount(words)] <= Power[radix][Capacity]
           /\ slen = Capacity + first
<1>1. /\ wcount(words) \in 1..MaxWords /\ IsArray(buf, wcount(words)) /\ IsArray(words, wcount(words))
      /\ radix \in Radixes /\ negative \in BOOLEAN /\ last_idx \in Nat
  BY DEF TextLayout
<1>2. /\ radix \in Nat /\ radix >= 2 /\ radix <= Base /\ Base \in Nat
  BY <1>1, SizeAssumption, TextAssumption
<1>3. wcount(words) \in Nat /\ wcount(words) \in 0..MaxPower /\ MaxPower \in Nat
  <2> DEFINE n == wcount(words)
  <2>1. n \in 1..MaxWords /\ MaxPower \in Nat /\ MaxWords \in 1..MaxPower
    BY <1>1, WeightFacts
  <2> HIDE DEF n
  <2>2. n \in Nat /\ n \in 0..MaxPower
    BY ONLY <2>1
  <2> QED BY <2>1, <2>2 DEF n
<1>4. /\ DOMAIN buf = 0 .. (wcount(words) - 1)
      /\ \A k \in DOMAIN buf : buf[k] \in Word /\ buf[k] \in Nat /\ buf[k] < Base
  BY <1>1, ArrayFacts
<1>5. first \in {0, 1} /\ (negative => first = 1) /\ (~negative => first = 0)
  BY <1>1 DEF first
<1>6. last_idx = first + Count /\ Count \in Int
  BY <1>1, <1>5 DEF Count
<1>7. /\ Capacity \in 1..MaxPower /\ Capacity \in Nat
      /\ Weight[wcount(words)] <= Power[radix][Capacity]
  <2> DEFINE S == {n \in 1..MaxPower : Power[radix][n] >= Weight[wcount(words)]}
  <2>1. S \subseteq Nat
    OBVIOUS
  <2>2. MaxPower \in S
    <3>1. Power[radix][MaxPower] >= Weight[MaxWords]
      BY <1>1, TextAssumption
    <3>2. Weight[wcount(words)] <= Weight[MaxWords]
      <4>1. MaxWords \in 0..MaxPower /\ wcount(words) <= MaxWords
        BY <1>1, WeightFacts
      <4> QED BY <1>3, <4>1, WeightMonotone
    <3>3. /\ Power[radix][MaxPower] \in Nat /\ Weight[MaxWords] \in Nat
          /\ Weight[wcount(words)] \in Nat /\ MaxPower \in 1..MaxPower
      <4>1. MaxWords \in 0..MaxPower /\ MaxPower \in 0..MaxPower /\ MaxPower \in 1..MaxPower
        BY WeightFacts
      <4> QED BY <1>1, <1>3, <4>1, WeightFacts, PowerFacts
    <3> QED BY <3>1, <3>2, <3>3
  <2>3. Min(S) \in S
    BY <2>1, <2>2, MinFact
  <2>4. Capacity = Min(S)
    BY DEF Capacity, get_slen_from_blen
  <2> QED BY <2>3, <2>4
<1>8. slen = Capacity + first
  BY <1>5 DEF slen, Capacity, first
<1> QED BY <1>1, <1>2, <1>3, <1>4, <1>5, <1>6, <1>7, <1>8

\* A finished loop takes no step.
LEMMA FinishedStays ==
    ASSUME loop_pc = "done"
    PROVE  ~LoopNext
<1> QED BY DEF LoopNext, StartRow, EndRows, Propagate, EndChain, CountAdded, Trim, Scale,
       CountScaled, EndScale, Accumulate, CountAccumulated, CountDigit

LEMMA TextSame ==
    ASSUME TextIInv, UNCHANGED text_vars, UNCHANGED loop_vars \/ (LoopNext /\ text_pc = "idle")
    PROVE  TextIInv'
<1>1. /\ UNCHANGED <<words, negative, radix, heap, buf, msw_idx, i, remainder,
                     str, last_idx, ret, len, text_pc>>
  BY DEF text_vars
<1>2. text_pc = "idle" \/ UNCHANGED <<loop_pc, msw, arrays>>
  BY DEF loop_vars
<1>3. first' = first /\ Count' = Count /\ Capacity' = Capacity /\ slen' = slen
      /\ ptr_last_idx' = ptr_last_idx
  BY <1>1 DEF first, Count, Capacity, slen, ptr_last_idx
<1>4. TextLayout'
  BY <1>1, <1>2 DEF TextIInv, TextLayout, Result
<1>5. Blocks' /\ Characters'
  BY <1>1, <1>3 DEF TextIInv, Blocks, Characters, Minus
<1>6. Written' = Written /\ Undivided' = Undivided /\ Mixed' = Mixed
  BY <1>1, <1>3 DEF Written, Undivided, Mixed, Exponent
<1>7. Divides'
  <2>1. ZeroAbove(buf, msw_idx)' <=> ZeroAbove(buf, msw_idx)
    BY <1>1 DEF ZeroAbove
  <2> QED BY <1>1, <1>3, <1>6, <2>1 DEF TextIInv, Divides
<1>8. Reverses'
  BY <1>1, <1>3, <1>6 DEF TextIInv, Reverses, Terminator
<1> QED BY <1>4, <1>5, <1>7, <1>8 DEF TextIInv

LEMMA ResultFacts ==
    ASSUME Layout, loop_pc = "done"
    PROVE  /\ IsArray(Result, wcount(Result)) /\ wcount(Result) \in 1..MaxWords
           /\ wcount(Result) = msw + 1
           /\ Number(Result) = Low(arrays.dst, msw + 1)
<1>1. /\ msw + 1 \in 0..MaxPower /\ msw + 1 \in 1..MaxWords /\ msw \in Nat
  BY IndexBounds
<1>2. /\ Result = [k \in 0 .. ((msw + 1) - 1) |-> arrays.dst[k]]
  BY <1>1 DEF Result
<1>3. \A k \in 0 .. ((msw + 1) - 1) : arrays.dst[k] \in Word
  <2>1. \A k \in 0 .. (wcount(arrays.dst) - 1) : arrays.dst[k] \in Word
    BY DoneFacts, ArrayFacts
  <2>2. msw < wcount(arrays.dst) /\ wcount(arrays.dst) \in Nat
    BY DoneFacts
  <2> QED BY <1>1, <2>1, <2>2
<1>4. IsArray(Result, msw + 1)
  BY <1>1, <1>2, <1>3 DEF IsArray, Arrays
<1>5. wcount(Result) = msw + 1
  BY <1>4, ArrayFacts
<1>6. Number(Result) = Low(Result, msw + 1)
  BY <1>4, NumberIsLow
<1>7. Low(Result, msw + 1) = Low(arrays.dst, msw + 1)
  <2>1. \A k \in 0 .. ((msw + 1) - 1) : Result[k] = arrays.dst[k]
    BY <1>2
  <2> QED BY <2>1, LowDepends
<1> QED BY <1>1, <1>4, <1>5, <1>6, <1>7

LEMMA TextPrintResult ==
    ASSUME Layout, TextIInv, PrintResult
    PROVE  TextIInv'
<1>1. /\ text_pc = "idle" /\ text_pc' = "alloc" /\ words' = Result /\ buf' = Result
      /\ negative' \in BOOLEAN /\ radix' \in Radixes /\ loop_pc = "done"
      /\ UNCHANGED <<heap, msw_idx, i, remainder, str, last_idx, ret, len>>
      /\ UNCHANGED <<loop_pc, msw, arrays>>
  BY DEF PrintResult, bn_tostring, loop_vars
<1>2. msw_idx = 0 /\ i = -1 /\ remainder = 0 /\ last_idx = 0 /\ heap = {}
  BY <1>1 DEF TextIInv, TextLayout
<1>3. TextLayout'
  <2>1. Result' = Result /\ MaxPower \in Nat
    BY <1>1, WeightFacts DEF Result
  <2>2. radix' \in Nat /\ radix' >= 2 /\ wcount(Result) \in Nat /\ wcount(Result) >= 1
    BY <1>1, ResultFacts, SizeAssumption
  <2>3. 0 \in -1 .. (wcount(Result) - 1) /\ 0 \in 0 .. (radix' - 1) /\ -1 \in -1..MaxPower
    <3>1. 0 \in -1 .. (wcount(Result) - 1)
      BY ONLY <2>2
    <3>2. 0 \in 0 .. (radix' - 1)
      <4>1. \A r \in Nat : r >= 2 => 0 \in 0 .. (r - 1)
        OBVIOUS
      <4> QED BY ONLY <2>2, <4>1, Zenon
    <3>3. MaxPower \in Nat => -1 \in -1..MaxPower
      OBVIOUS
    <3> QED BY <2>1, <3>1, <3>2, <3>3
  <2> QED BY <1>1, <1>2, <2>1, <2>3, ResultFacts DEF TextLayout
<1>4. ret # "OK"
  BY <1>1 DEF TextIInv, Blocks
<1> QED BY <1>1, <1>2, <1>3, <1>4 DEF TextIInv, Blocks, Characters, Divides, Reverses

\* Most steps leave the object, the scratch copy and the counters as they were.
LEMMA TextLayoutStays ==
    ASSUME TextLayout, text_pc # "idle", text_pc' # "idle", UNCHANGED object, UNCHANGED loop_vars,
           IsArray(buf, wcount(words))', msw_idx' \in -1 .. (wcount(words) - 1),
           remainder' \in 0 .. (radix - 1), last_idx' \in Nat, i' \in -1..MaxPower
    PROVE  TextLayout' /\ first' = first /\ slen' = slen /\ Capacity' = Capacity
<1>1. UNCHANGED <<words, negative, radix, loop_pc, msw, arrays>>
  BY DEF object, loop_vars
<1>2. Result' = Result
  BY <1>1 DEF Result
<1>3. TextLayout'
  BY <1>1, <1>2 DEF TextLayout
<1> QED BY <1>1, <1>3 DEF first, slen, Capacity

LEMMA TextAlloc ==
    ASSUME TextIInv, Alloc, UNCHANGED loop_vars
    PROVE  TextIInv'
<1>1. /\ text_pc = "alloc" /\ UNCHANGED <<object, buf, msw_idx, i, remainder, len>>
      /\ last_idx' = last_idx
      /\ \/ ret' = "NO_MEMORY" /\ text_pc' = "done" /\ heap' = heap
         \/ /\ heap' = {"str"} /\ text_pc' = "copy"
            /\ str' = [k \in 0..slen |-> Junk] /\ ret' = ret
  BY DEF Alloc
<1>2. /\ msw_idx \in -1 .. (wcount(words) - 1) /\ IsArray(buf, wcount(words))
      /\ remainder \in 0 .. (radix - 1) /\ last_idx \in Nat /\ i \in -1..MaxPower
      /\ heap = {} /\ ret # "OK" /\ buf = words
  BY <1>1 DEF TextIInv, TextLayout, Blocks, Characters
<1>3. TextLayout' /\ slen' = slen
  BY <1>1, <1>2, TextLayoutStays DEF TextIInv, object
<1> QED BY <1>1, <1>2, <1>3 DEF TextIInv, Blocks, Characters, Divides, Reverses, object

LEMMA TextCopy ==
    ASSUME TextIInv, Copy, UNCHANGED loop_vars
    PROVE  TextIInv'
<1>1. /\ text_pc = "copy" /\ UNCHANGED <<object, buf, i, remainder, len>>
      /\ UNCHANGED <<words, negative, radix>>
  BY DEF Copy, object
<1>2. /\ msw_idx \in -1 .. (wcount(words) - 1) /\ IsArray(buf, wcount(words))
      /\ remainder \in 0 .. (radix - 1) /\ last_idx \in Nat /\ i \in -1..MaxPower
      /\ heap = {"str"} /\ ret # "OK" /\ buf = words /\ DOMAIN str = 0..slen
  BY <1>1 DEF TextIInv, TextLayout, Blocks, Characters
<1>3. CASE /\ heap' = heap \ {"str"} /\ ret' = "NO_MEMORY" /\ text_pc' = "done"
           /\ UNCHANGED <<str, last_idx, msw_idx>>
  <2>1. TextLayout'
    BY <1>1, <1>2, <1>3, TextLayoutStays DEF TextIInv
  <2> QED BY <1>1, <1>2, <1>3, <2>1 DEF TextIInv, Blocks, Characters, Divides, Reverses
<1>4. CASE /\ heap' = heap \cup {"buf"} /\ text_pc' = "digit"
           /\ str' = IF negative THEN [str EXCEPT ![0] = Minus] ELSE str
           /\ last_idx' = first
           /\ msw_idx' = Max({0} \cup {k \in DOMAIN buf : buf[k] # 0})
           /\ UNCHANGED ret
  <2> DEFINE n == wcount(words)
             S == {0} \cup {k \in DOMAIN buf : buf[k] # 0}
  <2>1. /\ n \in Nat /\ n >= 1 /\ DOMAIN buf = 0 .. (n - 1) /\ first \in Nat /\ radix \in Radixes
        /\ n - 1 \in Nat /\ 0 \in 0..slen
    BY <1>1, TextFacts DEF TextIInv
  <2>2. msw_idx' \in 0 .. (n - 1) /\ \A k \in S : msw_idx' >= k
    <3> HIDE DEF n
    <3>1. S \subseteq 0 .. (n - 1) /\ S # {}
      BY <2>1
    <3>2. Max(S) \in S /\ \A k \in S : Max(S) >= k
      BY <2>1, <3>1, MaxFact
    <3> QED BY <1>4, <3>1, <3>2
  <2>3. /\ TextLayout' /\ first' = first /\ slen' = slen /\ Capacity' = Capacity
    <3>1. msw_idx' \in -1 .. (n - 1)
      BY <2>1, <2>2
    <3> QED BY <1>1, <1>2, <1>4, <2>1, <3>1, TextLayoutStays DEF TextIInv
  <2>4. Count' = 0 /\ Written' = 0 /\ Power[radix][Count'] = 1 /\ Count' <= Capacity'
    <3>1. Count' = 0
      BY <1>4, <2>1, <2>3 DEF Count
    <3>2. Written' = 0
      <4> DEFINE f == [k \in first' .. (last_idx' - 1) |-> str'[k] * Power[radix'][k - first']]
      <4>1. DOMAIN f = {}
        BY <1>4, <2>1, <2>3
      <4>2. Written' = SumFunction(f)
        BY DEF Written
      <4> HIDE DEF f
      <4> QED BY <4>1, <4>2, SumEmpty
    <3>3. Capacity' \in Nat
      BY <1>1, <2>3, TextFacts DEF TextIInv
    <3> QED BY <2>1, <3>1, <3>2, <3>3, PowerFacts
  <2>5. Number(words)' = Number(buf)' * Power[radix'][Count'] + Written'
    <3>1. Number(words) \in Nat
      BY <1>1, TextFacts, NumberType DEF TextIInv
    <3> QED BY <1>1, <1>2, <2>4, <3>1
  <2>6. ZeroAbove(buf, msw_idx)'
    <3> SUFFICES ASSUME NEW k \in DOMAIN buf, k > msw_idx' PROVE buf[k] = 0
      BY <1>1 DEF ZeroAbove
    <3>1. k \in Nat /\ msw_idx' \in Nat
      BY <2>1, <2>2
    <3> QED BY <2>2, <3>1
  <2>7. Characters'
    <3>1. DOMAIN str' = 0..slen /\ (negative => str'[0] = Minus)
      BY <1>2, <1>4, <2>1
    <3> QED BY <1>1, <1>2, <1>4, <2>1, <2>3, <3>1 DEF Characters, Minus
  <2>8. Divides'
    BY <1>1, <1>4, <2>2, <2>4, <2>5, <2>6 DEF Divides
  <2> QED BY <1>2, <1>4, <2>3, <2>7, <2>8 DEF TextIInv, Blocks, Reverses
<1> QED BY <1>3, <1>4 DEF Copy

\* A word that is not zero, and none that is not.
LEMMA SomeWord ==
    ASSUME TextLayout, text_pc # "idle", NEW k \in DOMAIN buf, buf[k] # 0
    PROVE  Number(buf) \in Nat /\ Number(buf) >= 1
<1> DEFINE n == wcount(words)
<1>1. IsArray(buf, n) /\ k \in 0 .. (n - 1) /\ buf[k] \in Nat /\ n \in 0..MaxPower
  BY TextFacts
<1>2. buf[k] * Weight[k] <= Number(buf) /\ Number(buf) \in Nat
  <2> HIDE DEF n
  <2> QED BY ONLY <1>1, TermBelow
<1>3. Weight[k] \in Nat \ {0}
  BY <1>1, ArrayFacts, WeightFacts
<1>4. \A x, y \in Nat \ {0} : x * y >= 1 /\ x * y \in Nat
  OBVIOUS
<1>5. buf[k] * Weight[k] >= 1 /\ buf[k] * Weight[k] \in Nat
  BY <1>1, <1>3, <1>4
<1> QED BY <1>2, <1>5

LEMMA NoWord ==
    ASSUME TextLayout, text_pc # "idle", ZeroAbove(buf, -1)
    PROVE  Number(buf) = 0
<1> DEFINE n == wcount(words)
<1>1. IsArray(buf, n) /\ n \in Nat /\ DOMAIN buf = 0 .. (n - 1)
  BY TextFacts
<1>2. \A k \in 0 .. (n - 1) : buf[k] = 0
  BY <1>1 DEF ZeroAbove
<1>3. Low(buf, n) = Low(buf, 0)
  <2>1. 0 \in 0..n
    BY <1>1
  <2> HIDE DEF n
  <2> QED BY <1>1, <1>2, <2>1, LowAbove
<1> QED BY <1>1, <1>3, NumberIsLow, LowOfNone

LEMMA TextStartDigit ==
    ASSUME TextIInv, StartDigit, UNCHANGED loop_vars
    PROVE  TextIInv'
<1>1. /\ text_pc = "digit" /\ msw_idx >= 0
      /\ i' = msw_idx /\ remainder' = 0 /\ text_pc' = "divide"
      /\ UNCHANGED <<object, heap, buf, msw_idx, str, last_idx, ret, len>>
      /\ UNCHANGED <<words, negative, radix>>
  BY DEF StartDigit, object
<1>2. /\ msw_idx \in -1 .. (wcount(words) - 1) /\ IsArray(buf, wcount(words))
      /\ last_idx \in Nat /\ heap = {"str", "buf"} /\ ret # "OK"
  BY <1>1 DEF TextIInv, TextLayout, Blocks
<1> USE TextFacts
<1> DEFINE n == wcount(words)
<1>3. n \in Nat /\ n <= MaxPower /\ msw_idx \in 0 .. (n - 1) /\ msw_idx \in Nat
      /\ msw_idx \in DOMAIN buf
  <2>1. n \in Nat /\ n \in 0..MaxPower /\ DOMAIN buf = 0 .. (n - 1)
    BY <1>1 DEF TextIInv
  <2> QED BY <1>1, <1>2, <2>1
<1>4. TextLayout' /\ first' = first /\ slen' = slen /\ Capacity' = Capacity
  <2>1. 0 \in 0 .. (radix - 1) /\ msw_idx \in -1..MaxPower
    <3>1. radix \in Nat /\ radix >= 2 /\ MaxPower \in Nat
      BY <1>1 DEF TextIInv
    <3>2. msw_idx <= MaxPower
      BY <1>3, <3>1
    <3> QED BY <1>3, <3>1, <3>2
  <2> QED BY <1>1, <1>2, <2>1, TextLayoutStays DEF TextIInv
<1>5. Characters'
  BY <1>1, <1>4 DEF TextIInv, Characters, Minus
<1>6. Count' = Count /\ Written' = Written /\ Count \in Nat
  BY <1>1, <1>4 DEF Count, Written, TextIInv, Characters
<1>7. Undivided' = Number(buf)
  <2>1. Low(buf, msw_idx + 1) = Number(buf) /\ Number(buf) \in Nat
    <3>1. ZeroAbove(buf, msw_idx)
      BY <1>1 DEF TextIInv, Divides
    <3> HIDE DEF n
    <3> QED BY <1>2, <1>3, <3>1, TopLow, NumberType DEF n
  <2>2. msw_idx + 1 \in 0..MaxPower /\ Weight[msw_idx + 1] \in Nat /\ radix \in Nat
    <3>1. MaxPower \in Nat
      BY WeightFacts
    <3>2. msw_idx + 1 \in 0..MaxPower
      <4> HIDE DEF n
      <4> QED BY <1>3, <3>1
    <3> QED BY <1>1, <3>2, WeightFacts DEF TextIInv
  <2>3. Undivided' = (Number(buf) - Low(buf, msw_idx + 1)) * radix + Low(buf, msw_idx + 1)
                     + 0 * Weight[msw_idx + 1]
    BY <1>1 DEF Undivided
  <2>4. \A x, y, r \in Nat : (x - x) * r + x + 0 * y = x
    OBVIOUS
  <2> QED BY <2>1, <2>2, <2>3, <2>4
<1>8. Count > 0 => Number(buf) >= 1
  <2> SUFFICES ASSUME Count > 0 PROVE Number(buf) >= 1
    OBVIOUS
  <2>1. buf[msw_idx] # 0
    BY <1>1 DEF TextIInv, Divides
  <2> QED BY <1>1, <1>3, <2>1, SomeWord DEF TextIInv
<1>9. Count < Capacity
  <2>1. CASE Count = 0
    BY <1>1, <2>1 DEF TextIInv
  <2>2. CASE Count # 0
    <3> DEFINE p == Power[radix][Count]
               q == Power[radix][Capacity]
    <3>1. Number(buf) >= 1 /\ Number(buf) \in Nat
      BY <1>1, <1>2, <1>6, <1>8, <2>2, NumberType
    <3>2. Count <= Capacity /\ Capacity \in Nat /\ Capacity \in 1..MaxPower
          /\ Count \in 0..MaxPower
      <4>1. /\ Count <= Capacity /\ Capacity \in Nat /\ Capacity \in 1..MaxPower
            /\ MaxPower \in Nat
        BY <1>1 DEF TextIInv, Divides
      <4> QED BY <1>6, <4>1
    <3>3. p \in Nat /\ q \in Nat
      <4>1. Capacity \in 0..MaxPower /\ radix \in Radixes
        BY <1>1, <3>2 DEF TextIInv
      <4> QED BY <3>2, <4>1, PowerFacts
    <3>4. Number(words) = Number(buf) * p + Written /\ Written \in Nat
      BY <1>1 DEF TextIInv, Divides
    <3>5. Number(words) < q /\ Number(words) \in Nat
      <4>1. IsArray(words, n) /\ Weight[n] <= q /\ n \in 0..MaxPower
        BY <1>1 DEF TextIInv
      <4> HIDE DEF n, q
      <4>2. Weight[n] \in Nat
        BY <4>1, WeightFacts
      <4> QED BY <3>3, <4>1, <4>2, NumberType
    <3>6. Number(words) >= p
      <4> HIDE DEF p
      <4>1. \A x, y \in Nat : x >= 1 => x * y >= y /\ x * y \in Nat
        OBVIOUS
      <4>2. Number(buf) * p >= p /\ Number(buf) * p \in Nat
        BY ONLY <3>1, <3>3, <4>1
      <4> QED BY ONLY <3>3, <3>4, <4>2
    <3>7. Count # Capacity
      BY <3>3, <3>5, <3>6
    <3> QED BY <1>6, <3>2, <3>7
  <2> QED BY <2>1, <2>2
<1>10. Divides'
  <2>1. Number(words) = Number(buf) * Power[radix][Count] + Written /\ Written \in Nat
        /\ ZeroAbove(buf, msw_idx)
    BY <1>1 DEF TextIInv, Divides
  <2>2. ZeroAbove(buf, msw_idx)'
    BY <1>1, <2>1 DEF ZeroAbove
  <2>3. ~(i' < msw_idx') /\ i' <= msw_idx'
    BY <1>1, <1>3
  <2> QED BY <1>1, <1>4, <1>6, <1>7, <1>8, <1>9, <2>1, <2>2, <2>3 DEF Divides
<1> QED BY <1>1, <1>2, <1>4, <1>5, <1>10 DEF TextIInv, Blocks, Reverses

LEMMA DivideAlgebra ==
    ASSUME NEW t \in Int, NEW l \in Int, NEW x \in Int, NEW w \in Int, NEW r \in Int, NEW d \in Int,
           NEW v \in Int, NEW q \in Int, NEW s \in Int, x + r * v = q * d + s
    PROVE  ((t + (q - x) * w) - l) * d + l + s * w = (t - (l + x * w)) * d + (l + x * w) + r * (v * w)
<1>1. (x + r * v) * w = (q * d + s) * w
  OBVIOUS
<1>2. (x + r * v) * w = x * w + r * (v * w)
  OBVIOUS
<1>3. (q * d + s) * w = (q * w) * d + s * w
  OBVIOUS
<1>4. ((t + (q - x) * w) - l) * d = (t - l) * d + (q * w) * d - (x * w) * d
  OBVIOUS
<1>5. (t - (l + x * w)) * d = (t - l) * d - (x * w) * d
  OBVIOUS
<1> DEFINE A == (t - l) * d
           B == (x * w) * d
           C == (q * w) * d
           D == x * w
           E == s * w
           F == r * (v * w)
<1>6. A \in Int /\ B \in Int /\ C \in Int /\ D \in Int /\ E \in Int /\ F \in Int
  OBVIOUS
<1>7. D + F = C + E
  BY <1>1, <1>2, <1>3
<1>8. (A + C - B) + l + E = (A - B) + (l + D) + F
  <2> HIDE DEF A, B, C, D, E, F
  <2> QED BY <1>6, <1>7
<1> QED BY <1>4, <1>5, <1>8

\* The quotient of a word fits a word.
LEMMA QuotientFacts ==
    ASSUME NEW x \in Nat, NEW v \in Nat, x < v, NEW d \in Nat, d >= 2, NEW r \in 0 .. (d - 1),
           NEW dividend, dividend = x + r * v
    PROVE  /\ dividend = (dividend \div d) * d + (dividend % d)
           /\ dividend \div d \in Nat /\ dividend \div d < v
           /\ dividend % d \in 0 .. (d - 1) /\ (dividend \div d) % v = dividend \div d
<1> DEFINE q == dividend \div d
           s == dividend % d
<1>1. dividend \in Nat /\ dividend < d * v
  <2>1. r * v \in Nat
    OBVIOUS
  <2>2. r * v <= (d - 1) * v
    OBVIOUS
  <2>3. (d - 1) * v = d * v - v
    OBVIOUS
  <2> DEFINE p == r * v
             m == d * v
  <2>4. m \in Nat
    OBVIOUS
  <2>5. p \in Nat /\ p <= m - v /\ dividend = x + p
    BY <2>1, <2>2, <2>3
  <2>6. dividend \in Nat /\ dividend < m
    <3> HIDE DEF p, m
    <3> QED BY <2>4, <2>5
  <2> QED BY <2>6
<1>2. dividend = q * d + s /\ q \in Nat /\ s \in 0 .. (d - 1)
  <2>1. \A m \in Nat, k \in Nat : k >= 2 => m = (m \div k) * k + (m % k) /\ m \div k \in Nat
                                             /\ m % k \in 0 .. (k - 1)
    OBVIOUS
  <2> QED BY <1>1, <2>1
<1> HIDE DEF q, s
<1>3. q < v
  <2> SUFFICES ASSUME q >= v PROVE FALSE
    BY <1>2
  <2>1. q * d >= d * v /\ q * d \in Nat /\ d * v \in Nat
    <3>1. \A k, m, y \in Nat : k >= m => k * y >= y * m /\ k * y \in Nat /\ y * m \in Nat
      OBVIOUS
    <3> QED BY <1>2, <3>1
  <2> QED BY <1>1, <1>2, <2>1
<1>4. q % v = q
  BY <1>2, <1>3
<1> QED BY <1>1, <1>2, <1>3, <1>4 DEF q, s

LEMMA TextDivide ==
    ASSUME TextIInv, Divide, UNCHANGED loop_vars
    PROVE  TextIInv'
<1> DEFINE n == wcount(words)
           x == buf[i]
           dividend == x + remainder * Base
           q == dividend \div radix
           s == dividend % radix
           y == [buf EXCEPT ![i] = q]
<1>1. /\ text_pc = "divide" /\ text_pc' = "divide" /\ i >= 0 /\ i' = i - 1
      /\ buf' = [buf EXCEPT ![i] = q % Base] /\ remainder' = s
      /\ msw_idx' = IF i = msw_idx /\ q = 0 THEN msw_idx - 1 ELSE msw_idx
      /\ UNCHANGED <<object, heap, str, last_idx, ret, len>>
      /\ UNCHANGED <<words, negative, radix>>
  BY DEF Divide, Rest, DropsWord, object
<1>2. /\ msw_idx \in -1 .. (n - 1) /\ IsArray(buf, n) /\ remainder \in 0 .. (radix - 1)
      /\ last_idx \in Nat /\ i \in -1..MaxPower /\ heap = {"str", "buf"} /\ ret # "OK"
      /\ i <= msw_idx /\ (i < msw_idx => buf[msw_idx] # 0) /\ ZeroAbove(buf, msw_idx)
  BY <1>1 DEF TextIInv, TextLayout, Blocks, Divides
<1>3. /\ n \in Nat /\ n \in 0..MaxPower /\ DOMAIN buf = 0 .. (n - 1) /\ MaxPower \in Nat
      /\ radix \in Nat /\ radix >= 2 /\ Base \in Nat
      /\ \A k \in DOMAIN buf : buf[k] \in Nat /\ buf[k] < Base
  BY <1>1, TextFacts DEF TextIInv
<1>4. /\ i \in 0 .. (n - 1) /\ i \in Nat /\ msw_idx \in Nat /\ i \in DOMAIN buf
      /\ msw_idx \in 0 .. (n - 1) /\ i \in 0..n /\ i + 1 \in 0..n /\ i + 1 \in 0..MaxPower
      /\ i \in 0 .. (MaxPower - 1) /\ i \in 0..MaxPower
  <2>1. DOMAIN buf = 0 .. (n - 1) /\ n <= MaxPower
    BY <1>3
  <2> HIDE DEF n
  <2> QED BY <1>1, <1>2, <1>3, <2>1
<1>5. /\ dividend = q * radix + s /\ q \in Nat /\ q < Base /\ s \in 0 .. (radix - 1) /\ q % Base = q
      /\ x \in Nat /\ s \in Nat
  <2>1. x \in Nat /\ x < Base
    BY <1>3, <1>4
  <2>2. /\ dividend = q * radix + s /\ q \in Nat /\ q < Base /\ s \in 0 .. (radix - 1)
        /\ q % Base = q
    <3>1. dividend = x + remainder * Base /\ remainder \in 0 .. (radix - 1)
      BY <1>2
    <3>2. radix \in Nat /\ radix >= 2 /\ Base \in Nat
      BY <1>3
    <3> HIDE DEF x, dividend
    <3> QED BY ONLY <2>1, <3>1, <3>2, QuotientFacts
  <2> HIDE DEF s
  <2> QED BY <1>3, <2>1, <2>2
<1> HIDE DEF q, s, n
<1>6. buf' = y /\ q \in Word
  <2>1. q % Base = q /\ q \in Nat /\ q < Base /\ Base \in Nat
    BY <1>3, <1>5
  <2>2. buf' = [buf EXCEPT ![i] = q % Base]
    BY <1>1
  <2>3. q \in Word
    BY ONLY <2>1 DEF Word
  <2>4. buf' = y
    BY <2>1, <2>2
  <2> QED BY <2>3, <2>4
<1>7. /\ IsArray(y, n)
      /\ \A m \in 0..n : Low(y, m) = IF m <= i THEN Low(buf, m)
                                     ELSE Low(buf, m) + (q - x) * Weight[i]
  <2>1. IsArray(buf, n) /\ i \in 0 .. (n - 1) /\ q \in Word
    BY <1>2, <1>4, <1>6
  <2> QED BY ONLY <2>1, LowUpdate
<1>8. y[i] = q /\ DOMAIN y = DOMAIN buf /\ \A k \in DOMAIN buf : k # i => y[k] = buf[k]
  BY <1>3, <1>4
<1>9. TextLayout' /\ first' = first /\ slen' = slen /\ Capacity' = Capacity
  <2>1. msw_idx' \in -1 .. (n - 1) /\ i' \in -1..MaxPower
    BY <1>1, <1>2, <1>3, <1>4
  <2> QED BY <1>1, <1>2, <1>5, <1>6, <1>7, <2>1, TextLayoutStays DEF TextIInv, n
<1>10. Characters'
  BY <1>1, <1>9 DEF TextIInv, Characters, Minus
<1>11. Count' = Count /\ Written' = Written
  BY <1>1, <1>9 DEF Count, Written
<1>12. Undivided' = Undivided
  <2> DEFINE w == Weight[i]
             l == Low(buf, i)
             t == Number(buf)
  <2>1. t = Low(buf, n) /\ Number(y) = Low(y, n) /\ t \in Nat
    BY <1>2, <1>7, NumberIsLow, NumberType
  <2>2. Number(y) = t + (q - x) * w
    <3>1. n \in 0..n /\ ~(n <= i)
      BY <1>3, <1>4
    <3> QED BY <1>7, <2>1, <3>1
  <2>3. Low(y, i) = l /\ l \in Nat /\ w \in Nat
    <3>1. Low(y, i) = l
      <4>1. i \in 0..n /\ i \in Nat
        BY <1>4
      <4> HIDE DEF y, x, w
      <4> QED BY ONLY <1>7, <4>1
    <3>2. l \in Nat
      BY <1>2, <1>4, LowFacts
    <3>3. w \in Nat
      BY <1>4, WeightFacts
    <3> QED BY <3>1, <3>2, <3>3
  <2>4. Low(buf, i + 1) = l + x * w
    BY <1>2, <1>4, LowStep
  <2>5. Weight[i + 1] = Base * w
    BY <1>4, WeightFacts
  <2>6. Undivided' = (Number(y) - Low(y, i)) * radix + Low(y, i) + s * w
    <3>1. i' + 1 = i
      BY <1>1, <1>4
    <3> HIDE DEF y
    <3> QED BY <1>1, <1>6, <3>1 DEF Undivided
  <2>7. Undivided = (t - (l + x * w)) * radix + (l + x * w) + remainder * (Base * w)
    BY <2>4, <2>5 DEF Undivided
  <2>8. ((t + (q - x) * w) - l) * radix + l + s * w
           = (t - (l + x * w)) * radix + (l + x * w) + remainder * (Base * w)
    <3>1. x + remainder * Base = q * radix + s
      BY <1>5
    <3>2. /\ t \in Int /\ l \in Int /\ x \in Int /\ w \in Int /\ remainder \in Int /\ radix \in Int
          /\ Base \in Int /\ q \in Int /\ s \in Int
      BY <1>2, <1>3, <1>5, <2>1, <2>3
    <3> HIDE DEF t, l, x, w
    <3> QED BY ONLY <3>1, <3>2, DivideAlgebra
  <2> HIDE DEF y, x, w, l, t
  <2> QED BY <2>2, <2>3, <2>6, <2>7, <2>8
<1>13. /\ ZeroAbove(buf, msw_idx)' /\ i' <= msw_idx' /\ (i' < msw_idx' => buf'[msw_idx'] # 0)
  <2> HIDE DEF y
  <2>1. CASE i = msw_idx /\ q = 0
    <3>1. msw_idx' = i - 1 /\ i' = i - 1
      BY <1>1, <2>1
    <3>2. ASSUME NEW k \in DOMAIN y, k > i - 1 PROVE y[k] = 0
      <4>1. k \in DOMAIN buf /\ k \in Nat
        BY <1>3, <1>8
      <4>2. CASE k = i
        BY <1>8, <2>1, <4>2
      <4>3. CASE k > i
        BY <1>2, <1>4, <1>8, <2>1, <4>1, <4>3 DEF ZeroAbove
      <4> QED BY <1>4, <3>2, <4>1, <4>2, <4>3
    <3> QED BY <1>4, <1>6, <3>1, <3>2 DEF ZeroAbove
  <2>2. CASE ~(i = msw_idx /\ q = 0)
    <3>1. msw_idx' = msw_idx /\ i' = i - 1
      BY <1>1, <2>2
    <3>2. ASSUME NEW k \in DOMAIN y, k > msw_idx PROVE y[k] = 0
      <4>1. k \in DOMAIN buf /\ k \in Nat /\ k # i
        BY <1>2, <1>3, <1>4, <1>8, <3>2
      <4> QED BY <1>2, <1>8, <3>2, <4>1 DEF ZeroAbove
    <3>3. y[msw_idx] # 0
      <4>1. CASE i = msw_idx
        BY <1>8, <2>2, <4>1
      <4>2. CASE i # msw_idx
        <5>1. msw_idx \in DOMAIN buf /\ i < msw_idx
          BY <1>2, <1>3, <1>4, <4>2
        <5> QED BY <1>2, <1>8, <4>2, <5>1
      <4> QED BY <4>1, <4>2
    <3> QED BY <1>2, <1>4, <1>6, <3>1, <3>2, <3>3 DEF ZeroAbove
  <2> QED BY <2>1, <2>2
<1>14. Divides'
  <2>1. /\ Number(words) = Undivided * Power[radix][Count] + Written /\ Written \in Nat
        /\ Count < Capacity /\ (Count > 0 => Undivided >= 1)
    BY <1>1 DEF TextIInv, Divides
  <2> QED BY <1>1, <1>9, <1>11, <1>12, <1>13, <2>1 DEF Divides
<1> QED BY <1>1, <1>2, <1>9, <1>10, <1>14 DEF TextIInv, Blocks, Reverses

\* What a digit counts for.
LEMMA DigitWeight ==
    ASSUME NEW base \in Radixes, NEW d \in Nat, NEW m \in 0..MaxPower
    PROVE  d * Power[base][m] \in Nat /\ d * Power[base][m] \in Int
<1>1. Power[base][m] \in Nat
  BY PowerFacts
<1>2. \A p, q \in Nat : p * q \in Nat /\ p * q \in Int
  OBVIOUS
<1> QED BY <1>1, <1>2

LEMMA TextPutDigit ==
    ASSUME TextIInv, PutDigit, UNCHANGED loop_vars
    PROVE  TextIInv'
<1> DEFINE n == wcount(words)
           p == Power[radix][Count]
<1>1. /\ text_pc = "divide" /\ i < 0
      /\ UNCHANGED <<object, heap, buf, msw_idx, i, remainder, ret, len>>
      /\ UNCHANGED <<words, negative, radix>>
      /\ IF last_idx \in DOMAIN str
         THEN /\ str' = [str EXCEPT ![last_idx] = remainder]
              /\ last_idx' = last_idx + 1 /\ text_pc' = "digit"
         ELSE text_pc' = "oob" /\ UNCHANGED <<str, last_idx>>
  BY DEF PutDigit, object
<1>2. /\ msw_idx \in -1 .. (n - 1) /\ IsArray(buf, n) /\ remainder \in 0 .. (radix - 1)
      /\ last_idx \in Nat /\ i \in -1..MaxPower /\ heap = {"str", "buf"} /\ ret # "OK"
      /\ i <= msw_idx /\ (i < msw_idx => buf[msw_idx] # 0) /\ ZeroAbove(buf, msw_idx)
      /\ DOMAIN str = 0..slen /\ first <= last_idx /\ (negative => str[0] = Minus)
      /\ \A k \in first .. (last_idx - 1) : str[k] \in 0 .. (radix - 1)
      /\ Number(words) = Undivided * p + Written /\ Written \in Nat
      /\ Count < Capacity /\ (Count > 0 => Undivided >= 1)
  BY <1>1 DEF TextIInv, TextLayout, Blocks, Divides, Characters
<1>3. /\ n \in Nat /\ n \in 0..MaxPower /\ DOMAIN buf = 0 .. (n - 1) /\ MaxPower \in Nat
      /\ radix \in Nat /\ radix >= 2 /\ radix \in Radixes
      /\ first \in {0, 1} /\ (negative => first = 1)
      /\ last_idx = first + Count /\ Count \in Int /\ Capacity \in 1..MaxPower
      /\ slen = Capacity + first
  BY <1>1, TextFacts DEF TextIInv
<1>4. /\ Count \in Nat /\ last_idx \in 0..slen /\ Count \in 0 .. (MaxPower - 1) /\ slen \in Nat
      /\ Count \in 0..MaxPower /\ i = -1
  <2>1. Count \in Nat /\ Capacity \in Nat /\ Capacity <= MaxPower
    BY <1>2, <1>3
  <2>2. i = -1
    BY <1>1, <1>2
  <2>3. first \in Nat /\ slen = Capacity + first /\ last_idx = first + Count /\ Count < Capacity
    BY <1>2, <1>3
  <2>4. MaxPower \in Nat
    BY <1>3
  <2> HIDE DEF n
  <2>5. last_idx \in 0..slen /\ slen \in Nat
    BY ONLY <2>1, <2>3
  <2>6. Count \in 0 .. (MaxPower - 1) /\ Count \in 0..MaxPower
    BY ONLY <2>1, <2>3, <2>4
  <2> QED BY <2>1, <2>2, <2>5, <2>6
<1>5. /\ str' = [str EXCEPT ![last_idx] = remainder]
      /\ last_idx' = last_idx + 1 /\ text_pc' = "digit"
  BY <1>1, <1>2, <1>4
<1>6. /\ DOMAIN str' = DOMAIN str /\ str'[last_idx] = remainder /\ remainder \in Nat
      /\ \A k \in 0 .. (last_idx - 1) : str'[k] = str[k]
  BY <1>2, <1>3, <1>4, <1>5
<1>7. /\ TextLayout' /\ first' = first /\ slen' = slen /\ Capacity' = Capacity
  <2>1. last_idx' \in Nat
    BY <1>2, <1>5
  <2> QED BY <1>1, <1>2, <1>5, <2>1, TextLayoutStays DEF TextIInv
<1>8. Count' = Count + 1
  BY <1>3, <1>5, <1>7 DEF Count
<1>9. Characters'
  <2>1. first' <= last_idx'
    BY <1>2, <1>3, <1>5, <1>7
  <2>2. \A k \in first .. ((last_idx + 1) - 1) : str'[k] \in 0 .. (radix - 1)
    <3> SUFFICES ASSUME NEW k \in first .. ((last_idx + 1) - 1) PROVE str'[k] \in 0 .. (radix - 1)
      OBVIOUS
    <3>1. k = last_idx \/ (k \in first .. (last_idx - 1) /\ k \in 0 .. (last_idx - 1))
      BY <1>2, <1>3
    <3> QED BY <1>2, <1>6, <3>1
  <2>3. negative => str'[0] = Minus
    <3> SUFFICES ASSUME negative PROVE str'[0] = str[0]
      BY <1>2
    <3>1. 0 \in 0 .. (last_idx - 1)
      BY <1>2, <1>3
    <3> QED BY <1>6, <3>1
  <2> QED BY <1>1, <1>2, <1>5, <1>6, <1>7, <2>1, <2>2, <2>3 DEF Characters, Minus
<1>10. Undivided = Number(buf) * radix + remainder /\ Number(buf) \in Nat
  <2>1. Low(buf, 0) = 0 /\ Weight[0] = 1
    BY LowOfNone, WeightFacts
  <2>2. Number(buf) \in Nat
    BY <1>2, NumberType
  <2>3. Undivided = (Number(buf) - 0) * radix + 0 + remainder * 1
    BY <1>4, <2>1 DEF Undivided
  <2> QED BY <1>3, <1>6, <2>2, <2>3
<1>11. p \in Nat /\ Power[radix][Count + 1] = radix * p
  BY <1>3, <1>4, PowerFacts
<1>12. Written' = Written + remainder * p
  <2>1. last_idx - first < MaxPower
    BY <1>3, <1>4
  <2>2. \A k \in first .. (last_idx - 1) : str'[k] = str[k] /\ str[k] \in 0 .. (radix - 1)
    BY <1>2, <1>3, <1>6
  <2>3. SumFunction([k \in first..last_idx |-> str'[k] * Power[radix][k - first]])
           = SumFunction([k \in first .. (last_idx - 1) |-> str[k] * Power[radix][k - first]])
             + str'[last_idx] * Power[radix][last_idx - first]
    <3>1. first \in Nat /\ last_idx \in Nat /\ first <= last_idx /\ radix \in Radixes
          /\ str'[last_idx] \in Nat
      BY <1>2, <1>3, <1>6
    <3> DEFINE f == [k \in first..last_idx |-> str'[k] * Power[radix][k - first]]
               g == [k \in first .. (last_idx - 1) |-> str[k] * Power[radix][k - first]]
    <3>2. \A k \in first..last_idx : str'[k] \in Nat /\ k - first \in 0..MaxPower
      <4> SUFFICES ASSUME NEW k \in first..last_idx
                   PROVE  str'[k] \in Nat /\ k - first \in 0..MaxPower
        OBVIOUS
      <4>1. k = last_idx \/ k \in first .. (last_idx - 1)
        BY <3>1
      <4>2. str'[k] \in Nat
        BY <1>3, <2>2, <3>1, <4>1
      <4> QED BY <1>3, <2>1, <3>1, <4>2
    <3>3. \A k \in first..last_idx : f[k] \in Int
      BY <1>3, <3>2, DigitWeight
    <3>4. /\ DOMAIN f = first..last_idx /\ DOMAIN g = first .. (last_idx - 1)
          /\ \A k \in first .. (last_idx - 1) : g[k] = f[k]
          /\ f[last_idx] = str'[last_idx] * Power[radix][last_idx - first]
      BY <2>2, <3>1
    <3>5. SumFunction(f) = SumFunction(g) + f[last_idx]
      <4>1. first \in Int /\ last_idx \in Int
        BY <3>1
      <4>2. first <= last_idx
        BY <3>1
      <4> HIDE DEF f, g
      <4>3. /\ DOMAIN f = first..last_idx /\ \A k \in first..last_idx : f[k] \in Int
            /\ DOMAIN g = first .. (last_idx - 1)
            /\ \A k \in first .. (last_idx - 1) : g[k] = f[k]
        BY ONLY <3>3, <3>4
      <4> QED BY ONLY <4>1, <4>2, <4>3, SumExtends
    <3> QED BY <3>4, <3>5
  <2>4. last_idx' - 1 = last_idx
    BY <1>2, <1>5
  <2>5. Written' = SumFunction([k \in first..last_idx |-> str'[k] * Power[radix][k - first]])
    BY <1>1, <1>7, <2>4 DEF Written
  <2> QED BY <1>6, <2>3, <2>5 DEF Written, Count
<1>13. Number(words) = Number(buf) * Power[radix][Count + 1] + (Written + remainder * p)
       /\ Written + remainder * p \in Nat
  <2> DEFINE t == Number(buf)
             v == Written
  <2>1. Number(words) = (t * radix + remainder) * p + v
    BY <1>2, <1>10
  <2>2. t \in Nat /\ v \in Nat
    BY <1>2, <1>10
  <2> HIDE DEF t, v, p
  <2>3. (t * radix + remainder) * p + v = t * (radix * p) + (v + remainder * p)
    <3>1. \A x, y, z, u, w \in Nat : (x * y + z) * u + w = x * (y * u) + (w + z * u)
      OBVIOUS
    <3> QED BY <1>3, <1>6, <1>11, <2>2, <3>1
  <2>4. remainder * p \in Nat
    BY <1>6, <1>11
  <2> QED BY <1>11, <2>1, <2>2, <2>3, <2>4 DEF t, v
<1>14. Count + 1 > 1 /\ msw_idx < 0 => remainder # 0
  <2> SUFFICES ASSUME Count + 1 > 1, msw_idx < 0 PROVE remainder # 0
    OBVIOUS
  <2>1. msw_idx = -1
    BY <1>2
  <2>2. Number(buf) = 0
    BY <1>1, <1>2, <2>1, NoWord DEF TextIInv
  <2>3. Undivided >= 1
    BY <1>2, <1>4
  <2> QED BY <1>3, <1>6, <1>10, <2>2, <2>3
<1>15. Divides'
  <2>1. ZeroAbove(buf, msw_idx)'
    BY <1>1, <1>2 DEF ZeroAbove
  <2>2. Count' <= Capacity' /\ Count' > 0
    BY <1>2, <1>3, <1>4, <1>7, <1>8
  <2>3. msw_idx' >= 0 => buf'[msw_idx'] # 0
    BY <1>1, <1>2, <1>4
  <2>4. last_idx' - 1 = last_idx
    BY <1>2, <1>5
  <2>5. Count' > 1 /\ msw_idx' < 0 => str'[last_idx' - 1] # 0
    BY <1>1, <1>6, <1>8, <1>14, <2>4
  <2>6. Number(words)' = Number(buf)' * Power[radix'][Count'] + Written' /\ Written' \in Nat
    BY <1>1, <1>8, <1>12, <1>13
  <2> QED BY <1>5, <2>1, <2>2, <2>3, <2>5, <2>6 DEF Divides
<1> QED BY <1>1, <1>2, <1>5, <1>7, <1>9, <1>15 DEF TextIInv, Blocks, Reverses

\* A sum whose terms change places.
LEMMA SwapTerms ==
    ASSUME NEW S, IsFiniteSet(S), NEW f, NEW g, \A x \in S : f[x] \in Int,
           NEW p \in S, NEW q \in S, g[p] = f[q], g[q] = f[p],
           \A x \in S : x # p /\ x # q => g[x] = f[x]
    PROVE  SumFunctionOnSet(f, S) = SumFunctionOnSet(g, S)
<1>1. CASE p = q
  <2>1. \A x \in S : f[x] = g[x]
    BY <1>1
  <2> QED BY <2>1, SumsAgree
<1>2. CASE p # q
  <2> DEFINE T == S \ {p}
             U == T \ {q}
  <2>1. IsFiniteSet(T) /\ IsFiniteSet(U) /\ q \in T /\ T \subseteq S /\ U \subseteq S
    BY <1>2, FS_Subset
  <2>2. \A x \in S : g[x] \in Int
    OBVIOUS
  <2>3. SumsWell(f, S) /\ SumsWell(f, T) /\ SumsWell(g, S) /\ SumsWell(g, T)
    BY <2>1, <2>2, SumOfTerms
  <2>4. /\ SumFunctionOnSet(f, S) = f[p] + SumFunctionOnSet(f, T)
        /\ SumFunctionOnSet(g, S) = g[p] + SumFunctionOnSet(g, T)
    BY <2>3 DEF SumsWell
  <2>5. /\ SumFunctionOnSet(f, T) = f[q] + SumFunctionOnSet(f, U)
        /\ SumFunctionOnSet(g, T) = g[q] + SumFunctionOnSet(g, U)
    BY <2>1, <2>3 DEF SumsWell
  <2>6. SumFunctionOnSet(f, U) = SumFunctionOnSet(g, U)
    <3>1. \A x \in U : f[x] = g[x]
      OBVIOUS
    <3> QED BY <2>1, <3>1, SumsAgree
  <2>7. SumFunctionOnSet(f, U) \in Int
    <3>1. \A x \in U : f[x] \in Int
      BY <2>1
    <3>2. SumsWell(f, U)
      BY <2>1, <3>1, SumOfTerms
    <3> QED BY <3>2 DEF SumsWell
  <2> HIDE DEF T, U
  <2>8. f[p] \in Int /\ f[q] \in Int
    OBVIOUS
  <2> QED BY <2>4, <2>5, <2>6, <2>7, <2>8
<1> QED BY <1>1, <1>2

LEMMA TextTerminate ==
    ASSUME TextIInv, Terminate, UNCHANGED loop_vars
    PROVE  TextIInv'
<1> DEFINE n == wcount(words)
<1>1. /\ text_pc = "digit" /\ msw_idx < 0
      /\ UNCHANGED <<object, heap, buf, msw_idx, remainder, last_idx, ret, len>>
      /\ UNCHANGED <<words, negative, radix>>
      /\ IF last_idx \in DOMAIN str
         THEN str' = [str EXCEPT ![last_idx] = Terminator] /\ text_pc' = "reverse" /\ i' = 0
         ELSE text_pc' = "oob" /\ UNCHANGED <<str, i>>
  BY DEF Terminate, object
<1>2. /\ msw_idx \in -1 .. (n - 1) /\ IsArray(buf, n) /\ remainder \in 0 .. (radix - 1)
      /\ last_idx \in Nat /\ heap = {"str", "buf"} /\ ret # "OK" /\ ZeroAbove(buf, msw_idx)
      /\ DOMAIN str = 0..slen /\ first <= last_idx /\ (negative => str[0] = Minus)
      /\ \A k \in first .. (last_idx - 1) : str[k] \in 0 .. (radix - 1)
      /\ Number(words) = Number(buf) * Power[radix][Count] + Written /\ Written \in Nat
      /\ Count <= Capacity /\ (Count = 0 => msw_idx >= 0)
      /\ (Count > 1 /\ msw_idx < 0 => str[last_idx - 1] # 0)
  BY <1>1 DEF TextIInv, TextLayout, Blocks, Divides, Characters
<1>3. /\ first \in {0, 1} /\ (negative => first = 1) /\ MaxPower \in Nat
      /\ last_idx = first + Count /\ Count \in Int /\ Capacity \in 1..MaxPower
      /\ slen = Capacity + first /\ radix \in Radixes
  BY <1>1, TextFacts DEF TextIInv
<1>4. /\ Count \in Nat /\ Count > 0 /\ last_idx \in 0..slen /\ Count \in 0..MaxPower
      /\ msw_idx = -1 /\ first < last_idx
  <2>1. Count \in Nat /\ Capacity \in Nat /\ Capacity <= MaxPower
    BY <1>2, <1>3
  <2>2. msw_idx = -1
    BY <1>1, <1>2
  <2>3. Count > 0
    BY <1>1, <1>2, <2>1
  <2> QED BY <1>2, <1>3, <2>1, <2>2, <2>3
<1>5. str' = [str EXCEPT ![last_idx] = Terminator] /\ text_pc' = "reverse" /\ i' = 0
  BY <1>1, <1>2, <1>4
<1>6. /\ DOMAIN str' = DOMAIN str /\ str'[last_idx] = Terminator
      /\ \A k \in 0 .. (last_idx - 1) : str'[k] = str[k]
      /\ \A k \in first .. (last_idx - 1) : str'[k] = str[k]
  BY <1>2, <1>3, <1>4, <1>5
<1>7. /\ TextLayout' /\ first' = first /\ slen' = slen /\ Capacity' = Capacity
  <2>1. i' \in -1..MaxPower
    BY <1>3, <1>5
  <2> QED BY <1>1, <1>2, <1>5, <2>1, TextLayoutStays DEF TextIInv
<1>8. Count' = Count /\ ptr_last_idx' = Count - 1
  BY <1>1, <1>3, <1>7 DEF Count, ptr_last_idx
<1>9. Characters'
  <2>1. negative => str'[0] = Minus
    <3> SUFFICES ASSUME negative PROVE str'[0] = str[0]
      BY <1>2
    <3>1. 0 \in 0 .. (last_idx - 1)
      BY <1>2, <1>3
    <3> QED BY <1>6, <3>1
  <2> QED BY <1>1, <1>2, <1>5, <1>6, <1>7, <2>1 DEF Characters, Minus
<1>10. Number(words) = Written
  <2>1. Number(buf) = 0
    BY <1>1, <1>2, <1>4, NoWord DEF TextIInv
  <2>2. Power[radix][Count] \in Nat
    BY <1>3, <1>4, PowerFacts
  <2> QED BY <1>2, <2>1, <2>2
<1>11. Mixed' = Written
  <2> DEFINE f == [k \in first .. (last_idx - 1) |-> str[k] * Power[radix][k - first]]
             E(k) == IF k < 0 \/ k > (Count - 1) - 0 THEN (Count - 1) - k ELSE k
             g == [k \in first .. (last_idx - 1) |-> str'[k] * Power[radix][E(k - first)]]
  <2>1. \A k \in first .. (last_idx - 1) : E(k - first) = k - first
    <3> SUFFICES ASSUME NEW k \in first .. (last_idx - 1) PROVE E(k - first) = k - first
      OBVIOUS
    <3>1. ~(k - first < 0) /\ ~(k - first > (Count - 1) - 0)
      BY <1>2, <1>3, <1>4
    <3> QED BY <3>1
  <2>2. f = g
    <3>1. \A k \in first .. (last_idx - 1) : str'[k] * Power[radix][E(k - first)]
                                               = str[k] * Power[radix][k - first]
      BY <1>6, <2>1
    <3> QED BY <3>1
  <2>3. Mixed' = SumFunction(g)
    BY <1>1, <1>5, <1>7, <1>8 DEF Mixed, Exponent
  <2> HIDE DEF g
  <2> QED BY <2>2, <2>3 DEF Written
<1>12. Reverses'
  <2>1. Count = 1 \/ str'[last_idx - 1] # 0
    <3> SUFFICES ASSUME Count # 1 PROVE str'[last_idx - 1] # 0
      OBVIOUS
    <3>1. str[last_idx - 1] # 0
      BY <1>1, <1>2, <1>4
    <3>2. last_idx - 1 \in first .. (last_idx - 1)
      BY <1>2, <1>3, <1>4
    <3> QED BY <1>6, <3>1, <3>2
  <2>2. str'[last_idx'] = Terminator'
    BY <1>1, <1>6 DEF Terminator
  <2> QED BY <1>1, <1>2, <1>4, <1>5, <1>7, <1>8, <1>10, <1>11, <2>1, <2>2 DEF Reverses
<1> QED BY <1>1, <1>2, <1>5, <1>7, <1>9, <1>12 DEF TextIInv, Blocks, Divides

LEMMA TextSwap ==
    ASSUME TextIInv, Swap, UNCHANGED loop_vars
    PROVE  TextIInv'
<1> DEFINE n == wcount(words)
           m == ptr_last_idx
           left == first + i
           right == first + m - i
<1>1. /\ text_pc = "reverse" /\ text_pc' = text_pc /\ i <= m \div 2 /\ i' = i + 1
      /\ UNCHANGED <<object, heap, buf, msw_idx, remainder, last_idx, ret, len>>
      /\ UNCHANGED <<words, negative, radix>>
      /\ str' = [str EXCEPT ![left] = str[right], ![right] = str[left]]
  BY DEF Swap, object
<1>2. /\ msw_idx \in -1 .. (n - 1) /\ IsArray(buf, n) /\ remainder \in 0 .. (radix - 1)
      /\ last_idx \in Nat /\ heap = {"str", "buf"} /\ ret # "OK"
      /\ DOMAIN str = 0..slen /\ first <= last_idx /\ (negative => str[0] = Minus)
      /\ \A k \in first .. (last_idx - 1) : str[k] \in 0 .. (radix - 1)
      /\ first < last_idx /\ Count <= Capacity /\ i \in Nat /\ str[last_idx] = Terminator
      /\ Number(words) = Mixed
      /\ Count = 1 \/ str[IF i = 0 THEN last_idx - 1 ELSE first] # 0
  BY <1>1 DEF TextIInv, TextLayout, Blocks, Reverses, Characters
<1>3. /\ first \in {0, 1} /\ (negative => first = 1) /\ MaxPower \in Nat
      /\ last_idx = first + Count /\ Count \in Int /\ Capacity \in 1..MaxPower
      /\ slen = Capacity + first /\ radix \in Radixes /\ radix \in Nat
  BY <1>1, TextFacts DEF TextIInv
<1>4. /\ m = Count - 1 /\ m \in Nat /\ m < MaxPower /\ m \in Int /\ first \in Nat
      /\ last_idx - 1 = first + m /\ last_idx - 1 <= slen
  <2>1. m = Count - 1
    BY <1>2, <1>3 DEF ptr_last_idx
  <2> HIDE DEF m
  <2> QED BY <1>2, <1>3, <2>1
<1>5. i <= m - i /\ m - i \in Nat /\ m - i <= m
  <2> HIDE DEF m
  <2>1. \A x, y \in Nat : x <= y \div 2 => x <= y - x
    OBVIOUS
  <2> QED BY <1>1, <1>2, <1>4, <2>1
<1>6. /\ left \in first .. (last_idx - 1) /\ right \in first .. (last_idx - 1)
      /\ left \in 0..slen /\ right \in 0..slen /\ left \in Nat /\ right \in Nat
      /\ left - first = i /\ right - first = m - i
  <2>1. /\ first \in Nat /\ m \in Nat /\ i \in Nat /\ last_idx \in Nat /\ slen \in Nat
        /\ last_idx - 1 = first + m /\ last_idx - 1 <= slen /\ i <= m - i
    BY <1>2, <1>3, <1>4, <1>5
  <2> HIDE DEF m
  <2>2. /\ left \in Nat /\ left - first = i /\ first <= left /\ left <= last_idx - 1
    BY ONLY <2>1
  <2>3. /\ right \in Nat /\ right - first = m - i /\ first <= right /\ right <= last_idx - 1
    BY ONLY <2>1
  <2> HIDE DEF left, right
  <2> QED BY ONLY <2>1, <2>2, <2>3
<1>7. /\ DOMAIN str' = DOMAIN str
      /\ str'[left] = str[right] /\ str'[right] = str[left]
      /\ \A k \in 0..slen : k # left /\ k # right => str'[k] = str[k]
  <2> HIDE DEF left, right
  <2> QED BY <1>1, <1>2, <1>6
<1>8. /\ TextLayout' /\ first' = first /\ slen' = slen /\ Capacity' = Capacity
  <2>1. i' \in -1..MaxPower
    <3>1. i' = i + 1 /\ i \in Nat /\ m \in Nat /\ m < MaxPower /\ MaxPower \in Nat /\ i <= m - i
      BY <1>1, <1>2, <1>3, <1>4, <1>5
    <3>2. i + 1 \in Nat /\ i + 1 <= MaxPower
      <4> HIDE DEF m
      <4> QED BY ONLY <3>1
    <3>3. \A x, y \in Nat : x <= y => x \in -1..y
      OBVIOUS
    <3> QED BY <3>1, <3>2, <3>3
  <2> QED BY <1>1, <1>2, <2>1, TextLayoutStays DEF TextIInv
<1>9. Count' = Count /\ ptr_last_idx' = m
  BY <1>1, <1>8 DEF Count, ptr_last_idx
<1>10. /\ str'[last_idx] = Terminator /\ (negative => str'[0] = Minus)
       /\ \A k \in first .. (last_idx - 1) : str'[k] \in 0 .. (radix - 1)
  <2>1. last_idx \in 0..slen /\ last_idx # left /\ last_idx # right
    <3>1. last_idx <= slen /\ slen \in Nat
      BY <1>2, <1>3
    <3> HIDE DEF left, right
    <3> QED BY <1>2, <1>6, <3>1
  <2>2. negative => 0 \in 0..slen /\ 0 # left /\ 0 # right
    BY <1>3, <1>6
  <2>3. ASSUME NEW k \in first .. (last_idx - 1) PROVE str'[k] \in 0 .. (radix - 1)
    <3>1. k \in 0..slen
      BY <1>2, <1>3, <1>4
    <3>2. str[k] \in 0 .. (radix - 1) /\ str[left] \in 0 .. (radix - 1)
          /\ str[right] \in 0 .. (radix - 1)
      BY <1>2, <1>6
    <3> HIDE DEF left, right
    <3> QED BY <1>7, <3>1, <3>2
  <2> HIDE DEF left, right
  <2> QED BY <1>2, <1>7, <2>1, <2>2, <2>3
<1>11. Characters'
  BY <1>1, <1>2, <1>7, <1>8, <1>10 DEF Characters, Minus
<1>12. Mixed' = Mixed
  <2> DEFINE S == first .. (last_idx - 1)
             E(k) == IF k < i + 1 \/ k > m - (i + 1) THEN m - k ELSE k
             f == [k \in S |-> str[k] * Power[radix][Exponent(k - first)]]
             g == [k \in S |-> str'[k] * Power[radix][E(k - first)]]
  <2>1. Mixed = SumFunctionOnSet(f, S)
    BY DEF Mixed, SumFunction
  <2>2. Mixed' = SumFunctionOnSet(g, S)
    BY <1>1, <1>8, <1>9 DEF Mixed, Exponent, SumFunction
  <2>3. IsFiniteSet(S)
    BY <1>3, <1>2, FS_Interval
  <2>4. \A k \in S : f[k] \in Int
    <3> SUFFICES ASSUME NEW k \in S PROVE f[k] \in Int
      OBVIOUS
    <3>1. k - first \in 0..m /\ m \in 0..MaxPower
      <4> HIDE DEF m
      <4> QED BY <1>2, <1>3, <1>4
    <3>2. Exponent(k - first) \in 0..MaxPower
      <4>1. Exponent(k - first) = k - first \/ Exponent(k - first) = m - (k - first)
        BY DEF Exponent
      <4> HIDE DEF m
      <4> QED BY <1>3, <1>4, <3>1, <4>1
    <3>3. str[k] \in Nat
      BY <1>2, <1>3
    <3> QED BY <1>3, <3>2, <3>3, DigitWeight
  <2>5. /\ Exponent(left - first) = i /\ E(left - first) = m - i
        /\ Exponent(right - first) = m - i /\ E(right - first) = i
    <3>1. ~(i < i) /\ ~(i > m - i) /\ i < i + 1
      BY <1>2, <1>4, <1>5
    <3>2. ~(m - i < i) /\ ~(m - i > m - i) /\ m - i > m - (i + 1) /\ m - (m - i) = i
      <4>1. i \in Nat /\ m \in Nat /\ i <= m - i
        BY <1>2, <1>4, <1>5
      <4> HIDE DEF m
      <4> QED BY ONLY <4>1
    <3>3. /\ Exponent(i) = i /\ Exponent(m - i) = m - i
      BY <3>1, <3>2 DEF Exponent
    <3>4. /\ E(i) = m - i /\ E(m - i) = m - (m - i)
      BY <3>1, <3>2
    <3>5. left - first = i /\ right - first = m - i
      BY <1>6
    <3> HIDE DEF m, left, right, E
    <3> QED BY ONLY <3>2, <3>3, <3>4, <3>5
  <2>6. g[left] = f[right] /\ g[right] = f[left]
    <3>1. left \in S /\ right \in S
      BY <1>6
    <3> HIDE DEF left, right, m, E
    <3> QED BY <1>7, <2>5, <3>1
  <2>7. ASSUME NEW k \in S, k # left, k # right PROVE g[k] = f[k]
    <3>1. k \in 0..slen
      BY <1>2, <1>3, <1>4
    <3>2. str'[k] = str[k]
      <4> HIDE DEF left, right
      <4> QED BY <1>7, <2>7, <3>1
    <3>3. /\ k - first # i /\ k - first # m - i /\ k - first \in Int /\ i \in Int /\ m \in Int
      <4>1. k # first + i /\ k # first + m - i /\ k \in Int /\ first \in Int /\ i \in Int
            /\ m \in Int
        BY <1>2, <1>4, <2>7
      <4> HIDE DEF m
      <4> QED BY ONLY <4>1
    <3>4. /\ k - first < i + 1 <=> k - first < i
          /\ k - first > m - (i + 1) <=> k - first > m - i
      <4> HIDE DEF m
      <4> QED BY ONLY <3>3
    <3>5. E(k - first) = Exponent(k - first)
      BY <3>4 DEF Exponent
    <3> HIDE DEF E
    <3> QED BY <3>2, <3>5
  <2>8. left \in S /\ right \in S
    BY <1>6
  <2>9. SumFunctionOnSet(f, S) = SumFunctionOnSet(g, S)
    <3> HIDE DEF S, f, g, left, right
    <3> QED BY ONLY <2>3, <2>4, <2>6, <2>7, <2>8, SwapTerms
  <2> QED BY <2>1, <2>2, <2>9
<1>13. Count = 1 \/ str'[first] # 0
  <2> SUFFICES ASSUME Count # 1 PROVE str'[first] # 0
    OBVIOUS
  <2>1. CASE i = 0
    <3>1. str[last_idx - 1] # 0
      BY <1>2, <2>1
    <3>2. left = first /\ right = last_idx - 1
      <4> HIDE DEF m
      <4> QED BY <1>4, <2>1
    <3> HIDE DEF left, right
    <3> QED BY <1>7, <3>1, <3>2
  <2>2. CASE i # 0
    <3>1. str[first] # 0
      BY <1>2, <2>2
    <3>2. first # left /\ first # right /\ first \in 0..slen
      <4> HIDE DEF m
      <4> QED BY <1>2, <1>3, <1>4, <1>5, <2>2
    <3> HIDE DEF left, right
    <3> QED BY <1>7, <3>1, <3>2
  <2> QED BY <2>1, <2>2
<1>14. Reverses'
  <2>1. i' \in Nat /\ i' - 1 = i /\ i' # 0
    BY <1>1, <1>2
  <2>2. str'[last_idx'] = Terminator' /\ Number(words)' = Mixed'
    BY <1>1, <1>2, <1>10, <1>12 DEF Terminator
  <2> HIDE DEF m
  <2> QED BY <1>1, <1>2, <1>8, <1>9, <1>13, <2>1, <2>2 DEF Reverses
<1> QED BY <1>1, <1>2, <1>8, <1>11, <1>14 DEF TextIInv, Blocks, Divides

LEMMA TextDeliver ==
    ASSUME TextIInv, Deliver, UNCHANGED loop_vars
    PROVE  TextIInv'
<1>1. /\ text_pc = "reverse" /\ i > ptr_last_idx \div 2
      /\ ret' = "OK" /\ heap' = heap \ {"buf"} /\ text_pc' = "done"
      /\ UNCHANGED <<words, negative, radix, buf, msw_idx, i, remainder, str, last_idx>>
      /\ UNCHANGED object
  BY DEF Deliver, object
<1>2. /\ msw_idx \in -1 .. (wcount(words) - 1) /\ IsArray(buf, wcount(words))
      /\ remainder \in 0 .. (radix - 1) /\ last_idx \in Nat /\ i \in -1..MaxPower
      /\ heap = {"str", "buf"}
  BY <1>1 DEF TextIInv, TextLayout, Blocks
<1>3. /\ TextLayout' /\ first' = first /\ slen' = slen /\ Capacity' = Capacity
  BY <1>1, <1>2, TextLayoutStays DEF TextIInv
<1>4. Count' = Count /\ ptr_last_idx' = ptr_last_idx /\ Mixed' = Mixed
  BY <1>1, <1>3 DEF Count, ptr_last_idx, Mixed, Exponent
<1>5. Characters'
  BY <1>1, <1>3 DEF TextIInv, Characters, Minus
<1>6. Reverses'
  BY <1>1, <1>3, <1>4 DEF TextIInv, Reverses, Terminator
<1>7. Blocks'
  <2>1. heap' = {"str"}
    BY <1>1, <1>2
  <2> QED BY <1>1, <2>1 DEF Blocks
<1> QED BY <1>1, <1>3, <1>5, <1>6, <1>7 DEF TextIInv, Divides

\* The string buffer is never overrun: the size estimate of get_slen_from_blen is
\* never too short for the sign, the digits and the terminator (bignum.c:23-28,
\* 524-527), and the division never drops a word that is not zero.
THEOREM TextInvariance == WordsSpec => []TextIInv
<1>1. WordsInit => TextIInv
  BY DEF WordsInit, TextInit, TextIInv, TextLayout, Blocks, Characters, Divides, Reverses
<1>2. LoopIInv /\ TextIInv /\ [WordsNext]_words_vars => TextIInv'
  <2> SUFFICES ASSUME LoopIInv, TextIInv, [WordsNext]_words_vars PROVE TextIInv'
    OBVIOUS
  <2>1. Layout
    BY DEF LoopIInv
  <2>2. CASE Compute
    <3>1. LoopNext /\ UNCHANGED text_vars
      BY <2>2 DEF Compute
    <3>2. text_pc = "idle"
      BY <3>1, FinishedStays DEF TextIInv, TextLayout
    <3> QED BY <3>1, <3>2, TextSame
  <2>3. CASE PrintResult
    BY <2>1, <2>3, TextPrintResult
  <2>4. CASE Printing
    BY <2>4, TextAlloc, TextCopy, TextStartDigit, TextDivide, TextPutDigit, TextTerminate,
       TextSwap, TextDeliver DEF Printing, TextSteps
  <2>5. CASE UNCHANGED words_vars
    <3>1. UNCHANGED text_vars /\ UNCHANGED loop_vars
      BY <2>5 DEF words_vars
    <3> QED BY <3>1, TextSame
  <2> QED BY <2>2, <2>3, <2>4, <2>5 DEF WordsNext
<1> QED BY <1>1, <1>2, LoopInvariance, PTL DEF WordsSpec

\* The arrays of the loops and of bn_tostring hold words, whatever the carries and
\* the quotients, and the indices are indices.
THEOREM WordsTypesAreKept == WordsSpec => []WordsTypeOK
<1>1. LoopTypeOK /\ TextIInv => WordsTypeOK
  <2> SUFFICES ASSUME LoopTypeOK, TextIInv, text_pc # "idle" PROVE TextTypeOK
    BY DEF WordsTypeOK
  <2>1. heap \subseteq {"str", "buf"}
    BY DEF TextIInv, Blocks
  <2> QED BY <2>1 DEF TextIInv, TextLayout, TextTypeOK, IsArray
<1> QED BY <1>1, LoopTypesAreKept, TextInvariance, PTL

\* Before each digit, the number is what the scratch copy still holds, times the
\* weight of the next digit, plus the digits written (bignum.c:559-582), for every
\* word size, base and length.
THEOREM DivisionStaysExact == WordsSpec => []DivisionIsExact
<1>1. TextIInv => DivisionIsExact
  <2> SUFFICES ASSUME TextIInv, text_pc = "digit" PROVE DivisionIsExact
    BY DEF DivisionIsExact
  <2>1. Number(words) = Number(buf) * Power[radix][last_idx - first] + Written
        /\ ZeroAbove(buf, msw_idx)
    BY DEF TextIInv, Divides, Count
  <2> QED BY <2>1 DEF DivisionIsExact, ZeroAbove
<1> QED BY <1>1, TextInvariance, PTL

\* A call of bn_tostring that fails keeps no block, one that succeeds only the
\* string (bignum.c:529-541, 589-598).
THEOREM PrintingLeaksNothing == WordsSpec => []NothingLeaks
<1>1. TextIInv => NothingLeaks
  BY DEF TextIInv, Blocks, NothingLeaks
<1> QED BY <1>1, TextInvariance, PTL

\* After the last swap each digit counts for its place from the end.
LEMMA ReversedDigits ==
    ASSUME TextIInv, ret = "OK"
    PROVE  Spelled = Number(words)
<1> DEFINE m == ptr_last_idx
           f == [k \in first .. (last_idx - 1) |-> str[k] * Power[radix][Exponent(k - first)]]
           g == [k \in first .. (last_idx - 1) |-> str[k] * Power[radix][last_idx - 1 - k]]
<1>1. /\ text_pc = "done" /\ i > m \div 2 /\ i \in Nat /\ Number(words) = SumFunction(f)
      /\ first < last_idx
  BY DEF TextIInv, Blocks, Reverses, Mixed
<1>2. first \in Nat /\ last_idx \in Nat /\ m = last_idx - 1 - first
  BY <1>1, TextFacts DEF TextIInv, ptr_last_idx
<1>3. ASSUME NEW k \in first .. (last_idx - 1)
      PROVE  Exponent(k - first) = last_idx - 1 - k
  <2>1. m \in Nat /\ k - first \in 0..m /\ m - (k - first) = last_idx - 1 - k
    <3> HIDE DEF m
    <3> QED BY <1>1, <1>2
  <2>2. k - first < i \/ k - first > m - i
    <3>1. \A x, y, z \in Nat : x > y \div 2 => z < x \/ z > y - x
      OBVIOUS
    <3>2. k - first \in Nat
      BY <1>2
    <3> HIDE DEF m
    <3> QED BY <1>1, <2>1, <3>1, <3>2
  <2>3. Exponent(k - first) = m - (k - first)
    BY <2>2 DEF Exponent
  <2> QED BY <2>1, <2>3
<1>4. f = g
  <2>1. \A k \in first .. (last_idx - 1) : str[k] * Power[radix][Exponent(k - first)]
                                             = str[k] * Power[radix][last_idx - 1 - k]
    BY <1>3
  <2> QED BY <2>1
<1>5. Spelled = SumFunction(g)
  BY DEF Spelled
<1> HIDE DEF f, g
<1> QED BY <1>1, <1>4, <1>5

\* The words printed are all there is to a result.
LEMMA ResultIsComplete ==
    ASSUME LoopIInv, loop_pc = "done", op = "add" => a[wcount(a) - 1] = 0
    PROVE  Number(Result) = Number(arrays.dst)
<1> DEFINE n == wcount(arrays.dst)
<1>1. /\ IsArray(arrays.dst, n) /\ n \in Nat /\ msw \in 0 .. (n - 1) /\ Phase = "done"
      /\ Number(Result) = Low(arrays.dst, msw + 1)
  BY DoneFacts, ResultFacts DEF LoopIInv
<1>2. CASE op \in {"add", "mul", "init"}
  <2>1. ZeroAbove(arrays.dst, msw)
    BY <1>1, <1>2 DEF LoopIInv, Tops
  <2> HIDE DEF n
  <2> QED BY <1>1, <2>1, TopLow
<1>3. CASE op = "sub"
  <2>1. Number(arrays.dst) < Weight[msw + 1]
    BY <1>1, <1>3, DoneFacts DEF LoopIInv, Tops
  <2>2. Low(arrays.dst, n) = Number(arrays.dst)
    BY <1>1, NumberIsLow
  <2>3. msw + 1 \in 0..n
    BY <1>1
  <2> HIDE DEF n
  <2>4. \A k \in (msw + 1) .. (n - 1) : arrays.dst[k] = 0
    BY <1>1, <2>1, <2>2, <2>3, LowAbove
  <2> QED BY <1>1, <2>2, <2>3, <2>4, LowAbove
<1> QED BY <1>2, <1>3, LayoutFacts DEF LoopIInv

\* From end to end: the string bn_tostring delivers spells, with its sign, without a
\* leading zero and with its terminator, the number the loop was to compute
\* (bignum.c:263-291, 334-359, 431-457, 762-798, 553-598), for every word size,
\* base and length.
THEOREM PrintsTheResult == WordsSpec => []PrintedIsComputed
<1>1. LoopIInv /\ Bounds /\ TextIInv => PrintedIsComputed
  <2> SUFFICES ASSUME LoopIInv, Bounds, TextIInv, ret = "OK", op = "add" => a[wcount(a) - 1] = 0
               PROVE  PrintedIsComputed
    BY DEF PrintedIsComputed
  <2>1. text_pc = "done" /\ loop_pc = "done" /\ words = Result
    BY DEF TextIInv, Blocks, TextLayout
  <2>2. Spelled = Number(arrays.dst)
    BY <2>1, ReversedDigits, ResultIsComplete
  <2>3. row = wcount(b) /\ Number(arrays.dst) = Consumed(wcount(b))
    BY <2>1, DoneFacts DEF LoopIInv, Exact, Bounds, Rows
  <2>4. Prefix(wcount(b)) = Number(b) /\ op \in {"add", "sub", "mul", "init"}
    <3>1. wcount(b) \in 0 .. wcount(b)
      BY LayoutFacts DEF LoopIInv
    <3> QED BY <3>1, PrefixFacts, LayoutFacts DEF LoopIInv
  <2>5. Spelled = CASE op = "add"  -> Number(a) + Prefix(wcount(b))
                    [] op = "sub"  -> Number(a) - Prefix(wcount(b))
                    [] op = "mul"  -> Number(a) * Number(b)
                    [] op = "init" -> NumeralPrefix(wcount(b))
    BY <2>2, <2>3, <2>4 DEF Consumed
  <2>6. (negative => str[0] = Minus) /\ str[last_idx] = Terminator
    BY DEF TextIInv, Characters, Reverses
  <2>7. str[first] # 0 \/ last_idx = first + 1
    <3>1. /\ i > ptr_last_idx \div 2 /\ i \in Nat /\ first < last_idx
          /\ Count = 1 \/ str[IF i = 0 THEN last_idx - 1 ELSE first] # 0
      BY <2>1 DEF TextIInv, Reverses
    <3>2. ptr_last_idx \in Nat /\ last_idx = first + Count
      BY <2>1, <3>1, TextFacts DEF TextIInv, ptr_last_idx
    <3>3. i # 0
      BY <3>1, <3>2
    <3> QED BY <3>1, <3>2, <3>3
  <2> QED BY <2>5, <2>6, <2>7 DEF PrintedIsComputed
<1> QED BY <1>1, LoopInvariance, BoundsHold, TextInvariance, PTL

\* The digits the string shows are the digits read, but for zeros in front.
NumeralComesBack ==
    ret = "OK" /\ op = "init" /\ radix = a[0] =>
       LET zeros == wcount(b) - (last_idx - first)
       IN  /\ zeros >= 0
           /\ \A k \in 0 .. (zeros - 1) : b[k] = 0
           /\ \A k \in 0 .. (last_idx - first - 1) : str[first + k] = b[zeros + k]
           /\ b[zeros] # 0 \/ zeros = wcount(b) - 1

LEMMA SpelledIsANumeral ==
    ASSUME TextIInv, ret = "OK"
    PROVE  /\ Count \in 1..MaxPower
           /\ \A k \in 0 .. (Count - 1) : str[first + k] \in Nat /\ str[first + k] < radix
           /\ Spelled = Numeral([k \in 0 .. (Count - 1) |-> str[first + k]], radix, Count)
<1> DEFINE z == [k \in 0 .. (Count - 1) |-> str[first + k]]
           f == [k \in first .. (last_idx - 1) |-> str[k] * Power[radix][last_idx - 1 - k]]
           g == [k \in 0 .. (Count - 1) |-> z[k] * Power[radix][Count - 1 - k]]
<1>1. text_pc = "done" /\ first < last_idx /\ Count <= Capacity
  BY DEF TextIInv, Blocks, Reverses
<1>2. /\ radix \in Nat /\ radix \in Radixes /\ first \in Nat /\ last_idx \in Nat /\ Count \in Int
      /\ last_idx = first + Count /\ Capacity \in 1..MaxPower /\ MaxPower \in Nat
  BY <1>1, TextFacts DEF TextIInv
<1>3. Count \in 1..MaxPower /\ Count \in Nat
  BY <1>1, <1>2
<1>4. \A k \in first .. (last_idx - 1) : str[k] \in 0 .. (radix - 1)
  BY DEF TextIInv, Characters
<1>5. \A k \in 0 .. (Count - 1) : first + k \in first .. (last_idx - 1)
  BY <1>2, <1>3
<1>6. \A k \in 0 .. (Count - 1) : str[first + k] \in Nat /\ str[first + k] < radix
  <2>1. \A k \in 0 .. (Count - 1) : str[first + k] \in 0 .. (radix - 1)
    BY <1>4, <1>5
  <2> QED BY <1>2, <2>1
<1>7. \A k \in 0 .. (Count - 1) : f[first + k] \in Int /\ g[k] = f[first + k]
  <2> SUFFICES ASSUME NEW k \in 0 .. (Count - 1)
               PROVE  f[first + k] \in Int /\ g[k] = f[first + k]
    OBVIOUS
  <2>1. last_idx - 1 - (first + k) = Count - 1 - k /\ Count - 1 - k \in 0..MaxPower
    BY <1>2, <1>3
  <2>2. Power[radix][Count - 1 - k] \in Nat
    BY <1>2, <2>1, PowerFacts
  <2>3. f[first + k] = str[first + k] * Power[radix][Count - 1 - k]
    BY <1>5, <2>1
  <2>4. g[k] = str[first + k] * Power[radix][Count - 1 - k]
    OBVIOUS
  <2>5. str[first + k] * Power[radix][Count - 1 - k] \in Int
    BY <1>6, <2>2
  <2> QED BY <2>3, <2>4, <2>5
<1>8. DOMAIN f = first .. (first + Count - 1) /\ DOMAIN g = 0 .. (Count - 1)
  BY <1>2
<1>9. Spelled = SumFunction(f) /\ Numeral(z, radix, Count) = SumFunction(g)
  BY DEF Spelled, Numeral
<1>10. SumFunction(f) = SumFunction(g)
  <2> DEFINE c == Count
             lo == first
  <2>1. lo \in Int /\ c \in Nat /\ DOMAIN f = lo .. (lo + c - 1) /\ DOMAIN g = 0 .. (c - 1)
        /\ \A k \in 0 .. (c - 1) : f[lo + k] \in Int /\ g[k] = f[lo + k]
    BY <1>2, <1>3, <1>7, <1>8
  <2> HIDE DEF f, g, c, lo
  <2> QED BY ONLY <2>1, SumShifted
<1> QED BY <1>3, <1>6, <1>9, <1>10

\* A numeral that bn_init reads in a base and bn_tostring prints in the same base
\* comes back digit by digit, but for the zeros in front of it, of which it keeps
\* none unless all its digits are 0 (bignum.c:431-457, 553-598): for every word
\* size, base and length.
THEOREM NumeralsComeBack == WordsSpec => []NumeralComesBack
<1>1. LoopIInv /\ TextIInv /\ PrintedIsComputed => NumeralComesBack
  <2> SUFFICES ASSUME LoopIInv, TextIInv, PrintedIsComputed,
                      ret = "OK", op = "init", radix = a[0]
               PROVE  NumeralComesBack
    BY DEF NumeralComesBack
  <2> DEFINE m == Count
             n == wcount(b)
             z == [k \in 0 .. (Count - 1) |-> str[first + k]]
  <2>1. /\ m \in 1..MaxPower /\ \A k \in 0 .. (m - 1) : z[k] \in Nat /\ z[k] < radix
        /\ Spelled = Numeral(z, radix, m)
    BY SpelledIsANumeral
  <2>2. m \in Nat /\ m = last_idx - first /\ MaxPower \in Nat
    BY <2>1, WeightFacts DEF Count
  <2>3. /\ radix \in Radixes /\ n \in 1..MaxDigits /\ IsArray(b, n)
        /\ \A k \in DOMAIN b : b[k] < radix
    BY DEF LoopIInv, Layout, Sizes
  <2>4. n \in 0..MaxPower /\ n \in Nat /\ n >= 1
    BY <2>3 DEF IsArray
  <2>5. \A k \in 0 .. (n - 1) : b[k] \in Nat /\ b[k] < radix
    BY <2>3, ArrayFacts
  <2>6. Numeral(z, radix, m) = Numeral(b, radix, n)
    BY <2>1 DEF PrintedIsComputed, NumeralPrefix, Numeral
  <2>7. m = 1 \/ z[0] # 0
    <3>1. str[first] # 0 \/ last_idx = first + 1
      BY DEF PrintedIsComputed
    <3>2. first \in Int /\ last_idx = first + m
      <4>1. text_pc = "done"
        BY DEF TextIInv, Blocks
      <4> QED BY <4>1, TextFacts DEF TextIInv
    <3> QED BY <2>1, <3>1, <3>2
  <2> HIDE DEF m, n, z
  <2>8. m <= n
    <3> SUFFICES ASSUME m > n PROVE FALSE
      BY <2>2, <2>4
    <3>1. m \in n..MaxPower /\ m - n \in 0..MaxPower /\ 0 \in 0 .. (m - n - 1)
      BY <2>1, <2>2, <2>4
    <3>2. Numeral(z, radix, m - n) = 0
      BY <2>1, <2>3, <2>4, <2>5, <2>6, <3>1, SameNumeral
    <3>3. \A k \in 0 .. (m - n - 1) : z[k] \in Nat /\ z[k] < radix
      BY <2>1, <2>2, <2>4
    <3>4. z[0] = 0
      BY <2>3, <3>1, <3>2, <3>3, ZeroNumeral
    <3> QED BY <2>4, <2>7, <3>4
  <2>9. n \in m..MaxPower /\ m \in 0..MaxPower /\ n - m \in 0..MaxPower
    BY <2>1, <2>2, <2>4, <2>8
  <2>10. /\ \A k \in 0 .. (m - 1) : z[k] = b[n - m + k]
         /\ Numeral(b, radix, n - m) = 0
    BY <2>1, <2>3, <2>5, <2>6, <2>9, SameNumeral
  <2>11. \A k \in 0 .. (n - m - 1) : b[k] = 0
    <3>1. \A k \in 0 .. (n - m - 1) : b[k] \in Nat /\ b[k] < radix
      BY <2>2, <2>4, <2>5
    <3> QED BY <2>3, <2>9, <2>10, <3>1, ZeroNumeral
  <2>12. b[n - m] # 0 \/ n - m = n - 1
    <3>1. 0 \in 0 .. (m - 1) /\ n - m + 0 = n - m
      BY <2>1, <2>4, <2>9
    <3>2. z[0] = b[n - m]
      BY <2>10, <3>1
    <3> QED BY <2>7, <3>2
  <2>13. \A k \in 0 .. (m - 1) : str[first + k] = b[n - m + k]
    BY <2>10 DEF z, m
  <2>14. n - m >= 0
    BY <2>2, <2>4, <2>8
  <2> QED BY <2>2, <2>11, <2>12, <2>13, <2>14 DEF NumeralComesBack, m, n
<1> QED BY <1>1, LoopInvariance, TextInvariance, PrintsTheResult, PTL

----------------------------------------------------------------------------
(* Every step comes nearer to the end.                                     *)

\* The loops: the words or digits of b to come, the parts of a row to come, the
\* words to come of mul_with_carry, of the accumulation or of the trimming, what is
\* left of such a word, and the words a carry chain can still reach.
RowsLeft == wcount(b) - row
PartsLeft ==
    CASE Phase = "row" -> 4 [] Phase \in {"scale", "scaled"} -> 3
      [] Phase \in {"accumulate", "accumulated", "added", "trim", "digit"} -> 2 [] OTHER -> 0
WordsLeft ==
    CASE Phase \in {"scale", "scaled"} -> col + 1
      [] Phase \in {"accumulate", "accumulated"} -> msw_tmp + 1 - col
      [] Phase = "trim" -> msw [] OTHER -> 0
StepsLeft ==
    CASE loop_pc \in {"scale", "accumulate"} -> 3 [] loop_pc = "chain" -> 2
      [] loop_pc \in {"scaled", "accumulated", "added", "trim", "digit"} -> 1 [] OTHER -> 0
ReachLeft == IF loop_pc = "chain" THEN wcount(arrays[chain.array]) - at ELSE 0

\* bn_tostring: the stages to come, the digits the buffer has room for or the pairs
\* to swap, and the words to divide for this digit.
StagesLeft ==
    CASE text_pc = "idle" -> 6 [] text_pc = "alloc" -> 5 [] text_pc = "copy" -> 4
      [] text_pc \in {"digit", "divide"} -> 3 [] text_pc = "reverse" -> 2 [] OTHER -> 0
DigitsLeft ==
    CASE text_pc \in {"digit", "divide"} -> slen + 1 - last_idx
      [] text_pc = "reverse" -> ptr_last_idx \div 2 + 1 - i [] OTHER -> 0
DivisionsLeft ==
    CASE text_pc = "digit" -> msw_idx + 2 [] text_pc = "divide" -> i + 1 [] OTHER -> 0

ToDo == IF text_pc = "idle"
        THEN <<StagesLeft, RowsLeft, PartsLeft, WordsLeft, StepsLeft, ReachLeft>>
        ELSE <<StagesLeft, DigitsLeft, DivisionsLeft, 0, 0, 0>>

\* Less in the first of the six numbers that is not the same.
Less == LexProductOrdering(OpToRel(<, Nat), Nat, 6)
WordsNearer == <<ToDo', ToDo>> \in Less

LEMMA LessIs ==
    ASSUME NEW x1 \in Nat, NEW x2 \in Nat, NEW x3 \in Nat, NEW x4 \in Nat, NEW x5 \in Nat,
           NEW x6 \in Nat, NEW y1 \in Nat, NEW y2 \in Nat, NEW y3 \in Nat, NEW y4 \in Nat,
           NEW y5 \in Nat, NEW y6 \in Nat,
           \/ x1 < y1
           \/ x1 = y1 /\ x2 < y2
           \/ x1 = y1 /\ x2 = y2 /\ x3 < y3
           \/ x1 = y1 /\ x2 = y2 /\ x3 = y3 /\ x4 < y4
           \/ x1 = y1 /\ x2 = y2 /\ x3 = y3 /\ x4 = y4 /\ x5 < y5
           \/ x1 = y1 /\ x2 = y2 /\ x3 = y3 /\ x4 = y4 /\ x5 = y5 /\ x6 < y6
    PROVE  <<<<x1, x2, x3, x4, x5, x6>>, <<y1, y2, y3, y4, y5, y6>>>> \in Less
<1> DEFINE x == <<x1, x2, x3, x4, x5, x6>>
           y == <<y1, y2, y3, y4, y5, y6>>
<1>1. x \in [1..6 -> Nat] /\ y \in [1..6 -> Nat]
  OBVIOUS
<1>2. \E j \in 1..6 : (\A k \in 1..(j-1) : x[k] = y[k]) /\ x[j] < y[j]
  <2>1. CASE x1 < y1
    BY <2>1
  <2>2. CASE x1 = y1 /\ x2 < y2
    <3>1. \A k \in 1..(2-1) : x[k] = y[k]
      BY <2>2
    <3> QED BY <2>2, <3>1
  <2>3. CASE x1 = y1 /\ x2 = y2 /\ x3 < y3
    <3>1. \A k \in 1..(3-1) : x[k] = y[k]
      BY <2>3
    <3> QED BY <2>3, <3>1
  <2>4. CASE x1 = y1 /\ x2 = y2 /\ x3 = y3 /\ x4 < y4
    <3>1. \A k \in 1..(4-1) : x[k] = y[k]
      BY <2>4
    <3> QED BY <2>4, <3>1
  <2>5. CASE x1 = y1 /\ x2 = y2 /\ x3 = y3 /\ x4 = y4 /\ x5 < y5
    <3>1. \A k \in 1..(5-1) : x[k] = y[k]
      BY <2>5
    <3> QED BY <2>5, <3>1
  <2>6. CASE x1 = y1 /\ x2 = y2 /\ x3 = y3 /\ x4 = y4 /\ x5 = y5 /\ x6 < y6
    <3>1. \A k \in 1..(6-1) : x[k] = y[k]
      BY <2>6
    <3> QED BY <2>6, <3>1
  <2> QED BY <2>1, <2>2, <2>3, <2>4, <2>5, <2>6
<1>3. \A j \in 1..6 : x[j] \in Nat /\ y[j] \in Nat
  BY <1>1
<1> HIDE DEF x, y
<1>4. PICK j \in 1..6 : (\A k \in 1..(j-1) : x[k] = y[k]) /\ x[j] < y[j]
  BY <1>2
<1>5. <<x[j], y[j]>> \in OpToRel(<, Nat)
  BY <1>3, <1>4 DEF OpToRel
<1>6. <<x, y>> \in Less
  BY <1>1, <1>4, <1>5 DEF Less, LexProductOrdering
<1> QED BY <1>6 DEF x, y

LEMMA LessIsWellFounded == IsWellFoundedOn(Less, [1..6 -> Nat])
BY NatLessThanWellFounded, WFLexProductOrdering DEF Less

LoopNearer ==
    \/ RowsLeft' < RowsLeft
    \/ RowsLeft' = RowsLeft /\ PartsLeft' < PartsLeft
    \/ RowsLeft' = RowsLeft /\ PartsLeft' = PartsLeft /\ WordsLeft' < WordsLeft
    \/ /\ RowsLeft' = RowsLeft /\ PartsLeft' = PartsLeft /\ WordsLeft' = WordsLeft
       /\ StepsLeft' < StepsLeft
    \/ /\ RowsLeft' = RowsLeft /\ PartsLeft' = PartsLeft /\ WordsLeft' = WordsLeft
       /\ StepsLeft' = StepsLeft /\ ReachLeft' < ReachLeft

LEMMA LoopLeftNat ==
    ASSUME Layout
    PROVE  /\ RowsLeft \in Nat /\ PartsLeft \in Nat /\ WordsLeft \in Nat
           /\ StepsLeft \in Nat /\ ReachLeft \in Nat
<1>1. /\ wcount(b) \in Nat /\ row \in 0..wcount(b) /\ msw \in Nat /\ msw_tmp \in Nat
      /\ col \in Int /\ -1 <= col /\ at \in Nat
  BY LayoutFacts
<1>2. RowsLeft \in Nat /\ PartsLeft \in Nat /\ StepsLeft \in Nat
  BY <1>1 DEF RowsLeft, PartsLeft, StepsLeft
<1>3. WordsLeft \in Nat
  <2>1. Phase \in {"accumulate", "accumulated"} => col <= msw_tmp + 1
    BY DEF Layout, Indices
  <2> HIDE DEF Phase
  <2> QED BY <1>1, <2>1 DEF WordsLeft
<1>4. ReachLeft \in Nat
  <2>1. CASE loop_pc = "chain"
    <3>1. chain.array = Target /\ at < wcount(arrays[Target])
      BY <2>1 DEF Layout, Phases, Indices
    <3>2. wcount(arrays[Target]) \in Nat
      BY LayoutFacts
    <3> QED BY <1>1, <2>1, <3>1, <3>2 DEF ReachLeft
  <2>2. CASE loop_pc # "chain"
    BY <2>2 DEF ReachLeft
  <2> QED BY <2>1, <2>2
<1> QED BY <1>2, <1>3, <1>4

LEMMA NearerRow ==
    ASSUME Layout, b' = b, row' = row + 1
    PROVE  LoopNearer
<1>1. wcount(b) \in Nat /\ row \in Nat /\ wcount(b)' = wcount(b)
  BY LayoutFacts DEF wcount
<1>2. RowsLeft' < RowsLeft
  BY <1>1 DEF RowsLeft
<1> QED BY <1>2 DEF LoopNearer

LEMMA NearerPart ==
    ASSUME Layout, UNCHANGED <<b, row>>, PartsLeft' < PartsLeft
    PROVE  LoopNearer
<1>1. RowsLeft' = RowsLeft
  BY DEF RowsLeft, wcount
<1> QED BY <1>1 DEF LoopNearer

LEMMA NearerOob ==
    ASSUME Layout, UNCHANGED b, OutOfBounds, Phase \notin {"done", "oob"}
    PROVE  LoopNearer
<1>1. row' = row /\ Phase' = "oob"
  BY DEF OutOfBounds, Phase
<1>2. Phase \in {"row", "scale", "scaled", "accumulate", "accumulated", "added", "trim", "digit"}
  BY DEF Layout, Phases
<1>3. PartsLeft' = 0 /\ PartsLeft > 0
  BY <1>1, <1>2 DEF PartsLeft
<1> QED BY <1>1, <1>3, NearerPart

LEMMA NearerCounts ==
    ASSUME Layout, CountAdded \/ CountDigit \/ Trim \/ CountScaled \/ CountAccumulated
    PROVE  LoopNearer
<1>1. CASE CountAdded \/ CountDigit
  <2>1. b' = b /\ row' = row + 1
    BY <1>1 DEF CountAdded, CountDigit
  <2> QED BY <2>1, NearerRow
<1>2. CASE Trim
  <2>1. loop_pc = "trim" /\ b' = b /\ msw \in Nat
    BY <1>2, LayoutFacts DEF Trim
  <2>2. CASE row' = row + 1
    BY <2>1, <2>2, NearerRow
  <2>3. CASE row' # row + 1
    <3>1. msw' = msw - 1 /\ row' = row /\ loop_pc' = loop_pc
      BY <1>2, <2>3 DEF Trim
    <3>2. Phase = "trim" /\ Phase' = "trim"
      BY <2>1, <3>1 DEF Phase
    <3>3. RowsLeft' = RowsLeft /\ PartsLeft' = PartsLeft
      BY <2>1, <3>1, <3>2 DEF RowsLeft, PartsLeft, wcount
    <3>4. WordsLeft' < WordsLeft
      BY <2>1, <3>1, <3>2 DEF WordsLeft
    <3> QED BY <3>3, <3>4 DEF LoopNearer
  <2> QED BY <2>2, <2>3
<1>3. CASE CountScaled
  <2>1. /\ loop_pc = "scaled" /\ loop_pc' = "scale" /\ b' = b /\ row' = row /\ col' = col - 1
        /\ col \in Int
    BY <1>3, LayoutFacts DEF CountScaled
  <2>2. Phase = "scaled" /\ Phase' = "scale"
    BY <2>1 DEF Phase
  <2>3. RowsLeft' = RowsLeft /\ PartsLeft' = PartsLeft
    BY <2>1, <2>2 DEF RowsLeft, PartsLeft, wcount
  <2>4. WordsLeft' < WordsLeft
    BY <2>1, <2>2 DEF WordsLeft
  <2> QED BY <2>3, <2>4 DEF LoopNearer
<1>4. CASE CountAccumulated
  <2>1. /\ loop_pc = "accumulated" /\ loop_pc' = "accumulate" /\ b' = b /\ row' = row
        /\ col' = col + 1 /\ col \in Int /\ msw_tmp' = msw_tmp /\ msw_tmp \in Nat
    BY <1>4, LayoutFacts DEF CountAccumulated
  <2>2. Phase = "accumulated" /\ Phase' = "accumulate"
    BY <2>1 DEF Phase
  <2>3. RowsLeft' = RowsLeft /\ PartsLeft' = PartsLeft
    BY <2>1, <2>2 DEF RowsLeft, PartsLeft, wcount
  <2>4. WordsLeft' < WordsLeft
    BY <2>1, <2>2 DEF WordsLeft
  <2> QED BY <2>3, <2>4 DEF LoopNearer
<1> QED BY <1>1, <1>2, <1>3, <1>4

LEMMA NearerChain ==
    ASSUME Layout, Propagate \/ EndChain
    PROVE  LoopNearer
<1>1. loop_pc = "chain" /\ b' = b /\ at \in Nat
      /\ Phase \in {"added", "trim", "scaled", "accumulated", "digit"} /\ chain.array = Target
  BY LayoutFacts DEF Propagate, EndChain, Layout, Phases
<1>2. CASE OutOfBounds
  BY <1>1, <1>2, NearerOob
<1>3. CASE Propagate /\ ~OutOfBounds
  <2>1. /\ at + 1 \in 0 .. (wcount(arrays[Target]) - 1) /\ Target \in Names
        /\ \E w \in Word : OneWritten(arrays, arrays', Target, at + 1, w)
        /\ at' = at + 1 /\ loop_pc' = "chain"
        /\ UNCHANGED <<row, col, chain, msw, msw_tmp>> /\ Phase' = Phase /\ Target' = Target
    BY <1>3, ChainGoesOn
  <2>2. wcount(arrays'[Target]) = wcount(arrays[Target])
    BY <2>1 DEF OneWritten, SameShape
  <2>3. RowsLeft' = RowsLeft /\ PartsLeft' = PartsLeft /\ WordsLeft' = WordsLeft
        /\ StepsLeft' = StepsLeft
    BY <1>1, <2>1 DEF RowsLeft, PartsLeft, WordsLeft, StepsLeft, wcount
  <2>4. wcount(arrays[Target]) \in Nat /\ at \in Nat
    BY <2>1, LayoutFacts
  <2>5. ReachLeft = wcount(arrays[Target]) - at /\ ReachLeft' = wcount(arrays[Target]) - (at + 1)
    BY <1>1, <2>1, <2>2 DEF ReachLeft
  <2>6. ReachLeft' < ReachLeft
    BY <2>4, <2>5
  <2> QED BY <2>3, <2>6 DEF LoopNearer
<1>4. CASE EndChain
  <2>1. /\ loop_pc' = Phase /\ Phase' = Phase
        /\ UNCHANGED <<b, arrays, row, col, at, old, chain, msw, msw_tmp>>
    BY <1>4, ChainEnds
  <2>2. RowsLeft' = RowsLeft /\ PartsLeft' = PartsLeft /\ WordsLeft' = WordsLeft
    BY <2>1 DEF RowsLeft, PartsLeft, WordsLeft, wcount
  <2>3. StepsLeft' < StepsLeft
    <3>1. StepsLeft = 2
      BY <1>1 DEF StepsLeft
    <3>2. StepsLeft' = 1
      BY <1>1, <2>1 DEF StepsLeft
    <3> QED BY <3>1, <3>2
  <2> QED BY <2>2, <2>3 DEF LoopNearer
<1> QED BY <1>2, <1>3, <1>4

LEMMA StartsIn ==
    ASSUME NEW t, NEW j, NEW s, NEW v, NEW after, StartChain(t, j, s, v, after)
    PROVE  \/ OutOfBounds
           \/ loop_pc' = "chain" /\ Phase' = after /\ UNCHANGED <<row, col, msw, msw_tmp>>
BY DEF StartChain, Phase

LEMMA NearerRows ==
    ASSUME Layout, StartRow \/ EndRows
    PROVE  LoopNearer
<1>1. loop_pc = "row" /\ b' = b /\ Phase = "row" /\ PartsLeft = 4
  BY DEF StartRow, EndRows, Phase, PartsLeft
<1>2. CASE EndRows
  <2>1. row' = row /\ Phase' = "done"
    BY <1>2 DEF EndRows, Phase
  <2>2. PartsLeft' = 0
    BY <2>1 DEF PartsLeft
  <2> QED BY <1>1, <2>1, <2>2, NearerPart
<1>3. CASE StartRow
  <2>1. CASE OutOfBounds
    BY <1>1, <2>1, NearerOob
  <2>2. CASE ~OutOfBounds
    <3>1. row' = row /\ Phase' \in {"added", "trim", "scale"}
      <4>1. CASE op = "add" /\ StartChain("dst", row, 1, b[row], "added")
        BY <2>2, <4>1, StartsIn
      <4>2. CASE op = "sub" /\ StartChain("dst", row, -1, b[row], "trim")
        BY <2>2, <4>2, StartsIn
      <4>3. CASE loop_pc' = "scale" /\ row' = row
        BY <4>3 DEF Phase
      <4> QED BY <1>3, <4>1, <4>2, <4>3 DEF StartRow
    <3>2. PartsLeft' \in {2, 3}
      BY <3>1 DEF PartsLeft
    <3> QED BY <1>1, <3>1, <3>2, NearerPart
  <2> QED BY <2>1, <2>2
<1> QED BY <1>2, <1>3

LEMMA NearerScale ==
    ASSUME Layout, Scale \/ EndScale
    PROVE  LoopNearer
<1>1. loop_pc = "scale" /\ b' = b /\ Phase = "scale" /\ PartsLeft = 3 /\ col \in Int
  BY LayoutFacts DEF Scale, EndScale, Phase, PartsLeft
<1>2. CASE OutOfBounds
  BY <1>1, <1>2, NearerOob
<1>3. CASE Scale /\ ~OutOfBounds
  <2>1. /\ row' = row
        /\ \/ col' = col - 1 /\ loop_pc' = "scale"
           \/ col' = col /\ loop_pc' = "chain" /\ chain'.after = "scaled"
    BY <1>1, <1>3 DEF Scale, OutOfBounds
  <2>2. RowsLeft' = RowsLeft
    BY <1>1, <2>1 DEF RowsLeft, wcount
  <2>3. CASE col' = col - 1 /\ loop_pc' = "scale"
    <3>1. Phase' = "scale"
      BY <2>3 DEF Phase
    <3>2. PartsLeft' = PartsLeft /\ WordsLeft' < WordsLeft
      BY <1>1, <2>3, <3>1 DEF PartsLeft, WordsLeft
    <3> QED BY <2>2, <3>2 DEF LoopNearer
  <2>4. CASE col' = col /\ loop_pc' = "chain" /\ chain'.after = "scaled"
    <3>1. Phase' = "scaled"
      BY <2>4 DEF Phase
    <3>2. PartsLeft' = PartsLeft /\ WordsLeft' = WordsLeft
      BY <1>1, <2>4, <3>1 DEF PartsLeft, WordsLeft
    <3>3. StepsLeft' < StepsLeft
      BY <1>1, <2>4 DEF StepsLeft
    <3> QED BY <2>2, <3>2, <3>3 DEF LoopNearer
  <2> QED BY <2>1, <2>3, <2>4
<1>4. CASE EndScale /\ ~OutOfBounds
  <2>1. row' = row /\ Phase' \in {"accumulate", "digit"}
    <3>1. CASE StartChain("dst", 0, 1, b[row], "digit")
      BY <1>4, <3>1, StartsIn
    <3>2. CASE loop_pc' = "accumulate" /\ row' = row
      BY <3>2 DEF Phase
    <3> QED BY <1>4, <3>1, <3>2 DEF EndScale
  <2>2. PartsLeft' = 2
    BY <2>1 DEF PartsLeft
  <2> QED BY <1>1, <2>1, <2>2, NearerPart
<1> QED BY <1>2, <1>3, <1>4

LEMMA NearerAccumulate ==
    ASSUME Layout, Accumulate
    PROVE  LoopNearer
<1>1. loop_pc = "accumulate" /\ b' = b /\ Phase = "accumulate"
  BY DEF Accumulate, Phase
<1>2. CASE OutOfBounds
  BY <1>1, <1>2, NearerOob
<1>3. CASE row' = row + 1
  BY <1>1, <1>3, NearerRow
<1>4. CASE ~OutOfBounds /\ row' # row + 1
  <2>1. StartChain("dst", col + row, 1, arrays.tmp[col], "accumulated")
    BY <1>4 DEF Accumulate
  <2>2. loop_pc' = "chain" /\ Phase' = "accumulated" /\ UNCHANGED <<row, col, msw, msw_tmp>>
    BY <1>4, <2>1, StartsIn
  <2>3. RowsLeft' = RowsLeft /\ PartsLeft' = PartsLeft /\ WordsLeft' = WordsLeft
    BY <1>1, <2>2 DEF RowsLeft, PartsLeft, WordsLeft, wcount
  <2>4. StepsLeft' < StepsLeft
    BY <1>1, <2>2 DEF StepsLeft
  <2> QED BY <2>3, <2>4 DEF LoopNearer
<1> QED BY <1>2, <1>3, <1>4

LEMMA LoopsComeNearer ==
    ASSUME Layout, LoopNext
    PROVE  LoopNearer
BY NearerRows, NearerChain, NearerCounts, NearerScale, NearerAccumulate DEF LoopNext

TextNearer ==
    \/ StagesLeft' < StagesLeft
    \/ StagesLeft' = StagesLeft /\ DigitsLeft' < DigitsLeft
    \/ StagesLeft' = StagesLeft /\ DigitsLeft' = DigitsLeft /\ DivisionsLeft' < DivisionsLeft

LEMMA TextLeftNat ==
    ASSUME TextIInv
    PROVE  StagesLeft \in Nat /\ DigitsLeft \in Nat /\ DivisionsLeft \in Nat
<1>1. StagesLeft \in Nat
  BY DEF StagesLeft
<1>2. CASE text_pc \in {"digit", "divide"}
  <2>1. TextLayout /\ text_pc # "idle" /\ Count <= Capacity
    BY <1>2, TextFacts DEF TextIInv, Divides
  <2>2. /\ first \in {0, 1} /\ last_idx \in Nat /\ last_idx = first + Count /\ Count \in Int
        /\ Capacity \in Nat /\ slen = Capacity + first
    BY <2>1, TextFacts
  <2>3. slen + 1 - last_idx \in Nat
    BY <2>1, <2>2
  <2>4. msw_idx + 2 \in Nat /\ i + 1 \in Nat
    <3>1. wcount(words) \in Nat /\ msw_idx \in -1 .. (wcount(words) - 1)
      BY <2>1, TextFacts DEF TextLayout
    <3>2. MaxPower \in Nat /\ i \in -1..MaxPower
      BY <2>1, TextFacts DEF TextLayout
    <3> QED BY <3>1, <3>2
  <2> QED BY <1>1, <1>2, <2>3, <2>4 DEF DigitsLeft, DivisionsLeft
<1>3. CASE text_pc = "reverse"
  <2>1. TextLayout /\ text_pc # "idle" /\ first < last_idx /\ i \in Nat
        /\ (i > 0 => i - 1 <= ptr_last_idx \div 2)
    BY <1>3 DEF TextIInv, Reverses
  <2>2. first \in {0, 1} /\ last_idx \in Nat
    BY <2>1, TextFacts
  <2>3. ptr_last_idx \in Nat
    BY <2>1, <2>2 DEF ptr_last_idx
  <2>4. ptr_last_idx \div 2 \in Nat
    BY <2>3
  <2>5. ptr_last_idx \div 2 + 1 - i \in Nat
    BY <2>1, <2>4
  <2> QED BY <1>1, <1>3, <2>5 DEF DigitsLeft, DivisionsLeft
<1>4. CASE text_pc \notin {"digit", "divide", "reverse"}
  BY <1>1, <1>4 DEF DigitsLeft, DivisionsLeft
<1> QED BY <1>2, <1>3, <1>4

LEMMA TextComesNearer ==
    ASSUME TextIInv, TextSteps
    PROVE  TextNearer
<1>1. CASE Alloc \/ Copy \/ Terminate \/ Deliver
  <2>1. \/ text_pc = "alloc" /\ text_pc' \in {"copy", "done"}
        \/ text_pc = "copy" /\ text_pc' \in {"digit", "done"}
        \/ text_pc = "digit" /\ text_pc' \in {"reverse", "oob"}
        \/ text_pc = "reverse" /\ text_pc' = "done"
    BY <1>1 DEF Alloc, Copy, Terminate, Deliver
  <2>2. StagesLeft' < StagesLeft
    BY <2>1 DEF StagesLeft
  <2> QED BY <2>2 DEF TextNearer
<1>2. CASE StartDigit \/ Divide \/ PutDigit
  <2>1. text_pc \in {"digit", "divide"} /\ text_pc # "idle" /\ TextLayout /\ UNCHANGED object
    BY <1>2 DEF StartDigit, Divide, PutDigit, TextIInv
  <2>2. slen' = slen
    BY <2>1 DEF object, slen
  <2>3. slen \in Int /\ last_idx \in Int
    BY <2>1, TextFacts
  <2>4. msw_idx \in Int /\ i \in Int
    <3>1. wcount(words) \in Nat /\ MaxPower \in Nat
      BY <2>1, TextFacts
    <3> QED BY <2>1, <3>1 DEF TextLayout
  <2>5. CASE StartDigit
    <3>1. /\ text_pc = "digit" /\ text_pc' = "divide" /\ i' = msw_idx /\ last_idx' = last_idx
      BY <2>5 DEF StartDigit
    <3>2. StagesLeft' = StagesLeft /\ DigitsLeft' = DigitsLeft /\ DivisionsLeft' < DivisionsLeft
      BY <2>2, <2>4, <3>1 DEF StagesLeft, DigitsLeft, DivisionsLeft
    <3> QED BY <3>2 DEF TextNearer
  <2>6. CASE Divide
    <3>1. /\ text_pc = "divide" /\ text_pc' = "divide" /\ i' = i - 1 /\ last_idx' = last_idx
      BY <2>6 DEF Divide
    <3>2. StagesLeft' = StagesLeft /\ DigitsLeft' = DigitsLeft /\ DivisionsLeft' < DivisionsLeft
      BY <2>2, <2>4, <3>1 DEF StagesLeft, DigitsLeft, DivisionsLeft
    <3> QED BY <3>2 DEF TextNearer
  <2>7. CASE PutDigit
    <3>1. /\ text_pc = "divide"
          /\ \/ last_idx' = last_idx + 1 /\ text_pc' = "digit"
             \/ text_pc' = "oob"
      BY <2>7 DEF PutDigit
    <3>2. CASE text_pc' = "oob"
      <4>1. StagesLeft' < StagesLeft
        BY <3>1, <3>2 DEF StagesLeft
      <4> QED BY <4>1 DEF TextNearer
    <3>3. CASE last_idx' = last_idx + 1 /\ text_pc' = "digit"
      <4>1. StagesLeft' = StagesLeft /\ DigitsLeft' < DigitsLeft
        BY <2>2, <2>3, <3>1, <3>3 DEF StagesLeft, DigitsLeft
      <4> QED BY <4>1 DEF TextNearer
    <3> QED BY <3>1, <3>2, <3>3
  <2> QED BY <1>2, <2>5, <2>6, <2>7
<1>3. CASE Swap
  <2>1. /\ text_pc = "reverse" /\ text_pc' = "reverse" /\ i' = i + 1 /\ i \in Nat
        /\ UNCHANGED <<object, last_idx>>
    BY <1>3 DEF Swap, TextIInv, Reverses
  <2>2. ptr_last_idx' = ptr_last_idx
    BY <2>1 DEF ptr_last_idx, first, object
  <2>3. DigitsLeft = ptr_last_idx \div 2 + 1 - i /\ DigitsLeft \in Nat
    BY <1>3, <2>1, TextLeftNat DEF DigitsLeft
  <2>4. DigitsLeft' = ptr_last_idx \div 2 + 1 - (i + 1)
    BY <2>1, <2>2 DEF DigitsLeft
  <2>5. ptr_last_idx \div 2 \in Int
    <3>1. ptr_last_idx \in Int
      <4>1. TextLayout /\ text_pc # "idle"
        BY <2>1 DEF TextIInv
      <4>2. first \in {0, 1} /\ last_idx \in Nat
        BY <4>1, TextFacts
      <4> QED BY <4>2 DEF ptr_last_idx
    <3> QED BY <3>1
  <2>6. StagesLeft' = StagesLeft /\ DigitsLeft' < DigitsLeft
    BY <2>1, <2>3, <2>4, <2>5 DEF StagesLeft
  <2> QED BY <2>6 DEF TextNearer
<1> QED BY <1>1, <1>2, <1>3 DEF TextSteps

LEMMA ToDoIs ==
    /\ text_pc = "idle" =>
          ToDo = <<StagesLeft, RowsLeft, PartsLeft, WordsLeft, StepsLeft, ReachLeft>>
    /\ text_pc # "idle" => ToDo = <<StagesLeft, DigitsLeft, DivisionsLeft, 0, 0, 0>>
BY DEF ToDo

\* Every step of a call leaves less to do, in an order in which nothing decreases
\* for ever: of the loops the rows, then the words of a row, then those a carry
\* chain can still reach, which is why a chain ends for all that it moves its bound
\* (bignum.c:126-219); of bn_tostring the digits there is room for, then the words
\* to divide, for all that the division lowers its own bound (bignum.c:559-582).
THEOREM WordsNearTheEnd ==
    /\ IsWellFoundedOn(Less, [1..6 -> Nat])
    /\ WordsSpec => [][WordsNearer]_words_vars
<1>1. LoopIInv /\ TextIInv =>
         /\ StagesLeft \in Nat /\ DigitsLeft \in Nat /\ DivisionsLeft \in Nat
         /\ RowsLeft \in Nat /\ PartsLeft \in Nat /\ WordsLeft \in Nat
         /\ StepsLeft \in Nat /\ ReachLeft \in Nat
  BY LoopLeftNat, TextLeftNat DEF LoopIInv
<1>2. (LoopIInv /\ TextIInv)' =>
         /\ (StagesLeft \in Nat)' /\ (DigitsLeft \in Nat)' /\ (DivisionsLeft \in Nat)'
         /\ (RowsLeft \in Nat)' /\ (PartsLeft \in Nat)' /\ (WordsLeft \in Nat)'
         /\ (StepsLeft \in Nat)' /\ (ReachLeft \in Nat)'
  BY <1>1, PTL
<1>3. (text_pc' = "idle" =>
          ToDo' = <<StagesLeft', RowsLeft', PartsLeft', WordsLeft', StepsLeft', ReachLeft'>>)
      /\ (text_pc' # "idle" => ToDo' = <<StagesLeft', DigitsLeft', DivisionsLeft', 0, 0, 0>>)
  BY DEF ToDo
<1>4. LoopIInv /\ TextIInv /\ (LoopIInv /\ TextIInv)' /\ [WordsNext]_words_vars
         => [WordsNearer]_words_vars
  <2> SUFFICES ASSUME LoopIInv, TextIInv, (LoopIInv /\ TextIInv)', WordsNext
               PROVE  WordsNearer
    OBVIOUS
  <2>1. Layout
    BY DEF LoopIInv
  <2>2. /\ StagesLeft \in Nat /\ DigitsLeft \in Nat /\ DivisionsLeft \in Nat
        /\ RowsLeft \in Nat /\ PartsLeft \in Nat /\ WordsLeft \in Nat
        /\ StepsLeft \in Nat /\ ReachLeft \in Nat
    BY <1>1
  <2>3. /\ StagesLeft' \in Nat /\ DigitsLeft' \in Nat /\ DivisionsLeft' \in Nat
        /\ RowsLeft' \in Nat /\ PartsLeft' \in Nat /\ WordsLeft' \in Nat
        /\ StepsLeft' \in Nat /\ ReachLeft' \in Nat
    BY <1>2
  <2>4. CASE Compute
    <3>1. LoopNext /\ text_pc' = text_pc
      BY <2>4 DEF Compute, text_vars
    <3>2. text_pc = "idle"
      BY <3>1, FinishedStays DEF TextIInv, TextLayout
    <3>3. StagesLeft' = StagesLeft
      BY <3>1 DEF StagesLeft
    <3>4. LoopNearer
      BY <2>1, <3>1, LoopsComeNearer
    <3>5. /\ ToDo = <<StagesLeft, RowsLeft, PartsLeft, WordsLeft, StepsLeft, ReachLeft>>
          /\ ToDo' = <<StagesLeft', RowsLeft', PartsLeft', WordsLeft', StepsLeft', ReachLeft'>>
      BY <1>3, <3>1, <3>2, ToDoIs
    <3> HIDE DEF ToDo
    <3>6. <<<<StagesLeft', RowsLeft', PartsLeft', WordsLeft', StepsLeft', ReachLeft'>>,
            <<StagesLeft, RowsLeft, PartsLeft, WordsLeft, StepsLeft, ReachLeft>>>> \in Less
      <4>1. CASE RowsLeft' < RowsLeft
        BY <2>2, <2>3, <3>3, <4>1, LessIs
      <4>2. CASE RowsLeft' = RowsLeft /\ PartsLeft' < PartsLeft
        BY <2>2, <2>3, <3>3, <4>2, LessIs
      <4>3. CASE RowsLeft' = RowsLeft /\ PartsLeft' = PartsLeft /\ WordsLeft' < WordsLeft
        BY <2>2, <2>3, <3>3, <4>3, LessIs
      <4>4. CASE /\ RowsLeft' = RowsLeft /\ PartsLeft' = PartsLeft /\ WordsLeft' = WordsLeft
                 /\ StepsLeft' < StepsLeft
        BY <2>2, <2>3, <3>3, <4>4, LessIs
      <4>5. CASE /\ RowsLeft' = RowsLeft /\ PartsLeft' = PartsLeft /\ WordsLeft' = WordsLeft
                 /\ StepsLeft' = StepsLeft /\ ReachLeft' < ReachLeft
        BY <2>2, <2>3, <3>3, <4>5, LessIs
      <4> QED BY <3>4, <4>1, <4>2, <4>3, <4>4, <4>5 DEF LoopNearer
    <3> QED BY <3>5, <3>6 DEF WordsNearer
  <2>5. CASE PrintResult
    <3>1. text_pc = "idle" /\ text_pc' = "alloc"
      BY <2>5 DEF PrintResult, bn_tostring
    <3>2. StagesLeft' < StagesLeft
      BY <3>1 DEF StagesLeft
    <3>3. /\ ToDo = <<StagesLeft, RowsLeft, PartsLeft, WordsLeft, StepsLeft, ReachLeft>>
          /\ ToDo' = <<StagesLeft', DigitsLeft', DivisionsLeft', 0, 0, 0>>
      BY <1>3, <3>1, ToDoIs
    <3>4. <<<<StagesLeft', DigitsLeft', DivisionsLeft', 0, 0, 0>>,
            <<StagesLeft, RowsLeft, PartsLeft, WordsLeft, StepsLeft, ReachLeft>>>> \in Less
      BY <2>2, <2>3, <3>2, LessIs
    <3> QED BY <3>3, <3>4 DEF WordsNearer
  <2>6. CASE Printing
    <3>1. TextSteps
      BY <2>6 DEF Printing
    <3>2. text_pc # "idle" /\ text_pc' # "idle"
      BY <3>1 DEF TextSteps, Alloc, Copy, StartDigit, Divide, PutDigit, Terminate, Swap, Deliver
    <3>3. TextNearer
      BY <3>1, TextComesNearer
    <3>4. /\ ToDo = <<StagesLeft, DigitsLeft, DivisionsLeft, 0, 0, 0>>
          /\ ToDo' = <<StagesLeft', DigitsLeft', DivisionsLeft', 0, 0, 0>>
      BY <1>3, <3>2, ToDoIs
    <3>5. <<<<StagesLeft', DigitsLeft', DivisionsLeft', 0, 0, 0>>,
            <<StagesLeft, DigitsLeft, DivisionsLeft, 0, 0, 0>>>> \in Less
      <4>1. CASE StagesLeft' < StagesLeft
        BY <2>2, <2>3, <4>1, LessIs
      <4>2. CASE StagesLeft' = StagesLeft /\ DigitsLeft' < DigitsLeft
        BY <2>2, <2>3, <4>2, LessIs
      <4>3. CASE StagesLeft' = StagesLeft /\ DigitsLeft' = DigitsLeft
                 /\ DivisionsLeft' < DivisionsLeft
        BY <2>2, <2>3, <4>3, LessIs
      <4> QED BY <3>3, <4>1, <4>2, <4>3 DEF TextNearer
    <3> QED BY <3>4, <3>5 DEF WordsNearer
  <2> QED BY <2>4, <2>5, <2>6 DEF WordsNext
<1>5. WordsSpec => [][WordsNearer]_words_vars
  BY <1>4, LoopInvariance, TextInvariance, PTL DEF WordsSpec
<1> QED BY <1>5, LessIsWellFounded
=============================================================================
