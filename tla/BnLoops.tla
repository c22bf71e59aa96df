------------------------------ MODULE BnLoops ------------------------------
(***************************************************************************)
(* The word loops of src/bignum/bignum.c, statement by statement: one      *)
(* activation of add_unsigned, sub_unsigned, bn_mul's rows or bn_init's    *)
(* digit loop on given word arrays, with the carry chains of               *)
(* add_with_carry, sub_with_carry and mul_with_carry that run inside them. *)
(* Arrays are 0-based functions to words, as in the code.  The module      *)
(* shows that the loops compute the numbers and the lengths of BnNumbers,  *)
(* on which Bignum is built, and that they stay within their buffers.      *)
(***************************************************************************)
EXTENDS BnNumbers

CONSTANTS Ops,     \* the loops this instance runs, among the four below
          MaxLen   \* bound: words of each operand

ASSUME LoopAssumption ==
    /\ Ops \subseteq {"add", "sub", "mul", "init"}
    /\ MaxLen \in Nat \ {0} /\ 2 * MaxLen <= MaxWords
    \* the multiplier of bn_init's digit loop is a word
    /\ \A radix \in Radixes : radix <= Base
    \* a numeral fits some buffer
    /\ \A radix \in Radixes, slen \in 1..MaxDigits :
          Power[radix][slen] <= Weight[MaxWords]

VARIABLES
    op,        \* which loop runs
    a,         \* its first operand: for add_unsigned max and the word after it
               \* in dst, for bn_init the radix as an array of one word
    b,         \* its second operand; for bn_init the digits
    arrays,       \* the arrays written: dst, and the scratch row tmp of bn_mul
    row,       \* index of the loop over the words, or digits, of b
    col,       \* index of the loop inside a row
    at, old,   \* a carry chain: the word last written and its value before
    chain,     \* which array the chain runs in, and what follows it
    msw,       \* the most significant word so far
    msw_tmp,   \* the same, inside mul_with_carry
    loop_pc

loop_vars == <<op, a, b, arrays, row, col, at, old, chain, msw, msw_tmp, loop_pc>>

Operands == UNION {Arrays(len) : len \in 1..MaxLen}
Digits(radix) == UNION {[0 .. (slen - 1) -> 0 .. (radix - 1)] : slen \in 1..MaxDigits}

\* a, followed by one more word.
Extended(array, word) ==
    [i \in 0 .. wcount(array) |-> IF i = wcount(array) THEN word ELSE array[i]]

Zeros(len) == [i \in 0 .. (len - 1) |-> 0]

Finished == loop_pc \in {"done", "oob"}

----------------------------------------------------------------------------
(* Carry chains.  An access past the array's last word ends the activation *)
(* with loop_pc = "oob": the assertions and the sanitizer of the test build.    *)

OutOfBounds ==
    loop_pc' = "oob" /\ UNCHANGED <<arrays, row, col, at, old, chain, msw, msw_tmp>>

\* The first statements of add_with_carry or sub_with_carry (sign -1) on the
\* words of an array from index i on, of value v.
StartChain(array, i, sign, v, after) ==
    IF i >= wcount(arrays[array])
    THEN OutOfBounds
    ELSE /\ old' = arrays[array][i]
         /\ arrays' = [arrays EXCEPT ![array][i] = (@ + sign * v) % Base]
         /\ at' = i
         /\ chain' = [array |-> array, after |-> after]
         /\ loop_pc' = "chain"
         /\ UNCHANGED <<row, col, msw, msw_tmp>>

\* The word just written wrapped around: there is a carry, or a borrow.
Wrapped_OrEqual == LET word == arrays[chain.array][at]
                   IN  IF op = "sub" THEN word > old ELSE word <= old
Wrapped == LET word == arrays[chain.array][at]
           IN  IF op = "sub" THEN word > old ELSE word < old

\* One iteration of the while loop of add_with_carry or sub_with_carry.
Propagate ==
    /\ loop_pc = "chain" /\ Wrapped
    /\ IF at + 1 = wcount(arrays[chain.array])
       THEN OutOfBounds
       ELSE /\ at' = at + 1
            /\ old' = arrays[chain.array][at + 1]
            /\ arrays' = [arrays EXCEPT ![chain.array][at + 1] =
                                  (@ + (IF op = "sub" THEN -1 ELSE 1)) % Base]
            /\ UNCHANGED <<row, col, chain, msw, msw_tmp, loop_pc>>
    /\ UNCHANGED <<op, a, b>>

EndChain ==
    /\ loop_pc = "chain" /\ ~Wrapped
    /\ loop_pc' = chain.after
    /\ UNCHANGED <<op, a, b, arrays, row, col, at, old, chain, msw, msw_tmp>>

----------------------------------------------------------------------------
(* The loops over the words of b.                                          *)

\* The next row: a word of b to add or subtract, a word to multiply a by, or
\* a digit.
StartRow ==
    /\ loop_pc = "row" /\ row < wcount(b)
    /\ \/ op = "add" /\ StartChain("dst", row, 1, b[row], "added")
       \/ op = "sub" /\ StartChain("dst", row, -1, b[row], "trim")
       \/ /\ op = "mul"
          /\ arrays' = [arrays EXCEPT !.tmp = Extended(a, 0)]
          /\ col' = wcount(a) - 1 /\ msw_tmp' = wcount(a) - 1
          /\ loop_pc' = "scale"
          /\ UNCHANGED <<row, at, old, chain, msw>>
       \/ /\ op = "init"
          /\ col' = msw /\ msw_tmp' = msw
          /\ loop_pc' = "scale"
          /\ UNCHANGED <<arrays, row, at, old, chain, msw>>
    /\ UNCHANGED <<op, a, b>>

EndRows ==
    /\ loop_pc = "row" /\ row = wcount(b)
    /\ loop_pc' = "done"
    /\ UNCHANGED <<op, a, b, arrays, row, col, at, old, chain, msw, msw_tmp>>

\* last_idx, and the test that keeps the larger index.
Higher_Ignored(index, last) == index
Higher(index, last) == IF last > index THEN last ELSE index

\* add_unsigned, after add_with_carry.
CountAdded ==
    /\ loop_pc = "added"
    /\ msw' = Higher(msw, at)
    /\ row' = row + 1 /\ loop_pc' = "row"
    /\ UNCHANGED <<op, a, b, arrays, col, at, old, chain, msw_tmp>>

\* sub_unsigned, after sub_with_carry: drop the leading zero words.
Trim_PastZero ==
    /\ loop_pc = "trim"
    /\ IF arrays.dst[msw] = 0
       THEN msw' = msw - 1 /\ UNCHANGED <<row, loop_pc>>
       ELSE row' = row + 1 /\ loop_pc' = "row" /\ UNCHANGED msw
    /\ UNCHANGED <<op, a, b, arrays, col, at, old, chain, msw_tmp>>

Trim ==
    /\ loop_pc = "trim"
    /\ IF msw > 0 /\ arrays.dst[msw] = 0
       THEN msw' = msw - 1 /\ UNCHANGED <<row, loop_pc>>
       ELSE row' = row + 1 /\ loop_pc' = "row" /\ UNCHANGED msw
    /\ UNCHANGED <<op, a, b, arrays, col, at, old, chain, msw_tmp>>

\* mul_with_carry, from the most significant word down: split word * value
\* and add the high part to the next word.  bn_mul scales the scratch row by
\* a word of b, bn_init scales its only buffer by the radix.
Scaled     == IF op = "mul" THEN "tmp" ELSE "dst"
Multiplier == IF op = "mul" THEN b[row] ELSE a[0]

Scale ==
    /\ loop_pc = "scale" /\ col >= 0
    /\ LET product  == arrays[Scaled][col] * Multiplier
           overflow == product \div Base
           scaled   == [arrays EXCEPT ![Scaled][col] = product % Base]
       IN  IF overflow = 0
           THEN /\ arrays' = scaled /\ col' = col - 1
                /\ UNCHANGED <<row, at, old, chain, msw, msw_tmp, loop_pc>>
           ELSE IF col + 1 >= wcount(arrays[Scaled])
           THEN OutOfBounds
           ELSE /\ arrays' = [scaled EXCEPT ![Scaled][col + 1] = (@ + overflow) % Base]
                /\ old' = arrays[Scaled][col + 1] /\ at' = col + 1
                /\ chain' = [array |-> Scaled, after |-> "scaled"]
                /\ loop_pc' = "chain"
                /\ UNCHANGED <<row, col, msw, msw_tmp>>
    /\ UNCHANGED <<op, a, b>>

CountScaled ==
    /\ loop_pc = "scaled"
    /\ msw_tmp' = Higher(msw_tmp, at)
    /\ col' = col - 1 /\ loop_pc' = "scale"
    /\ UNCHANGED <<op, a, b, arrays, row, at, old, chain, msw>>

\* mul_with_carry returned: bn_mul goes on to accumulate the row, bn_init
\* adds the digit.
EndScale ==
    /\ loop_pc = "scale" /\ col < 0
    /\ \/ /\ op = "mul"
          /\ col' = 0 /\ loop_pc' = "accumulate"
          /\ UNCHANGED <<arrays, row, at, old, chain, msw, msw_tmp>>
       \/ /\ op = "init"
          /\ StartChain("dst", 0, 1, b[row], "digit")
    /\ UNCHANGED <<op, a, b>>

\* bn_mul: add the scratch row to the destination, shifted by row words.
Accumulate ==
    /\ loop_pc = "accumulate"
    /\ IF col <= msw_tmp
       THEN StartChain("dst", col + row, 1, arrays.tmp[col], "accumulated")
       ELSE /\ row' = row + 1 /\ loop_pc' = "row"
            /\ UNCHANGED <<arrays, col, at, old, chain, msw, msw_tmp>>
    /\ UNCHANGED <<op, a, b>>

CountAccumulated ==
    /\ loop_pc = "accumulated"
    /\ msw' = Higher(msw, at)
    /\ col' = col + 1 /\ loop_pc' = "accumulate"
    /\ UNCHANGED <<op, a, b, arrays, row, at, old, chain, msw_tmp>>

CountDigit_SameDigit ==
    /\ loop_pc = "digit"
    /\ msw' = Higher(msw_tmp, at)
    /\ loop_pc' = "row"
    /\ UNCHANGED <<op, a, b, arrays, row, col, at, old, chain, msw_tmp>>

\* bn_init, after add_with_carry.
CountDigit ==
    /\ loop_pc = "digit"
    /\ msw' = Higher(msw_tmp, at)
    /\ row' = row + 1 /\ loop_pc' = "row"
    /\ UNCHANGED <<op, a, b, arrays, col, at, old, chain, msw_tmp>>

----------------------------------------------------------------------------
\* The operands and the destination of an activation.  The word add_unsigned
\* appends is the next word of max's buffer when it works in place.
Start(f, first, second, dst) ==
    /\ op = f /\ a = first /\ b = second
    /\ arrays = [dst |-> dst, tmp |-> Zeros(1)]

LoopInit ==
    /\ \/ /\ "add" \in Ops
          /\ \E max, min \in Operands, next \in Word :
                /\ Number(max) >= Number(min)
                /\ Start("add", Extended(max, next), min, Extended(max, next))
       \/ /\ "sub" \in Ops
          /\ \E max, min \in Operands :
                Number(max) >= Number(min) /\ Start("sub", max, min, max)
       \/ /\ "mul" \in Ops
          /\ \E x, y \in Operands : Start("mul", x, y, Zeros(wcount(x) + wcount(y)))
       \/ /\ "init" \in Ops
          /\ \E radix \in Radixes : \E digits \in Digits(radix) :
                Start("init", [i \in {0} |-> radix], digits,
                      Zeros(get_blen_from_slen(wcount(digits), radix)))
    /\ row = 0 /\ col = 0 /\ at = 0 /\ old = 0
    /\ chain = [array |-> "dst", after |-> "row"]
    /\ msw = CASE op = "init" -> 0 [] op = "add" -> wcount(a) - 2
                 [] OTHER -> wcount(a) - 1
    /\ msw_tmp = 0
    /\ loop_pc = "row"

LoopNext ==
    \/ StartRow \/ EndRows \/ Propagate \/ EndChain
    \/ CountAdded \/ Trim
    \/ Scale \/ CountScaled \/ EndScale
    \/ Accumulate \/ CountAccumulated \/ CountDigit

----------------------------------------------------------------------------
(* Properties.                                                             *)

Locations == {"row", "chain", "added", "trim", "scale", "scaled",
              "accumulate", "accumulated", "digit", "done", "oob"}

\* The arrays hold words and the indices are indices, whatever the carries.
LoopTypeOK ==
    /\ op \in Ops /\ loop_pc \in Locations
    /\ arrays.dst \in Arrays(wcount(arrays.dst)) /\ arrays.tmp \in Arrays(wcount(arrays.tmp))
    /\ row \in 0 .. wcount(b) /\ msw \in DOMAIN arrays.dst
    /\ at \in Nat /\ old \in Word /\ col \in -1 .. MaxWords

\* The number that the first n words (or digits) of b stand for.
Prefix(n) == SumFunction([i \in 0 .. (n - 1) |-> b[i] * Weight[i]])
NumeralPrefix(n) ==
    SumFunction([i \in 0 .. (n - 1) |-> b[i] * Power[a[0]][n - 1 - i]])

\* Between two rows the destination holds the result for the part of b
\* consumed so far: each carry chain, of any length, moved exactly one unit
\* up and lost none (bignum.c:126-219, 267-283, 334-349, 764-787, 431-451).
RowsAreExact ==
    loop_pc \in {"row", "done"} =>
       CASE op = "add"  -> Number(arrays.dst) = Number(a) + Prefix(row)
         [] op = "sub"  -> Number(arrays.dst) = Number(a) - Prefix(row)
         [] op = "mul"  -> Number(arrays.dst) = Number(a) * Prefix(row)
         [] op = "init" -> Number(arrays.dst) = NumeralPrefix(row)

\* The length the loop reports is the one BnNumbers gives: no significant
\* word is cut off, and leading zero words stay only where BnNumbers says.
LengthsAreExact ==
    loop_pc = "done" =>
       msw + 1 =
         CASE op = "add"  -> SumLen(Number(a), wcount(a) - 1, Number(b), wcount(b))
           [] op = "sub"  -> DifferenceLen(Number(arrays.dst), wcount(a))
           [] op = "mul"  -> ProductLen(Number(arrays.dst), wcount(a) + wcount(b))
           [] op = "init" -> WordsOf(Number(arrays.dst))

\* bn_mul and bn_init never leave their buffers ("the destination buffer is
\* properly sized"); sub_unsigned does exactly when min has more words than
\* max, and add_unsigned exactly when BnNumbers says so.
OverrunsArePredicted ==
    Finished =>
       (loop_pc = "oob" <=> CASE op = "add" -> SumOverruns(Number(a), wcount(a) - 1,
                                                      Number(b), wcount(b))
                         [] op = "sub" -> wcount(b) > wcount(a)
                         [] OTHER -> FALSE)

============================================================================
