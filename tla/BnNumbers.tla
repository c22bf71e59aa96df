----------------------------- MODULE BnNumbers -----------------------------
(***************************************************************************)
(* Word arrays of src/bignum/bignum.c as the numbers they spell, least     *)
(* significant word first: the low k words of the array x are              *)
(* x % Weight[k], word k or a higher one is not zero exactly when          *)
(* x >= Weight[k], and adding y to x carries into word k exactly when the  *)
(* low k words of x and y sum to at least Weight[k].  Here are the lengths *)
(* the word loops give their results; module BnLoops runs the loops and    *)
(* compares.                                                               *)
(***************************************************************************)
EXTENDS Integers, FiniteSets, FiniteSetsExt, Functions

CONSTANTS
    Base,       \* the number of values of a word, 2^32 in the code
    MaxWords,   \* bound: no buffer has more words than this
    MaxDigits,  \* bound: digits in a string given to bn_init
    Radixes,    \* the bases the client writes numerals in
    Power       \* Power[r][n] is r^n

\* The largest exponent in use.
MaxPower == MaxWords + MaxDigits

ASSUME SizeAssumption ==
    /\ Base \in Nat /\ Base >= 2
    /\ MaxWords \in Nat \ {0}
    /\ MaxDigits \in Nat
    /\ Radixes \subseteq 2..36

ASSUME PowerAssumption ==
    /\ Power \in [Radixes \cup {Base} -> [0..MaxPower -> Nat]]
    /\ \A r \in Radixes \cup {Base} :
          /\ Power[r][0] = 1
          /\ \A n \in 0 .. (MaxPower - 1) : Power[r][n + 1] = r * Power[r][n]

\* The weight of word k.
Weight == Power[Base]

\* The arrays themselves, indexed from 0 as in the code.
Word == 0 .. (Base - 1)
Arrays(len) == [0 .. (len - 1) -> Word]
wcount(array) == Cardinality(DOMAIN array)

\* The number an array spells.
Number(array) == SumFunction([i \in DOMAIN array |-> array[i] * Weight[i]])

\* The least number of words that hold x; zero takes one.
WordsOf(x) == Min({n \in 1..MaxWords : x < Weight[n]})

\* The words of x + y that receive a carry, up to word n.
CarriesInto(x, y, n) ==
    {k \in 1..n : (x % Weight[k]) + (y % Weight[k]) >= Weight[k]}

\* The words a numeral of slen digits may need: the least n with
\* Base^n >= radix^slen, which is what rounding slen * log2(radix) / 8 up to
\* bytes and then up to whole words gives.
get_blen_from_slen(slen, radix) ==
    Min({n \in 1..MaxWords : Weight[n] >= Power[radix][slen]})

\* A sum has one word more than its larger operand, for the carry.
required_capacity_NoCarryWord(len) == len
required_capacity(len) == len + 1

\* The loop of add_unsigned adds the ylen words of y one by one into the
\* words of x, xlen of them and the carry word.  It leaves the destination
\* when y has more words than that, or when a carry does.
SumOverruns(x, xlen, y, ylen) ==
    LET wlen == required_capacity(xlen)
    IN  ylen > wlen \/ wlen \in CarriesInto(x, y, wlen)

\* The highest word the loop wrote to, counting x's own.
SumLen(x, xlen, y, ylen) ==
    1 + Max({xlen - 1, ylen - 1} \cup CarriesInto(x, y, required_capacity(xlen)))

\* sub_unsigned drops the leading zero words of the difference.
DifferenceLen_Never(difference, wlen) == wlen
DifferenceLen(difference, wlen) == WordsOf(difference)

\* bn_mul counts the top word of the product when some row reached it, that
\* is when it is not zero; it drops no other word.
ProductLen(product, required) ==
    IF product >= Weight[required - 1] THEN required ELSE required - 1
============================================================================
