------------------------------- MODULE BnText -------------------------------
(***************************************************************************)
(* bn_tostring, src/bignum/bignum.c lines 504-599: one call on an object   *)
(* that holds a number, from the two allocations through the division loop *)
(* and the reversal to the string the caller receives.  The string buffer  *)
(* is an array of characters: the value of a digit, or one of the three    *)
(* negative numbers below.                                                 *)
(***************************************************************************)
EXTENDS BnNumbers

CONSTANT MayFail     \* whether the two allocations may fail

ASSUME TextAssumption ==
    /\ MayFail \in BOOLEAN
    \* the characters of the longest number are within the bound
    /\ \A base \in Radixes : base <= Base /\ Power[base][MaxPower] >= Weight[MaxWords]

VARIABLES
    words, negative, radix,   \* the object's len words and sign; the base
    heap,        \* which of the call's blocks are allocated
    buf,         \* the scratch copy, divided in place
    msw_idx,     \* its most significant word, -1 once it is zero
    i, remainder,\* the inner loop: the next word to divide, what is carried
    str,         \* the characters of the string buffer
    last_idx,    \* the next character to write
    ret, len,    \* the return code and *len, or "none" before they are set
    text_pc

text_vars == <<words, negative, radix, heap, buf, msw_idx, i, remainder,
          str, last_idx, ret, len, text_pc>>

Minus == -1        \* the character '-'
Terminator == -2   \* the null character
Junk == -3         \* what malloc left in the buffer

object == <<words, negative, radix>>

\* The characters that words of a base-radix number may need: the least n
\* with radix^n >= Base^words.
get_slen_from_blen_Short(blen, base) ==
    Min({n \in 1..(MaxPower - 1) : Power[base][n + 1] >= Weight[blen]})
get_slen_from_blen(blen, base) ==
    Min({n \in 1..MaxPower : Power[base][n] >= Weight[blen]})

\* The size of the buffer, without the byte for the terminator.
slen == get_slen_from_blen(wcount(words), radix) + (IF negative THEN 1 ELSE 0)

\* Where the digits start in the string.
first == IF negative THEN 1 ELSE 0

TextInit ==
    /\ words = <<>> /\ negative = FALSE /\ radix = 2
    /\ heap = {} /\ buf = <<>> /\ msw_idx = 0 /\ i = -1 /\ remainder = 0
    /\ str = <<>> /\ last_idx = 0
    /\ ret = "none" /\ len = "none"
    /\ text_pc = "idle"

\* The call, on an object that holds the words of an array.
bn_tostring(array) ==
    /\ text_pc = "idle" /\ text_pc' = "alloc"
    /\ words' = array /\ buf' = array
    /\ negative' \in BOOLEAN /\ radix' \in Radixes
    /\ UNCHANGED <<heap, msw_idx, i, remainder, str, last_idx, ret, len>>

\* The string, then the scratch copy; if the latter fails the former is freed.
Alloc ==
    /\ text_pc = "alloc"
    /\ \/ /\ MayFail
          /\ ret' = "NO_MEMORY" /\ text_pc' = "done"
          /\ UNCHANGED <<heap, str, last_idx>>
       \/ /\ heap' = {"str"} /\ text_pc' = "copy"
          /\ str' = [k \in 0..slen |-> Junk]
          /\ UNCHANGED <<ret, last_idx>>
    /\ UNCHANGED <<object, buf, msw_idx, i, remainder, len>>

Copy_Leaks ==
    /\ text_pc = "copy"
    /\ \/ /\ MayFail
          /\ ret' = "NO_MEMORY" /\ text_pc' = "done"
          /\ UNCHANGED <<heap, str, last_idx, msw_idx>>
       \/ /\ heap' = heap \cup {"buf"} /\ text_pc' = "digit"
          /\ str' = IF negative THEN [str EXCEPT ![0] = Minus] ELSE str
          /\ last_idx' = first
          /\ msw_idx' = Max({0} \cup {k \in DOMAIN buf : buf[k] # 0})
          /\ UNCHANGED ret
    /\ UNCHANGED <<object, buf, i, remainder, len>>

\* The copy, the '-' and the search for the most significant word.
Copy ==
    /\ text_pc = "copy"
    /\ \/ /\ MayFail
          /\ heap' = heap \ {"str"} /\ ret' = "NO_MEMORY" /\ text_pc' = "done"
          /\ UNCHANGED <<str, last_idx, msw_idx>>
       \/ /\ heap' = heap \cup {"buf"} /\ text_pc' = "digit"
          /\ str' = IF negative THEN [str EXCEPT ![0] = Minus] ELSE str
          /\ last_idx' = first
          /\ msw_idx' = Max({0} \cup {k \in DOMAIN buf : buf[k] # 0})
          /\ UNCHANGED ret
    /\ UNCHANGED <<object, buf, i, remainder, len>>

\* while (msw_idx >= 0): divide the whole array by the base once more.
StartDigit ==
    /\ text_pc = "digit" /\ msw_idx >= 0
    /\ i' = msw_idx /\ remainder' = 0 /\ text_pc' = "divide"
    /\ UNCHANGED <<object, heap, buf, msw_idx, str, last_idx, ret, len>>

\* The word just divided was the most significant one and is now zero.
DropsWord_AnyZero(quotient) == quotient = 0
DropsWord(quotient) == i = msw_idx /\ quotient = 0

\* What a word leaves to the next lower one.
Rest(dividend) == dividend % radix

Divide ==
    /\ text_pc = "divide" /\ i >= 0
    /\ LET dividend == buf[i] + remainder * Base
           quotient == dividend \div radix
       IN  /\ buf' = [buf EXCEPT ![i] = quotient % Base]
           /\ remainder' = Rest(dividend)
           /\ msw_idx' = IF DropsWord(quotient) THEN msw_idx - 1 ELSE msw_idx
    /\ i' = i - 1
    /\ UNCHANGED <<object, heap, str, last_idx, ret, len, text_pc>>

\* The remainder is the next digit.  Past the buffer's end the write is the
\* end of the call: the sanitizer of the test build.
PutDigit ==
    /\ text_pc = "divide" /\ i < 0
    /\ IF last_idx \in DOMAIN str
       THEN /\ str' = [str EXCEPT ![last_idx] = remainder]
            /\ last_idx' = last_idx + 1 /\ text_pc' = "digit"
       ELSE text_pc' = "oob" /\ UNCHANGED <<str, last_idx>>
    /\ UNCHANGED <<object, heap, buf, msw_idx, i, remainder, ret, len>>

Terminate ==
    /\ text_pc = "digit" /\ msw_idx < 0
    /\ IF last_idx \in DOMAIN str
       THEN str' = [str EXCEPT ![last_idx] = Terminator] /\ text_pc' = "reverse" /\ i' = 0
       ELSE text_pc' = "oob" /\ UNCHANGED <<str, i>>
    /\ UNCHANGED <<object, heap, buf, msw_idx, remainder, last_idx, ret, len>>

\* ptr and ptr_last_idx: the digits without the sign.
ptr_last_idx == last_idx - 1 - first

Swap ==
    /\ text_pc = "reverse" /\ i <= ptr_last_idx \div 2
    /\ LET left  == first + i
           right == first + ptr_last_idx - i
       IN  str' = [str EXCEPT ![left] = str[right], ![right] = str[left]]
    /\ i' = i + 1
    /\ UNCHANGED <<object, heap, buf, msw_idx, remainder, last_idx, ret, len, text_pc>>

\* *pstr, *len and the end of the scratch copy.
Deliver ==
    /\ text_pc = "reverse" /\ i > ptr_last_idx \div 2
    /\ len' = slen /\ ret' = "OK" /\ heap' = heap \ {"buf"} /\ text_pc' = "done"
    /\ UNCHANGED <<object, buf, msw_idx, i, remainder, str, last_idx>>

TextSteps ==
    \/ Alloc \/ Copy \/ StartDigit \/ Divide \/ PutDigit
    \/ Terminate \/ Swap \/ Deliver

----------------------------------------------------------------------------
(* Properties.                                                             *)

\* Each variable stays in its domain; the quotient of a word fits a word.
TextTypeOK ==
    /\ buf \in Arrays(wcount(words)) /\ msw_idx \in -1 .. (wcount(words) - 1)
    /\ remainder \in 0 .. (radix - 1) /\ heap \subseteq {"str", "buf"}
    /\ last_idx \in Nat /\ i \in -1 .. MaxPower

\* The number the digits written so far, least significant first, stand for.
Written ==
    SumFunction([k \in first .. (last_idx - 1) |->
                    str[k] * Power[radix][k - first]])

\* Before each digit, the number is what the scratch copy still holds, times
\* the weight of the next digit, plus the digits written: no word is dropped
\* from the division while it is not zero (bignum.c:559-582).
DivisionIsExact ==
    text_pc = "digit" =>
       /\ Number(words) = Number(buf) * Power[radix][last_idx - first] + Written
       /\ \A k \in DOMAIN buf : k > msw_idx => buf[k] = 0

\* A call that fails keeps no block, one that succeeds only the string.
NothingLeaks ==
    text_pc = "done" => heap = IF ret = "OK" THEN {"str"} ELSE {}

============================================================================
