------------------------------ MODULE BnWords ------------------------------
(***************************************************************************)
(* The word loops and bn_tostring together: a client computes a number and *)
(* prints it.  The object printed is what the loop left: the words of dst  *)
(* up to the length it reported, leading zero words included.              *)
(***************************************************************************)
EXTENDS BnLoops, BnText

words_vars == <<loop_vars, text_vars>>

\* The words the result is packaged with (bignum.c:284-291, 351-359, 453-457,
\* 790-798): a length of msw + 1.
Result_LengthIsTheIndex == [k \in 0..(IF msw = 0 THEN 0 ELSE msw - 1) |-> arrays.dst[k]]
Result == [k \in 0..msw |-> arrays.dst[k]]

WordsInit == LoopInit /\ TextInit

Compute == LoopNext /\ UNCHANGED text_vars
PrintResult == loop_pc = "done" /\ bn_tostring(Result) /\ UNCHANGED loop_vars
Printing == TextSteps /\ UNCHANGED loop_vars

WordsNext == Compute \/ PrintResult \/ Printing

WordsSpec == WordsInit /\ [][WordsNext]_words_vars /\ WF_words_vars(WordsNext)

----------------------------------------------------------------------------
(* Properties.                                                             *)

\* The arrays of both hold words, and the indices are indices.
WordsTypeOK == LoopTypeOK /\ (text_pc # "idle" => TextTypeOK)

\* The characters of the string, as a number.
Spelled ==
    SumFunction([k \in first .. (last_idx - 1) |->
                    str[k] * Power[radix][last_idx - 1 - k]])

\* From end to end: the string is the sign and the digits, most significant first
\* and without a leading zero, of the sum, the difference or the product of the
\* two arrays the loop was given, or of the numeral bn_init read, in any base
\* (bignum.c:263-291, 334-359, 431-457, 762-798, 553-598).  A sum in place counts on
\* the word after the addend being zero, which is CleanTail of Bignum.
PrintedIsComputed ==
    ret = "OK" /\ (op = "add" => a[wcount(a) - 1] = 0) =>
       /\ Spelled = CASE op = "add"  -> Number(a) + Prefix(wcount(b))
                      [] op = "sub"  -> Number(a) - Prefix(wcount(b))
                      [] op = "mul"  -> Number(a) * Number(b)
                      [] op = "init" -> NumeralPrefix(wcount(b))
       /\ negative => str[0] = Minus
       /\ str[first] # 0 \/ last_idx = first + 1
       /\ str[last_idx] = Terminator

\* Every call returns: the carry chains, the trimming, the rows and the digits of
\* the long division end, for all that their bodies move the bounds; and the size
\* estimate of get_slen_from_blen (bignum.c:23-28, 524-527) never is too short for
\* the sign, the digits and the terminator, which would end the call.
Termination == <>(loop_pc = "oob" \/ text_pc = "done")
============================================================================
