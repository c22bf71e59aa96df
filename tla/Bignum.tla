------------------------------ MODULE Bignum ------------------------------
(***************************************************************************)
(* The bignum library, src/bignum/bignum.c: descriptors (bn_t), the heap   *)
(* buffers they own, and every public function as one atomic action (the   *)
(* library is single threaded).  The actions cover any aliasing of the     *)
(* operands and the output, NULL arguments, every allocation that fails    *)
(* and every early return.  Word arrays are the numbers they spell         *)
(* (BnNumbers); that the word loops compute these numbers and lengths is   *)
(* checked in BnLoops.                                                     *)
(***************************************************************************)
EXTENDS BnNumbers

CONSTANTS
    Objs,       \* the client's bn_t objects
    Bufs,       \* the heap blocks malloc can hand out
    NULL,       \* the null pointer
    Calls,      \* the functions the client calls
    FailSites   \* the allocations that may fail

Sites == {"init", "add", "sub", "mul", "mul_tmp", "tostring"}

Codes == {"OK", "BAD_PTR", "BAD_LENGTH", "BAD_ENC", "BAD_VALUE", "NO_MEMORY"}

ASSUME PointerAssumption ==
    /\ NULL \notin Bufs \cup Objs \cup Int
    /\ FailSites \subseteq Sites

VARIABLES
    obj,     \* the descriptors: bstr, bstr_len, len and is_negative
    size,    \* the words of each live heap block; 0 when it is not allocated
    mem,     \* the number spelled by the words its owner counts in bstr_len
    ret,     \* the last return code, or "ABORT" once an assertion has failed
    call     \* the last call: its function and its arguments

vars == <<obj, size, mem, ret, call>>

----------------------------------------------------------------------------
(* Descriptors and numbers.                                                *)

Descriptors ==
    [bstr : Bufs \cup {NULL}, bstr_len : 0..MaxWords, len : 0..MaxWords,
     is_negative : BOOLEAN]

\* The descriptor bn_reset leaves behind.
Cleared ==
    [bstr |-> NULL, bstr_len |-> 0, len |-> 0, is_negative |-> FALSE]

HasBuffer(o) == obj[o].bstr # NULL

\* |o|: the number in the len words of its buffer.
Magnitude(o) == mem[obj[o].bstr] % Weight[obj[o].len]

Signed(number, negative) == IF negative THEN -number ELSE number

\* The integer an object denotes; a negative zero denotes 0.
Integer(o) == Signed(Magnitude(o), obj[o].is_negative)

is_greater_or_equal_abs_Reversed(a, b) == Magnitude(a) <= Magnitude(b)
is_greater_or_equal_abs(a, b) == Magnitude(a) >= Magnitude(b)

Running == ret # "ABORT"
Calling(function, args) ==
    Running /\ function \in Calls /\ call' = <<function, args>>

----------------------------------------------------------------------------
(* The heap and the return codes.                                          *)

Dangling(o) == HasBuffer(o) /\ size[obj[o].bstr] = 0

\* A block that was freed while a descriptor still points to it is not
\* handed out again: the sanitizer build keeps it in quarantine.
FreeBufs == {buf \in Bufs : size[buf] = 0 /\ \A o \in Objs : obj[o].bstr # buf}

Return(code) == ret' = code /\ UNCHANGED <<obj, size, mem>>

\* The assertions and the sanitizer of the build the tests use end the program.
Abort == Return("ABORT")

\* free() of the block at pointer old, after a block of room words at dst
\* took the number given; either pointer may be NULL and they may coincide.
Move_Leak(old, dst, room, number) ==
    /\ size' = [buf \in Bufs |-> IF buf = dst THEN room ELSE size[buf]]
    /\ mem'  = [buf \in Bufs |-> IF buf = dst THEN number ELSE mem[buf]]

Move(old, dst, room, number) ==
    /\ size' = [buf \in Bufs |-> IF buf = dst THEN room
                                 ELSE IF buf = old THEN 0 ELSE size[buf]]
    /\ mem'  = [buf \in Bufs |-> IF buf = dst THEN number
                                 ELSE IF buf = old THEN 0 ELSE mem[buf]]

Clear_KeepsPointer(o, negative) ==
    /\ obj' = [obj EXCEPT ![o] = [Cleared EXCEPT !.is_negative = negative,
                                                 !.bstr = obj[o].bstr]]
    /\ Move(obj[o].bstr, NULL, 0, 0)

\* bn_reset: the block is freed, the descriptor cleared; bn_init then notes
\* the sign of the string.
Clear(o, negative) ==
    /\ obj' = [obj EXCEPT ![o] = [Cleared EXCEPT !.is_negative = negative]]
    /\ Move(obj[o].bstr, NULL, 0, 0)

\* "Package the output": out describes dst from now on.
Package(out, dst, room, cap, len, number, negative) ==
    /\ obj' = [obj EXCEPT ![out] = [bstr |-> dst, bstr_len |-> cap,
                                    len |-> len, is_negative |-> negative]]
    /\ Move(obj[out].bstr, dst, room, number)
    /\ ret' = "OK"

----------------------------------------------------------------------------
(* bn_init, bn_reset, bn_tostring.                                         *)

bn_reset(o) ==
    /\ Calling("reset", o)
    /\ \/ o = NULL /\ Return("BAD_PTR")
       \/ o \in Objs /\ ~Dangling(o) /\ Clear(o, FALSE) /\ ret' = "OK"

\* bn_init(o, str, radix) returning early, before it touches the object.
bn_init_Refused(o) ==
    /\ Calling("init", <<o, 0>>)
    /\ \/ Return("BAD_PTR")                    \* bn or str is NULL
       \/ o \in Objs /\ Return("BAD_VALUE")   \* a base outside 2..36

\* str has a sign or none, then slen characters which spell v if they are
\* all digits.  The block the object owned is freed first, and calloc may
\* hand that very block out again.
bn_init(o, negative, radix, slen, v) ==
    /\ Calling("init", <<o, Signed(v, negative)>>) /\ ~Dangling(o)
    /\ Power[radix][slen] <= Weight[MaxWords]
    /\ \/ /\ slen = 0
          /\ Clear(o, negative) /\ ret' = "BAD_LENGTH"
       \/ /\ slen > 0 /\ "init" \in FailSites
          /\ Clear(o, negative) /\ ret' = "NO_MEMORY"
       \/ /\ slen > 0                          \* some character is no digit
          /\ Clear(o, negative) /\ ret' = "BAD_ENC"
       \/ /\ slen > 0
          /\ \E dst \in FreeBufs \cup ({obj[o].bstr} \ {NULL}) :
                LET blen == get_blen_from_slen(slen, radix)
                IN  Package(o, dst, blen, blen, WordsOf(v), v, negative)

\* bn_tostring reads the object; its string and its scratch copy are freed or
\* handed over before it returns (module BnText).
bn_tostring(o) ==
    /\ Calling("tostring", o)
    /\ \/ Return("BAD_PTR")     \* bn, its bstr, pstr or len is NULL
       \/ /\ o \in Objs /\ HasBuffer(o)   \* a base outside 2..36, if asked
          /\ Return(IF obj[o].len = 0 THEN "BAD_LENGTH" ELSE "BAD_VALUE")
       \/ /\ o \in Objs /\ HasBuffer(o) /\ obj[o].len # 0 /\ ~Dangling(o)
          /\ \/ "tostring" \in FailSites /\ Return("NO_MEMORY")
             \/ Return("OK")

----------------------------------------------------------------------------
(* bn_add, bn_sub, bn_mul.                                                 *)

IsOperand(p) == p # NULL /\ HasBuffer(p)

\* The early returns the three functions share.
Refused(a, b, out) ==
    /\ \E function \in {"add", "sub", "mul"} : Calling(function, <<a, b, out>>)
    /\ \/ ~(IsOperand(a) /\ IsOperand(b) /\ out # NULL) /\ Return("BAD_PTR")
       \/ IsOperand(a) /\ a = b /\ a = out /\ Return("BAD_VALUE")

Accepted(a, b, out) ==
    /\ IsOperand(a) /\ IsOperand(b) /\ ~(a = b /\ a = out)
    /\ ~Dangling(a) /\ ~Dangling(b)

\* The sum can be built in max's own buffer.
add_in_place_AnyCapacity(max, out) == out = max
add_in_place(max, out) ==
    out = max /\ obj[max].bstr_len >= required_capacity(obj[max].len)

\* out := |max| + |min|.  The words of min are added one by one, so a min of
\* more words than the destination fails add_with_carry's assertion, and a
\* carry out of the destination's top word would leave the buffer.
add_unsigned(max, min, out, negative) ==
    LET required == required_capacity(obj[max].len)
        inplace  == add_in_place(max, out)
        x == IF inplace THEN mem[obj[max].bstr] % Weight[required]
                        ELSE Magnitude(max)
        y == Magnitude(min)
        overrun == SumOverruns(x, obj[max].len, y, obj[min].len)
    IN  /\ required <= MaxWords
        /\ \/ ~inplace /\ "add" \in FailSites /\ Return("NO_MEMORY")
           \/ overrun /\ Abort
           \/ /\ ~overrun /\ ~Dangling(out)
              /\ \E dst \in IF inplace THEN {obj[max].bstr} ELSE FreeBufs :
                    Package(out, dst, IF inplace THEN size[dst] ELSE required,
                            required, SumLen(x, obj[max].len, y, obj[min].len),
                            x + y, negative)

\* out := |max| - |min|, in as many words as max has, then without the
\* leading zero words.
sub_unsigned(max, min, out, negative) ==
    LET wlen_dst   == obj[max].len
        difference == Magnitude(max) - Magnitude(min)
    IN  \/ out # max /\ "sub" \in FailSites /\ Return("NO_MEMORY")
        \/ obj[min].len > wlen_dst /\ Abort
        \/ /\ obj[min].len <= wlen_dst /\ ~Dangling(out)
           /\ \E dst \in IF out = max THEN {obj[max].bstr} ELSE FreeBufs :
                 Package(out, dst, IF out = max THEN size[dst] ELSE wlen_dst,
                         wlen_dst, DifferenceLen(difference, wlen_dst),
                         difference, negative)

Larger(a, b)  == IF is_greater_or_equal_abs(a, b) THEN a ELSE b
Smaller(a, b) == IF is_greater_or_equal_abs(a, b) THEN b ELSE a
SameSign(a, b) == obj[a].is_negative = obj[b].is_negative

bn_add(a, b, out) ==
    /\ Calling("add", <<a, b, out>>) /\ Accepted(a, b, out)
    /\ LET max == Larger(a, b)
           min == Smaller(a, b)
       IN  IF SameSign(a, b)
           THEN add_unsigned(max, min, out, obj[max].is_negative)
           ELSE sub_unsigned(max, min, out, obj[max].is_negative)

\* The sign bn_sub gives its result.
sub_sign_OfLarger(a, b) == obj[Larger(a, b)].is_negative
sub_sign(a, b) == IF is_greater_or_equal_abs(a, b)
                  THEN obj[a].is_negative ELSE ~obj[b].is_negative

bn_sub(a, b, out) ==
    /\ Calling("sub", <<a, b, out>>) /\ Accepted(a, b, out)
    /\ LET max == Larger(a, b)
           min == Smaller(a, b)
       IN  IF SameSign(a, b)
           THEN sub_unsigned(max, min, out, sub_sign(a, b))
           ELSE add_unsigned(max, min, out, sub_sign(a, b))

\* memset of the words the product is to take, low before it.
Wiped_Nothing(low) == low
Wiped(low) == 0

\* The product is built in a zeroed buffer: the output's own when the output
\* is no operand and has room, a new one otherwise.  Its top word is counted
\* only when a row reached it, that is when it is not zero.  When the scratch
\* row cannot be allocated the destination is freed, the output's own included.
bn_mul(a, b, out) ==
    LET required == obj[a].len + obj[b].len
        reuse    == out \notin {a, b} /\ required <= obj[out].bstr_len
        dst_init == IF reuse
                    THEN Wiped(mem[obj[out].bstr] % Weight[required])
                    ELSE 0
        product  == Magnitude(a) * Magnitude(b)
    IN  /\ Calling("mul", <<a, b, out>>) /\ Accepted(a, b, out)
        /\ required <= MaxWords
        /\ \/ ~reuse /\ "mul" \in FailSites /\ Return("NO_MEMORY")
           \/ /\ ~reuse /\ "mul_tmp" \in FailSites
              /\ FreeBufs # {} /\ Return("NO_MEMORY")
           \/ /\ reuse /\ "mul_tmp" \in FailSites /\ ~Dangling(out)
              /\ Move(obj[out].bstr, NULL, 0, 0)
              /\ ret' = "NO_MEMORY" /\ UNCHANGED obj
           \/ /\ ~Dangling(out)
              /\ \E dst \in IF reuse THEN {obj[out].bstr} ELSE FreeBufs :
                    Package(out, dst, IF reuse THEN size[dst] ELSE required,
                            required, ProductLen(product, required),
                            dst_init + product, ~SameSign(a, b))

\* bn_div, bn_mod and bn_modexp are stubs.
bn_div(a, b) == Calling("div", <<a, b>>) /\ Return("OK")

\* Any call that reads, or frees, a block already freed.
UseFreed(o) == Running /\ Dangling(o) /\ Abort /\ UNCHANGED call

----------------------------------------------------------------------------
Init ==
    /\ obj = [o \in Objs |-> Cleared]
    /\ size = [buf \in Bufs |-> 0]
    /\ mem = [buf \in Bufs |-> 0]
    /\ ret = "OK" /\ call = <<"none", NULL>>

Pointers == Objs \cup {NULL}

Next ==
    \/ \E o \in Pointers : bn_reset(o) \/ bn_init_Refused(o) \/ bn_tostring(o)
    \/ \E o \in Objs, negative \in BOOLEAN, radix \in Radixes,
          slen \in 0..MaxDigits :
             \E v \in 0 .. (Power[radix][slen] - 1) :
                bn_init(o, negative, radix, slen, v)
    \/ \E a, b, out \in Pointers : Refused(a, b, out)
    \/ \E a, b \in Pointers : bn_div(a, b)
    \/ \E a, b, out \in Objs :
          bn_add(a, b, out) \/ bn_sub(a, b, out) \/ bn_mul(a, b, out)
    \/ \E o \in Objs : UseFreed(o)

Spec == Init /\ [][Next]_vars

----------------------------------------------------------------------------
(* Properties.                                                             *)

\* Descriptors, heap and return code have the shape the code gives them, and
\* a block never holds more than the words its owner counts.
TypeOK ==
    /\ obj \in [Objs -> Descriptors]
    /\ size \in [Bufs -> 0..MaxWords]
    /\ mem \in [Bufs -> 0 .. (Weight[MaxWords] - 1)]
    /\ ret \in Codes \cup {"ABORT"}

\* No descriptor points to a freed block.
NoDangling == \A o \in Objs : ~Dangling(o)

\* No two descriptors own the same block.
NoSharing ==
    \A o, p \in Objs : o # p /\ HasBuffer(o) => obj[o].bstr # obj[p].bstr

\* Every block that was not freed is still reachable from a descriptor.
NoLeak == \A buf \in Bufs : size[buf] > 0 => \E o \in Objs : obj[o].bstr = buf

\* After any calls, with any aliasing and any failed allocation, no block has
\* two owners and none leaks, so that bn_reset (bignum.c:469) on every object
\* frees every block, and once.
OneOwner == NoSharing /\ NoLeak

\* The only step that leaves a pointer to a freed block is a bn_mul whose
\* scratch row cannot be allocated (bignum.c:756-760); every other early
\* return of every function leaves the descriptors as good as they were.
DanglingAfterFailedProduct ==
    [][NoDangling /\ ~NoDangling' =>
         /\ ret' = "NO_MEMORY"
         /\ \E a, b, out \in Objs : bn_mul(a, b, out)]_vars

\* The lengths the in-place tests of add_unsigned (bignum.c:253) and the reuse
\* test of bn_mul (bignum.c:733) rely on: len words are within bstr_len words,
\* and those are within the block.
Capacity ==
    \A o \in Objs :
       IF HasBuffer(o)
       THEN /\ 1 <= obj[o].len /\ obj[o].len <= obj[o].bstr_len
            /\ ~Dangling(o) => obj[o].bstr_len <= size[obj[o].bstr]
       ELSE obj[o].len = 0 /\ obj[o].bstr_len = 0

\* The words between len and bstr_len are zero.  add_unsigned adds into them
\* in place without clearing them (bignum.c:253-283), after sums, differences
\* and products that each shortened or reused the buffer.
CleanTail == \A o \in Objs : HasBuffer(o) => mem[obj[o].bstr] < Weight[obj[o].len]

\* The number has leading zero words.
Padded(o) == HasBuffer(o) /\ obj[o].len > WordsOf(Magnitude(o))

SomePadded == \E o \in Objs : Padded(o)

\* A call of bn_add or bn_sub whose smaller operand has leading zero words, or
\* the use of a dangling pointer.
ExplainedAbort ==
    \/ \E a, b, out \in Objs :
          (bn_add(a, b, out) \/ bn_sub(a, b, out)) /\ Padded(Smaller(a, b))
    \/ \E o \in Objs : UseFreed(o)

\* An assertion of add_with_carry or sub_with_carry (bignum.c:129, 156) fails
\* only in a call of bn_add or bn_sub whose smaller operand has leading zero
\* words, however the larger one is stored; the only other step that ends the
\* program uses a pointer that dangles, which stops the sanitizer.
AbortNeedsPadding == [][ret' = "ABORT" => ExplainedAbort]_vars

\* The first number with leading zero words is made by bn_mul, which counts
\* every word a row was added to (bignum.c:762-787); bn_init, sums and
\* differences of numbers without them have none.
PaddingComesFromProducts ==
    [][~SomePadded /\ SomePadded' => \E a, b, out \in Objs : bn_mul(a, b, out)]_vars

----------------------------------------------------------------------------
(* The library implements arithmetic on integers: an object without a      *)
(* buffer is unset, a failed assertion stops the program.                  *)

Numbers == UNION {{-v, v} : v \in 0 .. (Weight[MaxWords] - 1)}

Values == [o \in Objs |-> IF HasBuffer(o) THEN Integer(o) ELSE NULL]

Registers == INSTANCE BnIntegers
                WITH Unset <- NULL, val <- Values, ret <- ret, call <- call

\* Every call that returns BN_OK performs exactly the integer operation it is
\* named for, for all signs and all aliasings of operands and output
\* (bignum.c:612-802); any other call changes no integer, except that bn_init
\* unsets its object; a failed assertion is the end of the behaviour.
ImplementsIntegers ==
    /\ Registers!Init
    /\ [][ret' = "ABORT" \/ Registers!Next]_vars

----------------------------------------------------------------------------
(* What comments and tests of the repository say, which the code refutes.  *)

\* "Cannot overflow as the destination buffer is properly sized"
\* (bignum.c:273): adding two numbers never fails add_with_carry's assertion.
AddNeverOverruns ==
    [][\A a, b, out \in Objs :
          bn_add(a, b, out) /\ SameSign(a, b) => ret' # "ABORT"]_vars

\* A freed buffer is not left reachable through bstr, which the functions
\* take for valid memory when it is not NULL (test_bignum.c:191-196).
BstrIsValidOrNull == NoDangling

============================================================================
