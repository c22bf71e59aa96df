---------------------------- MODULE BignumProofs ----------------------------
(***************************************************************************)
(* Theorems about Bignum for every word size, every set of objects and     *)
(* heap blocks, every bound and every choice of failing allocations.       *)
(* Each call is first shown to end in one of a few ways (the lemmas named  *)
(* ...Outcome); the theorems about the heap and about leading zero words   *)
(* follow, and then that Bignum implements the registers of BnIntegers:    *)
(* for every aliasing of operands and output, a call that returns performs *)
(* the integer operation it is named for.                                  *)
(***************************************************************************)
EXTENDS Bignum, BnNumbersProofs

\* The conjunction that every call preserves.  None of its parts is inductive
\* without the others: an output takes over a block because that block is
\* free (OneOwner), within its size (Capacity), and what an operand means
\* and the words a sum finds after it depend on CleanTail.
IInv == TypeOK /\ OneOwner /\ Capacity /\ CleanTail

\* The facts about one object that the proofs of the calls use.
LEMMA ObjectFacts ==
    ASSUME IInv, NEW o \in Objs, HasBuffer(o)
    PROVE  /\ obj[o].bstr \in Bufs
           /\ obj[o].len \in 1..MaxWords /\ obj[o].bstr_len \in 1..MaxWords
           /\ obj[o].len <= obj[o].bstr_len
           /\ obj[o].is_negative \in BOOLEAN
           /\ mem[obj[o].bstr] \in Nat
           /\ mem[obj[o].bstr] < Weight[obj[o].len]
           /\ Magnitude(o) = mem[obj[o].bstr]
<1>1. obj[o] \in Descriptors /\ obj[o].bstr # NULL
  BY DEF IInv, TypeOK, HasBuffer
<1>2. obj[o].bstr \in Bufs /\ obj[o].is_negative \in BOOLEAN
      /\ obj[o].len \in 0..MaxWords /\ obj[o].bstr_len \in 0..MaxWords
  BY <1>1 DEF Descriptors
<1>3. 1 <= obj[o].len /\ obj[o].len <= obj[o].bstr_len
  BY DEF IInv, Capacity
<1>4. mem[obj[o].bstr] \in 0 .. (Weight[MaxWords] - 1)
  BY <1>2 DEF IInv, TypeOK
<1>5. mem[obj[o].bstr] < Weight[obj[o].len] /\ mem[obj[o].bstr] \in Nat
  BY <1>4 DEF IInv, CleanTail
<1>6. obj[o].len \in 0..MaxPower
  BY <1>2, WeightFacts, SizeAssumption
<1>7. Magnitude(o) = mem[obj[o].bstr]
  BY <1>5, <1>6, LowWords DEF Magnitude
<1>8. QED
  BY <1>2, <1>3, <1>5, <1>7, SizeAssumption

\* The block of an object that does not dangle has the words it promises.
LEMMA BlockFacts ==
    ASSUME IInv, NEW o \in Objs, HasBuffer(o), ~Dangling(o)
    PROVE  /\ obj[o].bstr_len <= size[obj[o].bstr]
           /\ size[obj[o].bstr] \in 1..MaxWords
<1>1. size[obj[o].bstr] \in 0..MaxWords
  BY ObjectFacts DEF IInv, TypeOK
<1>2. obj[o].bstr_len <= size[obj[o].bstr]
  BY DEF IInv, Capacity
<1>3. QED
  BY <1>1, <1>2, ObjectFacts, SizeAssumption

----------------------------------------------------------------------------
(* The ways a call ends.                                                   *)

\* The descriptors of the other objects and their blocks stay as they were.
Untouched(out) ==
    \A p \in Objs \ {out} :
       /\ obj'[p] = obj[p]
       /\ HasBuffer(p) => /\ size'[obj[p].bstr] = size[obj[p].bstr]
                          /\ mem'[obj[p].bstr] = mem[obj[p].bstr]

\* The object out, and nothing else, now holds a number in len words.
Delivered(out, number, len, negative) ==
    /\ ret' = "OK"
    /\ HasBuffer(out)' /\ ~Dangling(out)'
    /\ Magnitude(out)' = number
    /\ obj'[out].len = len /\ obj'[out].is_negative = negative
    /\ Untouched(out)

\* A call that returns early, or an assertion that fails.
LEMMA ReturnOutcome ==
    ASSUME IInv, NEW code \in Codes \cup {"ABORT"}, Return(code)
    PROVE  IInv'
BY DEF IInv, TypeOK, OneOwner, NoSharing, NoLeak, Dangling, HasBuffer,
       Capacity, CleanTail, Return

\* A call that frees an object's block and clears its descriptor.
LEMMA ClearOutcome ==
    ASSUME IInv, NEW o \in Objs, NEW negative \in BOOLEAN, Clear(o, negative),
           ret' \in Codes
    PROVE  IInv' /\ ~HasBuffer(o)' /\ Untouched(o)
<1>1. /\ obj' = [obj EXCEPT ![o] = [bstr |-> NULL, bstr_len |-> 0, len |-> 0,
                                    is_negative |-> negative]]
      /\ size' = [buf \in Bufs |-> IF buf = obj[o].bstr THEN 0 ELSE size[buf]]
      /\ mem' = [buf \in Bufs |-> IF buf = obj[o].bstr THEN 0 ELSE mem[buf]]
  <2>1. [Cleared EXCEPT !.is_negative = negative]
          = [bstr |-> NULL, bstr_len |-> 0, len |-> 0, is_negative |-> negative]
    BY DEF Cleared
  <2>2. \A buf \in Bufs : buf # NULL
    BY PointerAssumption
  <2>3. QED
    BY <2>1, <2>2 DEF Clear, Move
<1>2. obj \in [Objs -> Descriptors]
  BY DEF IInv, TypeOK
<1>3. /\ obj'[o].bstr = NULL /\ obj'[o].len = 0 /\ obj'[o].bstr_len = 0
      /\ \A p \in Objs \ {o} : obj'[p] = obj[p]
  BY <1>1, <1>2
<1>4. \A p \in Objs \ {o} : HasBuffer(p) =>
         size'[obj[p].bstr] = size[obj[p].bstr] /\ mem'[obj[p].bstr] = mem[obj[p].bstr]
  BY <1>1, <1>2, ObjectFacts DEF IInv, OneOwner, NoSharing, HasBuffer, Descriptors
<1>5. TypeOK'
  <2>1. obj' \in [Objs -> Descriptors]
    BY <1>1, <1>2, SizeAssumption DEF Descriptors
  <2>2. Weight[MaxWords] \in Nat \ {0}
    BY WeightFacts
  <2>3. size' \in [Bufs -> 0..MaxWords] /\ mem' \in [Bufs -> 0 .. (Weight[MaxWords] - 1)]
    BY <1>1, <2>2, SizeAssumption DEF IInv, TypeOK
  <2>4. QED
    BY <2>1, <2>3 DEF TypeOK
<1>6. OneOwner'
  <2>1. NoSharing'
    BY <1>3 DEF IInv, OneOwner, NoSharing, HasBuffer
  <2>2. NoLeak'
    <3>1. SUFFICES ASSUME NEW buf \in Bufs, size'[buf] > 0
                   PROVE  \E p \in Objs : obj'[p].bstr = buf
      BY DEF NoLeak
    <3>2. buf # obj[o].bstr /\ size[buf] > 0
      BY <1>1, <3>1
    <3>3. PICK p \in Objs : obj[p].bstr = buf
      BY <3>2 DEF IInv, OneOwner, NoLeak
    <3>4. QED
      BY <1>3, <3>2, <3>3
  <2>3. QED
    BY <2>1, <2>2 DEF OneOwner
<1>7. Capacity'
  BY <1>3, <1>4 DEF IInv, Capacity, HasBuffer, Dangling
<1>8. CleanTail'
  BY <1>3, <1>4 DEF IInv, CleanTail, HasBuffer
<1>9. QED
  BY <1>3, <1>4, <1>5, <1>6, <1>7, <1>8 DEF IInv, HasBuffer, Untouched

\* The block of an object is freed, but its descriptor keeps pointing there.
LEMMA ScratchFailureOutcome ==
    ASSUME IInv, NEW o \in Objs, HasBuffer(o), Move(obj[o].bstr, NULL, 0, 0),
           ret' = "NO_MEMORY", UNCHANGED obj
    PROVE  IInv'
<1>1. /\ size' = [buf \in Bufs |-> IF buf = obj[o].bstr THEN 0 ELSE size[buf]]
      /\ mem' = [buf \in Bufs |-> IF buf = obj[o].bstr THEN 0 ELSE mem[buf]]
  BY PointerAssumption DEF Move
<1>2. Weight[MaxWords] \in Nat \ {0}
  BY WeightFacts
<1>3. TypeOK'
  BY <1>1, <1>2, SizeAssumption DEF IInv, TypeOK, Codes
<1>4. OneOwner'
  BY <1>1 DEF IInv, OneOwner, NoSharing, NoLeak, HasBuffer
<1>5. \A p \in Objs : HasBuffer(p) /\ p # o => obj[p].bstr # obj[o].bstr
  BY DEF IInv, OneOwner, NoSharing
<1>6. Capacity'
  BY <1>1, <1>5, ObjectFacts DEF IInv, Capacity, HasBuffer, Dangling
<1>7. CleanTail'
  <2>1. SUFFICES ASSUME NEW p \in Objs, HasBuffer(p)
                 PROVE  mem'[obj[p].bstr] < Weight[obj[p].len]
    BY DEF CleanTail, HasBuffer
  <2>2. obj[p].bstr \in Bufs /\ mem[obj[p].bstr] < Weight[obj[p].len]
        /\ mem[obj[p].bstr] \in Nat /\ obj[p].len \in 0..MaxPower
    BY <2>1, ObjectFacts, WeightFacts, SizeAssumption
  <2>3. Weight[obj[p].len] \in Nat \ {0}
    BY <2>2, WeightFacts
  <2>4. QED
    BY <1>1, <2>2, <2>3
<1>8. QED
  BY <1>3, <1>4, <1>6, <1>7 DEF IInv

\* A call that ends with "Package the output": the block at dst is fresh or
\* the output's own, and holds the number in the words it is said to have.
LEMMA PackageOutcome ==
    ASSUME IInv, NEW out \in Objs, NEW dst \in Bufs, NEW room \in 1..MaxWords,
           NEW cap \in 1..MaxWords, NEW len \in 1..MaxWords, len <= cap, cap <= room,
           NEW number \in Nat, number < Weight[len], NEW negative \in BOOLEAN,
           dst \in FreeBufs \/ dst = obj[out].bstr,
           Package(out, dst, room, cap, len, number, negative)
    PROVE  IInv' /\ Delivered(out, number, len, negative)
<1>1. /\ obj' = [obj EXCEPT ![out] = [bstr |-> dst, bstr_len |-> cap,
                                      len |-> len, is_negative |-> negative]]
      /\ size' = [buf \in Bufs |-> IF buf = dst THEN room
                                   ELSE IF buf = obj[out].bstr THEN 0 ELSE size[buf]]
      /\ mem' = [buf \in Bufs |-> IF buf = dst THEN number
                                  ELSE IF buf = obj[out].bstr THEN 0 ELSE mem[buf]]
      /\ ret' = "OK"
  BY DEF Package, Move
<1>2. obj \in [Objs -> Descriptors]
  BY DEF IInv, TypeOK
<1>3. /\ obj'[out].bstr = dst /\ obj'[out].len = len /\ obj'[out].bstr_len = cap
      /\ \A p \in Objs \ {out} : obj'[p] = obj[p]
  BY <1>1, <1>2
<1>4. dst # NULL /\ \A p \in Objs \ {out} : obj[p].bstr # dst
  BY PointerAssumption DEF FreeBufs, IInv, OneOwner, NoSharing, HasBuffer
<1>5. \A p \in Objs \ {out} : HasBuffer(p) =>
         size'[obj[p].bstr] = size[obj[p].bstr] /\ mem'[obj[p].bstr] = mem[obj[p].bstr]
  BY <1>1, <1>4, ObjectFacts DEF IInv, OneOwner, NoSharing, HasBuffer
<1>6. size'[dst] = room /\ mem'[dst] = number
  BY <1>1
<1>7. TypeOK'
  <2>1. obj' \in [Objs -> Descriptors]
    BY <1>1, <1>2 DEF Descriptors
  <2>2. len \in 0..MaxPower /\ MaxWords \in 0..MaxPower /\ len <= MaxWords
    BY WeightFacts, SizeAssumption
  <2>3. /\ Weight[len] <= Weight[MaxWords]
        /\ Weight[len] \in Nat \ {0} /\ Weight[MaxWords] \in Nat \ {0}
    BY <2>2, WeightMonotone, WeightFacts
  <2>4. number \in 0 .. (Weight[MaxWords] - 1) /\ 0 \in 0 .. (Weight[MaxWords] - 1)
    BY <2>3
  <2>5. mem' \in [Bufs -> 0 .. (Weight[MaxWords] - 1)]
    BY <1>1, <2>4 DEF IInv, TypeOK
  <2>6. size' \in [Bufs -> 0..MaxWords]
    BY <1>1, SizeAssumption DEF IInv, TypeOK
  <2>7. QED
    BY <1>1, <2>1, <2>5, <2>6 DEF TypeOK, Codes
<1>8. OneOwner'
  <2>1. NoSharing'
    BY <1>3, <1>4 DEF IInv, OneOwner, NoSharing, HasBuffer
  <2>2. NoLeak'
    <3>1. SUFFICES ASSUME NEW buf \in Bufs, size'[buf] > 0, buf # dst
                   PROVE  \E p \in Objs : obj'[p].bstr = buf
      BY <1>3 DEF NoLeak
    <3>2. buf # obj[out].bstr /\ size[buf] > 0
      BY <1>1, <3>1
    <3>3. PICK p \in Objs : obj[p].bstr = buf
      BY <3>2 DEF IInv, OneOwner, NoLeak
    <3>4. QED
      BY <1>3, <3>2, <3>3
  <2>3. QED
    BY <2>1, <2>2 DEF OneOwner
<1>9. Capacity'
  BY <1>3, <1>4, <1>5, <1>6 DEF IInv, Capacity, HasBuffer, Dangling
<1>10. CleanTail'
  BY <1>3, <1>5, <1>6 DEF IInv, CleanTail, HasBuffer
<1>11. Delivered(out, number, len, negative)
  <2>1. len \in 0..MaxPower
    BY WeightFacts, SizeAssumption
  <2>2. number % Weight[len] = number
    BY <2>1, LowWords
  <2>3. obj'[out].is_negative = negative
    BY <1>1, <1>2
  <2>4. HasBuffer(out)' /\ ~Dangling(out)' /\ Magnitude(out)' = number
    BY <1>3, <1>4, <1>6, <2>2 DEF HasBuffer, Dangling, Magnitude
  <2>5. QED
    BY <1>1, <1>3, <1>5, <2>3, <2>4 DEF Delivered, Untouched
<1>12. QED
  BY <1>7, <1>8, <1>9, <1>10, <1>11 DEF IInv

----------------------------------------------------------------------------
(* One lemma per function.                                                 *)

\* bn_init clears the object or stores the number the digits spell, which
\* then has no leading zero words.
LEMMA InitOutcome ==
    ASSUME IInv, NEW o \in Objs, NEW negative \in BOOLEAN, NEW radix \in Radixes,
           NEW slen \in 0..MaxDigits, NEW v \in 0 .. (Power[radix][slen] - 1),
           bn_init(o, negative, radix, slen, v)
    PROVE  /\ IInv'
           /\ \/ /\ ret' \in {"BAD_LENGTH", "NO_MEMORY", "BAD_ENC"}
                 /\ ~HasBuffer(o)' /\ Untouched(o)
              \/ /\ Delivered(o, v, WordsOf(v), negative)
                 /\ v \in 0 .. (Weight[MaxWords] - 1)
<1>1. CASE Clear(o, negative) /\ ret' \in {"BAD_LENGTH", "NO_MEMORY", "BAD_ENC"}
  BY <1>1, ClearOutcome DEF Codes
<1>2. CASE /\ slen > 0
           /\ \E dst \in FreeBufs \cup ({obj[o].bstr} \ {NULL}) :
                 LET blen == get_blen_from_slen(slen, radix)
                 IN  Package(o, dst, blen, blen, WordsOf(v), v, negative)
  <2> DEFINE blen == get_blen_from_slen(slen, radix)
  <2>1. Power[radix][slen] <= Weight[MaxWords]
    BY DEF bn_init
  <2>2. blen \in 1..MaxWords /\ v \in Nat /\ v < Weight[blen]
    BY <1>2, <2>1, NumeralFits
  <2> HIDE DEF blen
  <2>3. WordsOf(v) \in 1..blen /\ v < Weight[WordsOf(v)]
    BY <2>2, WordsOfFits
  <2>4. PICK dst \in FreeBufs \cup ({obj[o].bstr} \ {NULL}) :
           Package(o, dst, blen, blen, WordsOf(v), v, negative)
    BY <1>2 DEF blen
  <2>5. dst \in Bufs
    BY <2>4 DEF FreeBufs, IInv, TypeOK, Descriptors
  <2>6. WordsOf(v) \in 1..MaxWords /\ WordsOf(v) <= blen /\ blen <= blen
    BY <2>2, <2>3, SizeAssumption
  <2>7. dst \in FreeBufs \/ dst = obj[o].bstr
    BY <2>4
  <2>8. IInv' /\ Delivered(o, v, WordsOf(v), negative)
    BY <2>2, <2>3, <2>4, <2>5, <2>6, <2>7, PackageOutcome
  <2>9. Weight[MaxWords] \in Nat /\ Power[radix][slen] \in Nat
    BY PowerPositive, WeightFacts, SizeAssumption DEF MaxPower
  <2>10. v \in 0 .. (Weight[MaxWords] - 1)
    BY <2>1, <2>2, <2>9
  <2>11. QED
    BY <2>8, <2>10
<1>3. QED
  BY <1>1, <1>2 DEF bn_init

\* add_unsigned fails, fails an assertion, or delivers the exact sum.
LEMMA AddUnsignedOutcome ==
    ASSUME IInv, NEW max \in Objs, NEW min \in Objs, NEW out \in Objs,
           HasBuffer(max), HasBuffer(min), ~Dangling(max), NEW negative \in BOOLEAN,
           add_unsigned(max, min, out, negative)
    PROVE  /\ IInv'
           /\ obj[max].len + 1 <= MaxWords
           /\ \/ Return("NO_MEMORY")
              \/ /\ Abort
                 /\ SumOverruns(Magnitude(max), obj[max].len,
                                Magnitude(min), obj[min].len)
              \/ Delivered(out, Magnitude(max) + Magnitude(min),
                           SumLen(Magnitude(max), obj[max].len,
                                  Magnitude(min), obj[min].len), negative)
<1> DEFINE required == required_capacity(obj[max].len)
           inplace  == add_in_place(max, out)
           x == IF inplace THEN mem[obj[max].bstr] % Weight[required]
                           ELSE Magnitude(max)
           y == Magnitude(min)
           xlen == obj[max].len
           ylen == obj[min].len
           len == SumLen(x, xlen, y, ylen)
           overrun == SumOverruns(x, xlen, y, ylen)
<1>1. required = xlen + 1 /\ required <= MaxWords
  BY DEF add_unsigned, required_capacity
<1>2. xlen \in 1..MaxWords /\ ylen \in 1..MaxWords /\ Magnitude(max) \in Nat
      /\ Magnitude(max) = mem[obj[max].bstr] /\ Magnitude(max) < Weight[xlen]
      /\ y \in Nat /\ y < Weight[ylen]
  BY ObjectFacts
<1>3. xlen \in 0..MaxPower /\ required \in 1..MaxWords /\ required \in 0..MaxPower
  BY <1>1, <1>2, WeightFacts
<1>4. Weight[xlen] <= Weight[required] /\ Weight[xlen] \in Nat /\ Weight[required] \in Nat
  BY <1>1, <1>2, <1>3, WeightMonotone, WeightFacts
<1>5. x = Magnitude(max)
  <2>1. mem[obj[max].bstr] < Weight[required]
    BY <1>2, <1>4
  <2>2. QED
    BY <1>2, <1>3, <2>1, LowWords
<1> HIDE DEF required, x, y, xlen, ylen
<1>6. CASE Return("NO_MEMORY")
  BY <1>1, <1>6, ReturnOutcome DEF Codes, xlen
<1>7. CASE Abort /\ overrun
  BY <1>1, <1>5, <1>7, ReturnOutcome DEF Abort, xlen, y, ylen
<1>8. CASE /\ ~overrun
           /\ \E dst \in IF inplace THEN {obj[max].bstr} ELSE FreeBufs :
                 Package(out, dst, IF inplace THEN size[dst] ELSE required,
                         required, len, x + y, negative)
  <2>1. len \in 1 .. (xlen + 1) /\ x + y < Weight[len]
    BY <1>1, <1>2, <1>5, <1>8, SumFits
  <2> HIDE DEF len
  <2>2. PICK dst \in IF inplace THEN {obj[max].bstr} ELSE FreeBufs :
           Package(out, dst, IF inplace THEN size[dst] ELSE required,
                   required, len, x + y, negative)
    BY <1>8
  <2>3. x + y \in Nat /\ len \in 1..MaxWords /\ len <= required
    BY <1>1, <1>2, <1>3, <1>5, <2>1, SizeAssumption
  <2>4. IInv' /\ Delivered(out, x + y, len, negative)
    <3>1. CASE inplace
      <4>1. dst = obj[max].bstr /\ out = max /\ obj[max].bstr_len >= required
        BY <2>2, <3>1 DEF add_in_place, required
      <4>2. dst \in Bufs /\ size[dst] \in 1..MaxWords /\ required <= size[dst]
        BY <4>1, <1>3, ObjectFacts, BlockFacts
      <4>3. QED
        BY <1>3, <2>1, <2>2, <2>3, <3>1, <4>1, <4>2, PackageOutcome
    <3>2. CASE ~inplace
      <4>1. dst \in FreeBufs /\ dst \in Bufs /\ required <= required
        BY <1>3, <2>2, <3>2 DEF FreeBufs
      <4>2. QED
        BY <1>3, <2>1, <2>2, <2>3, <3>2, <4>1, PackageOutcome
    <3>3. QED
      BY <3>1, <3>2
  <2>5. QED
    BY <1>1, <1>5, <2>4 DEF len, xlen, y, ylen
<1>9. QED
  BY <1>6, <1>7, <1>8 DEF add_unsigned, required, x, y, xlen, ylen

\* sub_unsigned fails, fails an assertion, or delivers the exact difference.
LEMMA SubUnsignedOutcome ==
    ASSUME IInv, NEW max \in Objs, NEW min \in Objs, NEW out \in Objs,
           HasBuffer(max), HasBuffer(min), ~Dangling(max),
           Magnitude(max) >= Magnitude(min),
           NEW negative \in BOOLEAN, sub_unsigned(max, min, out, negative)
    PROVE  /\ IInv'
           /\ \/ Return("NO_MEMORY")
              \/ Abort /\ obj[min].len > obj[max].len
              \/ Delivered(out, Magnitude(max) - Magnitude(min),
                           WordsOf(Magnitude(max) - Magnitude(min)), negative)
<1> DEFINE wlen == obj[max].len
           difference == Magnitude(max) - Magnitude(min)
           len == WordsOf(difference)
<1>1. wlen \in 1..MaxWords /\ Magnitude(max) \in Nat /\ Magnitude(max) < Weight[wlen]
      /\ Magnitude(min) \in Nat
  BY ObjectFacts
<1>2. wlen \in 0..MaxPower /\ Weight[wlen] \in Nat
  BY <1>1, WeightFacts
<1>3. difference \in Nat /\ difference < Weight[wlen]
  BY <1>1, <1>2
<1>4. len \in 1..wlen /\ difference < Weight[len]
  <2> HIDE DEF difference, wlen
  <2>1. QED
    BY <1>1, <1>3, WordsOfFits
<1>5. len \in 1..MaxWords /\ len <= wlen /\ wlen <= wlen
  <2> HIDE DEF len, wlen
  <2>1. QED
    BY <1>1, <1>4, SizeAssumption
<1> HIDE DEF difference, len
<1>6. CASE Return("NO_MEMORY")
  BY <1>6, ReturnOutcome DEF Codes
<1>7. CASE Abort /\ obj[min].len > wlen
  BY <1>7, ReturnOutcome DEF Abort
<1>8. CASE \E dst \in IF out = max THEN {obj[max].bstr} ELSE FreeBufs :
              Package(out, dst, IF out = max THEN size[dst] ELSE wlen,
                      wlen, len, difference, negative)
  <2>1. PICK dst \in IF out = max THEN {obj[max].bstr} ELSE FreeBufs :
              Package(out, dst, IF out = max THEN size[dst] ELSE wlen,
                      wlen, len, difference, negative)
    BY <1>8
  <2>2. IInv' /\ Delivered(out, difference, len, negative)
    <3>1. CASE out = max
      <4>1. /\ dst = obj[max].bstr /\ dst \in Bufs
            /\ size[dst] \in 1..MaxWords /\ wlen <= size[dst]
        BY <2>1, <3>1, ObjectFacts, BlockFacts
      <4>2. QED
        BY <1>1, <1>3, <1>4, <1>5, <2>1, <3>1, <4>1, PackageOutcome
    <3>2. CASE out # max
      <4>1. dst \in FreeBufs /\ dst \in Bufs
        BY <2>1, <3>2 DEF FreeBufs
      <4>2. QED
        BY <1>1, <1>3, <1>4, <1>5, <2>1, <3>2, <4>1, PackageOutcome
    <3>3. QED
      BY <3>1, <3>2
  <2>3. QED
    BY <2>2 DEF len, difference
<1>9. QED
  BY <1>6, <1>7, <1>8 DEF sub_unsigned, DifferenceLen, difference, len

\* The lengths of numbers without leading zero words.
LEMMA UnpaddedFacts ==
    ASSUME IInv, NEW o \in Objs, HasBuffer(o), ~Padded(o)
    PROVE  obj[o].len = WordsOf(Magnitude(o))
<1>1. obj[o].len \in 1..MaxWords /\ Magnitude(o) \in Nat /\ Magnitude(o) < Weight[obj[o].len]
  BY ObjectFacts
<1>2. WordsOf(Magnitude(o)) \in 1..obj[o].len
  BY <1>1, WordsOfFits
<1>3. QED
  BY <1>1, <1>2 DEF Padded

\* A smaller operand without leading zero words fails no assertion of
\* add_unsigned, and if the larger one has none either, nor has their sum.
LEMMA UnpaddedSum ==
    ASSUME IInv, NEW max \in Objs, NEW min \in Objs, HasBuffer(max), HasBuffer(min),
           Magnitude(min) <= Magnitude(max), obj[max].len + 1 <= MaxWords,
           ~Padded(min)
    PROVE  LET len == SumLen(Magnitude(max), obj[max].len, Magnitude(min), obj[min].len)
           IN  /\ ~SumOverruns(Magnitude(max), obj[max].len,
                               Magnitude(min), obj[min].len)
               /\ ~Padded(max) => len <= WordsOf(Magnitude(max) + Magnitude(min))
<1>1. /\ obj[max].len \in 1..MaxWords /\ Magnitude(max) \in Nat
      /\ Magnitude(max) < Weight[obj[max].len]
      /\ obj[min].len \in 1..MaxWords /\ Magnitude(min) \in Nat
  BY ObjectFacts
<1>2. /\ obj[min].len = WordsOf(Magnitude(min))
      /\ ~Padded(max) => obj[max].len = WordsOf(Magnitude(max))
  BY UnpaddedFacts
<1>3. QED
  BY <1>1, <1>2, SumStaysInside, SumStaysNormal

\* Nor does it fail an assertion of sub_unsigned.
LEMMA UnpaddedDifference ==
    ASSUME IInv, NEW max \in Objs, NEW min \in Objs, HasBuffer(max), HasBuffer(min),
           Magnitude(min) <= Magnitude(max), ~Padded(min)
    PROVE  obj[min].len <= obj[max].len
<1>1. /\ obj[max].len \in 1..MaxWords /\ Magnitude(max) \in Nat
      /\ Magnitude(max) < Weight[obj[max].len]
      /\ obj[min].len \in 1..MaxWords /\ Magnitude(min) \in Nat
  BY ObjectFacts
<1>2. Weight[obj[max].len] \in Nat
  BY <1>1, WeightFacts
<1>3. WordsOf(Magnitude(min)) \in 1..obj[max].len
  BY <1>1, <1>2, WordsOfFits
<1>4. QED
  BY <1>1, <1>3, UnpaddedFacts

\* A call delivers the integer v in out, without leading zero words unless
\* some number had them before.
Computed(out, v) ==
    \E number \in Nat, len \in 1..MaxWords, negative \in BOOLEAN :
       /\ Delivered(out, number, len, negative)
       /\ Signed(number, negative) = v
       /\ SomePadded \/ len <= WordsOf(number)

\* bn_add and bn_sub end in one of these ways, v being their exact result and
\* min the smaller of their operands.
Ended(out, v, min) ==
    \/ Return("NO_MEMORY")
    \/ Abort /\ Padded(min)
    \/ Computed(out, v)

\* Out of max and min, either helper computes the number it is called for.
LEMMA HelperOutcome ==
    ASSUME IInv, NEW max \in Objs, NEW min \in Objs, NEW out \in Objs,
           HasBuffer(max), HasBuffer(min), ~Dangling(max),
           Magnitude(max) >= Magnitude(min), NEW negative \in BOOLEAN
    PROVE  /\ add_unsigned(max, min, out, negative) =>
                IInv' /\ Ended(out, Signed(Magnitude(max) + Magnitude(min), negative), min)
           /\ sub_unsigned(max, min, out, negative) =>
                IInv' /\ Ended(out, Signed(Magnitude(max) - Magnitude(min), negative), min)
<1>1. /\ obj[max].len \in 1..MaxWords /\ Magnitude(max) \in Nat
      /\ Magnitude(max) < Weight[obj[max].len]
      /\ obj[min].len \in 1..MaxWords /\ Magnitude(min) \in Nat
      /\ Magnitude(min) < Weight[obj[min].len]
  BY ObjectFacts
<1>2. SomePadded \/ (~Padded(max) /\ ~Padded(min))
  BY DEF SomePadded
<1>3. ASSUME add_unsigned(max, min, out, negative)
      PROVE  IInv' /\ Ended(out, Signed(Magnitude(max) + Magnitude(min), negative), min)
  <2> DEFINE number == Magnitude(max) + Magnitude(min)
             len == SumLen(Magnitude(max), obj[max].len, Magnitude(min), obj[min].len)
             overrun == SumOverruns(Magnitude(max), obj[max].len,
                                    Magnitude(min), obj[min].len)
  <2>1. /\ IInv' /\ obj[max].len + 1 <= MaxWords
        /\ Return("NO_MEMORY") \/ (Abort /\ overrun) \/ Delivered(out, number, len, negative)
    BY <1>3, AddUnsignedOutcome
  <2>2. /\ Padded(min) \/ ~overrun
        /\ SomePadded \/ len <= WordsOf(number)
    BY <1>2, <2>1, UnpaddedSum
  <2>3. ASSUME Delivered(out, number, len, negative)
        PROVE  Computed(out, Signed(number, negative))
    <3>1. number \in Nat
      BY <1>1
    <3>2. len = obj'[out].len /\ HasBuffer(out)'
      BY <2>3 DEF Delivered
    <3>3. len \in 1..MaxWords
      BY <2>1, <3>2, SizeAssumption DEF IInv, TypeOK, Descriptors, Capacity, HasBuffer
    <3> HIDE DEF number, len
    <3>4. QED
      BY <2>2, <2>3, <3>1, <3>3 DEF Computed
  <2>4. QED
    BY <2>1, <2>2, <2>3 DEF Ended
<1>4. ASSUME sub_unsigned(max, min, out, negative)
      PROVE  IInv' /\ Ended(out, Signed(Magnitude(max) - Magnitude(min), negative), min)
  <2> DEFINE number == Magnitude(max) - Magnitude(min)
             len == WordsOf(number)
  <2>1. /\ IInv'
        /\ \/ Return("NO_MEMORY")
           \/ Abort /\ obj[min].len > obj[max].len
           \/ Delivered(out, number, len, negative)
    BY <1>4, SubUnsignedOutcome
  <2>2. Padded(min) \/ ~(obj[min].len > obj[max].len)
    BY <1>1, UnpaddedDifference
  <2>3. number \in Nat /\ number < Weight[obj[max].len]
    <3>1. Weight[obj[max].len] \in Nat
      BY <1>1, WeightFacts
    <3>2. QED
      BY <1>1, <3>1
  <2>4. len \in 1..MaxWords /\ len <= len
    <3>1. len \in 1..obj[max].len
      <4> HIDE DEF number
      <4>1. QED
        BY <1>1, <2>3, WordsOfFits
    <3> HIDE DEF len
    <3>2. QED
      BY <1>1, <3>1, SizeAssumption
  <2>5. ASSUME Delivered(out, number, len, negative)
        PROVE  Computed(out, Signed(number, negative))
    <3>1. len <= WordsOf(number)
      BY <2>4
    <3> HIDE DEF number, len
    <3>2. QED
      BY <2>3, <2>4, <2>5, <3>1 DEF Computed
  <2>6. QED
    BY <2>1, <2>2, <2>5 DEF Ended
<1>5. QED
  BY <1>3, <1>4

\* What the callers of the helpers know about the operands.
LEMMA OperandFacts ==
    ASSUME IInv, NEW a \in Objs, NEW b \in Objs, NEW out \in Objs, Accepted(a, b, out)
    PROVE  /\ HasBuffer(a) /\ HasBuffer(b) /\ ~Dangling(a) /\ ~Dangling(b)
           /\ Magnitude(a) \in Nat /\ Magnitude(b) \in Nat
           /\ obj[a].is_negative \in BOOLEAN /\ obj[b].is_negative \in BOOLEAN
BY ObjectFacts DEF Accepted, IsOperand

LEMMA AddOutcome ==
    ASSUME IInv, NEW a \in Objs, NEW b \in Objs, NEW out \in Objs, bn_add(a, b, out)
    PROVE  IInv' /\ Ended(out, Integer(a) + Integer(b), Smaller(a, b))
<1> DEFINE x == Magnitude(a)
           y == Magnitude(b)
           na == obj[a].is_negative
           nb == obj[b].is_negative
<1>1. /\ HasBuffer(a) /\ HasBuffer(b) /\ ~Dangling(a) /\ ~Dangling(b)
      /\ x \in Nat /\ y \in Nat /\ na \in BOOLEAN /\ nb \in BOOLEAN
  BY OperandFacts DEF bn_add
<1>2. CASE x >= y
  <2>0. Smaller(a, b) = b
    BY <1>2 DEF Smaller, is_greater_or_equal_abs
  <2>1. IF na = nb THEN add_unsigned(a, b, out, na) ELSE sub_unsigned(a, b, out, na)
    BY <1>2 DEF bn_add, Larger, Smaller, SameSign, is_greater_or_equal_abs
  <2>2. CASE na = nb
    <3>1. IInv' /\ Ended(out, Signed(x + y, na), b)
      BY <1>1, <1>2, <2>1, <2>2, HelperOutcome
    <3>2. Signed(x + y, na) = Integer(a) + Integer(b)
      BY <1>1, <2>2 DEF Signed, Integer
    <3>3. QED
      BY <2>0, <3>1, <3>2
  <2>3. CASE na # nb
    <3>1. IInv' /\ Ended(out, Signed(x - y, na), b)
      BY <1>1, <1>2, <2>1, <2>3, HelperOutcome
    <3>2. Signed(x - y, na) = Integer(a) + Integer(b)
      BY <1>1, <2>3 DEF Signed, Integer
    <3>3. QED
      BY <2>0, <3>1, <3>2
  <2>4. QED
    BY <2>2, <2>3
<1>3. CASE ~(x >= y)
  <2>0. Smaller(a, b) = a
    BY <1>3 DEF Smaller, is_greater_or_equal_abs
  <2>1. IF na = nb THEN add_unsigned(b, a, out, nb) ELSE sub_unsigned(b, a, out, nb)
    BY <1>3 DEF bn_add, Larger, Smaller, SameSign, is_greater_or_equal_abs
  <2>2. y >= x
    BY <1>1, <1>3
  <2>3. CASE na = nb
    <3>1. IInv' /\ Ended(out, Signed(y + x, nb), a)
      BY <1>1, <2>1, <2>2, <2>3, HelperOutcome
    <3>2. Signed(y + x, nb) = Integer(a) + Integer(b)
      BY <1>1, <2>3 DEF Signed, Integer
    <3>3. QED
      BY <2>0, <3>1, <3>2
  <2>4. CASE na # nb
    <3>1. IInv' /\ Ended(out, Signed(y - x, nb), a)
      BY <1>1, <2>1, <2>2, <2>4, HelperOutcome
    <3>2. Signed(y - x, nb) = Integer(a) + Integer(b)
      BY <1>1, <2>4 DEF Signed, Integer
    <3>3. QED
      BY <2>0, <3>1, <3>2
  <2>5. QED
    BY <2>3, <2>4
<1>4. QED
  BY <1>2, <1>3

LEMMA SubOutcome ==
    ASSUME IInv, NEW a \in Objs, NEW b \in Objs, NEW out \in Objs, bn_sub(a, b, out)
    PROVE  IInv' /\ Ended(out, Integer(a) - Integer(b), Smaller(a, b))
<1> DEFINE x == Magnitude(a)
           y == Magnitude(b)
           na == obj[a].is_negative
           nb == obj[b].is_negative
<1>1. /\ HasBuffer(a) /\ HasBuffer(b) /\ ~Dangling(a) /\ ~Dangling(b)
      /\ x \in Nat /\ y \in Nat /\ na \in BOOLEAN /\ nb \in BOOLEAN
  BY OperandFacts DEF bn_sub
<1>2. CASE x >= y
  <2>0. Smaller(a, b) = b
    BY <1>2 DEF Smaller, is_greater_or_equal_abs
  <2>1. IF na = nb THEN sub_unsigned(a, b, out, na) ELSE add_unsigned(a, b, out, na)
    BY <1>2 DEF bn_sub, Larger, Smaller, SameSign, sub_sign, is_greater_or_equal_abs
  <2>2. CASE na = nb
    <3>1. IInv' /\ Ended(out, Signed(x - y, na), b)
      BY <1>1, <1>2, <2>1, <2>2, HelperOutcome
    <3>2. Signed(x - y, na) = Integer(a) - Integer(b)
      BY <1>1, <2>2 DEF Signed, Integer
    <3>3. QED
      BY <2>0, <3>1, <3>2
  <2>3. CASE na # nb
    <3>1. IInv' /\ Ended(out, Signed(x + y, na), b)
      BY <1>1, <1>2, <2>1, <2>3, HelperOutcome
    <3>2. Signed(x + y, na) = Integer(a) - Integer(b)
      BY <1>1, <2>3 DEF Signed, Integer
    <3>3. QED
      BY <2>0, <3>1, <3>2
  <2>4. QED
    BY <2>2, <2>3
<1>3. CASE ~(x >= y)
  <2>0. Smaller(a, b) = a
    BY <1>3 DEF Smaller, is_greater_or_equal_abs
  <2>1. IF na = nb THEN sub_unsigned(b, a, out, ~nb) ELSE add_unsigned(b, a, out, ~nb)
    BY <1>3 DEF bn_sub, Larger, Smaller, SameSign, sub_sign, is_greater_or_equal_abs
  <2>2. y >= x /\ (~nb) \in BOOLEAN
    BY <1>1, <1>3
  <2>3. CASE na = nb
    <3>1. IInv' /\ Ended(out, Signed(y - x, ~nb), a)
      BY <1>1, <2>1, <2>2, <2>3, HelperOutcome
    <3>2. Signed(y - x, ~nb) = Integer(a) - Integer(b)
      BY <1>1, <2>3 DEF Signed, Integer
    <3>3. QED
      BY <2>0, <3>1, <3>2
  <2>4. CASE na # nb
    <3>1. IInv' /\ Ended(out, Signed(y + x, ~nb), a)
      BY <1>1, <2>1, <2>2, <2>4, HelperOutcome
    <3>2. Signed(y + x, ~nb) = Integer(a) - Integer(b)
      BY <1>1, <2>4 DEF Signed, Integer
    <3>3. QED
      BY <2>0, <3>1, <3>2
  <2>5. QED
    BY <2>3, <2>4
<1>4. QED
  BY <1>2, <1>3

\* bn_mul fails early, fails on its scratch row, or delivers the product.
LEMMA MulOutcome ==
    ASSUME IInv, NEW a \in Objs, NEW b \in Objs, NEW out \in Objs, bn_mul(a, b, out)
    PROVE  /\ IInv'
           /\ \/ Return("NO_MEMORY")
              \/ "mul_tmp" \in FailSites /\ ret' = "NO_MEMORY"
              \/ \E len \in 1..MaxWords :
                    Delivered(out, Magnitude(a) * Magnitude(b), len, ~SameSign(a, b))
<1> DEFINE xlen == obj[a].len
           ylen == obj[b].len
           required == xlen + ylen
           reuse    == out \notin {a, b} /\ required <= obj[out].bstr_len
           dst_init == IF reuse THEN Wiped(mem[obj[out].bstr] % Weight[required])
                                ELSE 0
           product  == Magnitude(a) * Magnitude(b)
           len      == ProductLen(product, required)
           negative == ~SameSign(a, b)
<1>1. HasBuffer(a) /\ HasBuffer(b) /\ required <= MaxWords
  BY DEF bn_mul, Accepted, IsOperand
<1>2. /\ xlen \in 1..MaxWords /\ ylen \in 1..MaxWords
      /\ Magnitude(a) \in Nat /\ Magnitude(a) < Weight[xlen]
      /\ Magnitude(b) \in Nat /\ Magnitude(b) < Weight[ylen]
  BY <1>1, ObjectFacts
<1>3. product \in Nat /\ len \in 1..required /\ product < Weight[len]
  BY <1>1, <1>2, ProductFits
<1>4. dst_init = 0
  BY DEF Wiped
<1>5. required \in 1..MaxWords
  BY <1>1, <1>2, SizeAssumption
<1>6. reuse => HasBuffer(out)
  BY <1>5 DEF IInv, Capacity, HasBuffer
<1>7. CASE Return("NO_MEMORY")
  BY <1>7, ReturnOutcome DEF Codes
<1>8. CASE /\ reuse /\ "mul_tmp" \in FailSites
           /\ Move(obj[out].bstr, NULL, 0, 0) /\ ret' = "NO_MEMORY" /\ UNCHANGED obj
  BY <1>6, <1>8, ScratchFailureOutcome
<1>9. CASE /\ ~Dangling(out)
           /\ \E dst \in IF reuse THEN {obj[out].bstr} ELSE FreeBufs :
                 Package(out, dst, IF reuse THEN size[dst] ELSE required,
                         required, len, dst_init + product, negative)
  <2>1. PICK dst \in IF reuse THEN {obj[out].bstr} ELSE FreeBufs :
              Package(out, dst, IF reuse THEN size[dst] ELSE required,
                      required, len, dst_init + product, negative)
    BY <1>9
  <2>2. dst_init + product = product
    BY <1>3, <1>4
  <2> HIDE DEF required, product, len, dst_init
  <2>3. len \in 1..MaxWords /\ len <= required /\ required <= required
        /\ negative \in BOOLEAN
    BY <1>3, <1>5, SizeAssumption DEF SameSign
  <2>4. IInv' /\ Delivered(out, product, len, negative)
    <3>1. CASE reuse
      <4>1. required <= obj[out].bstr_len /\ dst = obj[out].bstr
        BY <2>1, <3>1
      <4>2. dst \in Bufs /\ size[dst] \in 1..MaxWords /\ required <= size[dst]
        BY <4>1, <3>1, <1>5, <1>6, <1>9, ObjectFacts, BlockFacts
      <4>3. QED
        BY <1>3, <1>5, <2>1, <2>2, <2>3, <3>1, <4>1, <4>2, PackageOutcome
    <3>2. CASE ~reuse
      <4>1. dst \in FreeBufs /\ dst \in Bufs
        BY <2>1, <3>2 DEF FreeBufs
      <4>2. QED
        BY <1>3, <1>5, <2>1, <2>2, <2>3, <3>2, <4>1, PackageOutcome
    <3>3. QED
      BY <3>1, <3>2
  <2>5. QED
    BY <2>3, <2>4 DEF product
<1>10. QED
  BY <1>7, <1>8, <1>9 DEF bn_mul

----------------------------------------------------------------------------
(* The invariant, and what it shows about the heap.                        *)

LEMMA InitInv == Init => IInv
<1> SUFFICES ASSUME Init PROVE IInv
  OBVIOUS
<1>1. \A o \in Objs : obj[o].bstr = NULL /\ obj[o].len = 0 /\ obj[o].bstr_len = 0
  BY DEF Init, Cleared
<1>2. Weight[MaxWords] \in Nat \ {0}
  BY WeightFacts
<1>3. TypeOK
  BY <1>2, SizeAssumption DEF Init, TypeOK, Descriptors, Cleared, Codes
<1>4. QED
  BY <1>1, <1>3 DEF IInv, OneOwner, NoSharing, NoLeak, Dangling,
                    HasBuffer, Capacity, CleanTail, Init

\* Every step leaves all objects alone, or forgets or computes one of them,
\* or is a bn_mul whose scratch row could not be allocated.
LEMMA StepOutcome ==
    ASSUME IInv, [Next]_vars
    PROVE  /\ IInv'
           /\ \/ UNCHANGED <<obj, size, mem>> /\ (ret' = "ABORT" => \/ UNCHANGED vars
                                                                   \/ ExplainedAbort)
              \/ /\ ret' # "ABORT"
                 /\ \E o \in Objs : ~HasBuffer(o)' /\ Untouched(o)
              \/ /\ ret' # "ABORT"
                 /\ \E o \in Objs, number \in Nat, len \in 1..MaxWords,
                       negative \in BOOLEAN :
                          /\ Delivered(o, number, len, negative)
                          /\ \/ SomePadded
                             \/ len <= WordsOf(number)
                             \/ \E a, b, out \in Objs : bn_mul(a, b, out)
              \/ /\ ret' = "NO_MEMORY" /\ "mul_tmp" \in FailSites
                 /\ \E a, b, out \in Objs : bn_mul(a, b, out)
<1>1. CASE UNCHANGED vars
  BY <1>1 DEF vars, IInv, TypeOK, OneOwner, NoSharing, NoLeak, Dangling,
              HasBuffer, Capacity, CleanTail
<1>2. ASSUME NEW o \in Pointers, bn_reset(o)
      PROVE  IInv' /\ ret' # "ABORT"
             /\ \/ UNCHANGED <<obj, size, mem>>
                \/ o \in Objs /\ ~HasBuffer(o)' /\ Untouched(o)
  <2>1. CASE Return("BAD_PTR")
    BY <2>1, ReturnOutcome DEF Codes, Return
  <2>2. CASE o \in Objs /\ Clear(o, FALSE) /\ ret' = "OK"
    BY <2>2, ClearOutcome DEF Codes
  <2>3. QED
    BY <1>2, <2>1, <2>2 DEF bn_reset
<1>3. ASSUME NEW o \in Pointers, bn_init_Refused(o) \/ bn_tostring(o)
      PROVE  IInv' /\ ret' # "ABORT" /\ UNCHANGED <<obj, size, mem>>
  BY <1>3, ReturnOutcome DEF bn_init_Refused, bn_tostring, Codes, Return
<1>4. ASSUME NEW o \in Objs, NEW negative \in BOOLEAN, NEW radix \in Radixes,
             NEW slen \in 0..MaxDigits, NEW v \in 0 .. (Power[radix][slen] - 1),
             bn_init(o, negative, radix, slen, v)
      PROVE  /\ IInv' /\ ret' # "ABORT"
             /\ \/ ~HasBuffer(o)' /\ Untouched(o)
                \/ /\ v \in Nat /\ WordsOf(v) \in 1..MaxWords
                   /\ Delivered(o, v, WordsOf(v), negative)
                   /\ WordsOf(v) <= WordsOf(v)
  <2>1. CASE ret' \in {"BAD_LENGTH", "NO_MEMORY", "BAD_ENC"} /\ ~HasBuffer(o)' /\ Untouched(o)
    BY <1>4, <2>1, InitOutcome
  <2>2. CASE Delivered(o, v, WordsOf(v), negative) /\ v \in 0 .. (Weight[MaxWords] - 1)
    <3>1. MaxWords \in 1..MaxWords /\ Weight[MaxWords] \in Nat
      BY SizeAssumption, WeightFacts
    <3>2. v \in Nat /\ v < Weight[MaxWords]
      BY <2>2, <3>1
    <3>3. WordsOf(v) \in 1..MaxWords
      BY <3>1, <3>2, WordsOfFits
    <3>4. IInv'
      BY <1>4, InitOutcome
    <3>5. ret' # "ABORT"
      BY <2>2 DEF Delivered
    <3>6. WordsOf(v) <= WordsOf(v)
      BY <3>3
    <3>7. QED
      BY <2>2, <3>2, <3>3, <3>4, <3>5, <3>6
  <2>3. QED
    BY <1>4, <2>1, <2>2, InitOutcome
<1>5. ASSUME NEW a \in Pointers, NEW b \in Pointers, NEW out \in Pointers,
             Refused(a, b, out)
      PROVE  IInv' /\ ret' # "ABORT" /\ UNCHANGED <<obj, size, mem>>
  BY <1>5, ReturnOutcome DEF Refused, Codes, Return
<1>6. ASSUME NEW a \in Pointers, NEW b \in Pointers, bn_div(a, b)
      PROVE  IInv' /\ ret' # "ABORT" /\ UNCHANGED <<obj, size, mem>>
  BY <1>6, ReturnOutcome DEF bn_div, Codes, Return
<1>7. ASSUME NEW a \in Objs, NEW b \in Objs, NEW out \in Objs,
             bn_add(a, b, out) \/ bn_sub(a, b, out)
      PROVE  /\ IInv'
             /\ \E v : Ended(out, v, Smaller(a, b))
  BY <1>7, AddOutcome, SubOutcome
<1>8. ASSUME NEW out \in Objs, NEW v, NEW min, Ended(out, v, min)
      PROVE  \/ UNCHANGED <<obj, size, mem>> /\ (ret' = "ABORT" => Padded(min))
             \/ /\ ret' # "ABORT"
                /\ \E number \in Nat, len \in 1..MaxWords, negative \in BOOLEAN :
                      /\ Delivered(out, number, len, negative)
                      /\ SomePadded \/ len <= WordsOf(number)
  BY <1>8 DEF Ended, Return, Abort, Computed, Delivered
<1>9. ASSUME NEW a \in Objs, NEW b \in Objs, NEW out \in Objs, bn_mul(a, b, out)
      PROVE  /\ IInv' /\ ret' # "ABORT"
             /\ \/ UNCHANGED <<obj, size, mem>>
                \/ ret' = "NO_MEMORY" /\ "mul_tmp" \in FailSites
                \/ \E number \in Nat, len \in 1..MaxWords, negative \in BOOLEAN :
                      Delivered(out, number, len, negative)
  <2>1. Magnitude(a) * Magnitude(b) \in Nat /\ (~SameSign(a, b)) \in BOOLEAN
    BY <1>9, OperandFacts DEF bn_mul, SameSign
  <2>2. IInv'
    BY <1>9, MulOutcome
  <2>3. CASE Return("NO_MEMORY")
    BY <2>2, <2>3 DEF Return
  <2>4. CASE "mul_tmp" \in FailSites /\ ret' = "NO_MEMORY"
    BY <2>2, <2>4
  <2>5. CASE \E len \in 1..MaxWords :
                Delivered(out, Magnitude(a) * Magnitude(b), len, ~SameSign(a, b))
    <3>1. PICK len \in 1..MaxWords :
                Delivered(out, Magnitude(a) * Magnitude(b), len, ~SameSign(a, b))
      BY <2>5
    <3>2. ret' # "ABORT"
      BY <3>1 DEF Delivered
    <3>3. QED
      BY <2>1, <2>2, <3>1, <3>2
  <2>6. QED
    BY <1>9, <2>3, <2>4, <2>5, MulOutcome
<1>10. ASSUME NEW o \in Objs, UseFreed(o)
       PROVE  IInv' /\ UNCHANGED <<obj, size, mem>> /\ ExplainedAbort
  BY <1>10, ReturnOutcome DEF UseFreed, Abort, ExplainedAbort, Return
<1>11. CASE \E o \in Pointers : bn_reset(o) \/ bn_init_Refused(o) \/ bn_tostring(o)
  BY <1>2, <1>3, <1>11
<1>12. CASE \E o \in Objs, negative \in BOOLEAN, radix \in Radixes,
               slen \in 0..MaxDigits :
                  \E v \in 0 .. (Power[radix][slen] - 1) :
                     bn_init(o, negative, radix, slen, v)
  BY <1>4, <1>12
<1>13. CASE \/ \E a, b, out \in Pointers : Refused(a, b, out)
            \/ \E a, b \in Pointers : bn_div(a, b)
  BY <1>5, <1>6, <1>13
<1>14. CASE \E a, b, out \in Objs : bn_add(a, b, out) \/ bn_sub(a, b, out)
  <2>1. PICK a \in Objs, b \in Objs, out \in Objs : bn_add(a, b, out) \/ bn_sub(a, b, out)
    BY <1>14
  <2>2. IInv' /\ \E v : Ended(out, v, Smaller(a, b))
    BY <1>7, <2>1
  <2>3. Padded(Smaller(a, b)) => ExplainedAbort
    BY <2>1 DEF ExplainedAbort
  <2> QED BY <1>8, <2>2, <2>3
<1>15. CASE \E a, b, out \in Objs : bn_mul(a, b, out)
  BY <1>9, <1>15
<1>16. CASE \E o \in Objs : UseFreed(o)
  BY <1>10, <1>16
<1>17. QED
  BY <1>1, <1>11, <1>12, <1>13, <1>14, <1>15, <1>16 DEF Next

LEMMA Invariance == Spec => []IInv
<1>1. IInv /\ [Next]_vars => IInv'
  BY StepOutcome
<1>2. QED
  BY <1>1, InitInv, PTL DEF Spec

\* Every object, block and return code has its type in every reachable state,
\* and a block never holds more than its owner counts.
THEOREM TypeCorrect == Spec => []TypeOK
<1>1. IInv => TypeOK
  BY DEF IInv
<1>2. QED
  BY <1>1, Invariance, PTL

\* Whatever the client calls and whichever allocations fail, no block has two
\* owners and none leaks.
THEOREM HeapHasOneOwner == Spec => []OneOwner
<1>1. IInv => OneOwner
  BY DEF IInv
<1>2. QED
  BY <1>1, Invariance, PTL

\* The lengths of an object never promise more than its block has.
THEOREM LengthsFit == Spec => []Capacity
<1>1. IInv => Capacity
  BY DEF IInv
<1>2. QED
  BY <1>1, Invariance, PTL

\* add_unsigned never finds a stale word after an operand it extends in place.
THEOREM TailsAreClean == Spec => []CleanTail
<1>1. IInv => CleanTail
  BY DEF IInv
<1>2. QED
  BY <1>1, Invariance, PTL

\* What the steps do to the objects they leave alone.
LEMMA UntouchedFacts ==
    ASSUME IInv, NEW out \in Objs, Untouched(out), NEW p \in Objs \ {out}
    PROVE  /\ HasBuffer(p)' = HasBuffer(p)
           /\ Dangling(p)' = Dangling(p)
           /\ Padded(p)' = Padded(p)
           /\ HasBuffer(p) => Magnitude(p)' = Magnitude(p) /\ Integer(p)' = Integer(p)
<1>1. obj'[p] = obj[p]
  BY DEF Untouched
<1>2. HasBuffer(p) => /\ size'[obj[p].bstr] = size[obj[p].bstr]
                      /\ mem'[obj[p].bstr] = mem[obj[p].bstr]
  BY DEF Untouched
<1>3. HasBuffer(p) => Magnitude(p)' = Magnitude(p)
  BY <1>1, <1>2 DEF Magnitude
<1>4. HasBuffer(p)' = HasBuffer(p)
  BY <1>1 DEF HasBuffer
<1>5. Dangling(p)' = Dangling(p)
  BY <1>1, <1>2, <1>4 DEF Dangling
<1>6. Padded(p)' = Padded(p)
  BY <1>1, <1>3, <1>4 DEF Padded
<1>7. HasBuffer(p) => Integer(p)' = Integer(p)
  BY <1>1, <1>3 DEF Integer, Signed
<1>8. QED
  BY <1>3, <1>4, <1>5, <1>6, <1>7

\* Only a bn_mul whose scratch row cannot be allocated makes a pointer dangle.
LEMMA StepDangling ==
    ASSUME IInv, [Next]_vars, NoDangling
    PROVE  \/ NoDangling'
           \/ /\ ret' = "NO_MEMORY" /\ "mul_tmp" \in FailSites
              /\ \E a, b, out \in Objs : bn_mul(a, b, out)
<1>1. CASE UNCHANGED <<obj, size, mem>>
  BY <1>1 DEF NoDangling, Dangling, HasBuffer
<1>2. ASSUME NEW o \in Objs, Untouched(o), ~Dangling(o)' PROVE NoDangling'
  BY <1>2, UntouchedFacts DEF NoDangling
<1>3. ASSUME NEW o \in Objs, ~HasBuffer(o)' PROVE ~Dangling(o)'
  BY <1>3 DEF Dangling
<1>4. QED
  BY <1>1, <1>2, <1>3, StepOutcome DEF Delivered

\* A pointer to a freed block appears in one step of the library only.
THEOREM OnlyFailedProductsDangle == Spec => DanglingAfterFailedProduct
<1>1. IInv /\ [Next]_vars =>
         [NoDangling /\ ~NoDangling' => /\ ret' = "NO_MEMORY"
                                        /\ \E a, b, out \in Objs : bn_mul(a, b, out)]_vars
  BY StepDangling
<1>2. QED
  BY <1>1, Invariance, PTL DEF Spec, DanglingAfterFailedProduct

\* When that row can always be allocated, no pointer ever dangles.
THEOREM NothingDangles == ASSUME "mul_tmp" \notin FailSites PROVE Spec => []NoDangling
<1>1. Init => NoDangling
  BY DEF Init, NoDangling, Dangling, HasBuffer, Cleared
<1>2. IInv /\ NoDangling /\ [Next]_vars => NoDangling'
  BY StepDangling
<1>3. QED
  BY <1>1, <1>2, Invariance, PTL DEF Spec

\* Leading zero words first appear in a product.
THEOREM OnlyProductsPad == Spec => PaddingComesFromProducts
<1>1. ASSUME IInv, [Next]_vars, ~SomePadded, SomePadded'
      PROVE  \E a, b, out \in Objs : bn_mul(a, b, out)
  <2>1. CASE UNCHANGED <<obj, size, mem>>
    BY <1>1, <2>1 DEF SomePadded, Padded, HasBuffer, Magnitude
  <2>2. ASSUME NEW o \in Objs, Untouched(o), ~Padded(o)' PROVE FALSE
    BY <1>1, <2>2, UntouchedFacts DEF SomePadded
  <2>3. ASSUME NEW o \in Objs, ~HasBuffer(o)' PROVE ~Padded(o)'
    BY <2>3 DEF Padded
  <2>4. ASSUME NEW o \in Objs, NEW number \in Nat, NEW len \in 1..MaxWords,
               NEW negative \in BOOLEAN, Delivered(o, number, len, negative),
               len <= WordsOf(number)
        PROVE  ~Padded(o)'
    <3>1. obj'[o].len = len /\ Magnitude(o)' = number
      BY <2>4 DEF Delivered
    <3>2. WordsOf(number) \in 1..MaxWords
      <4>1. IInv'
        BY <1>1, StepOutcome
      <4>2. number < Weight[len]
        <5>1. HasBuffer(o)' /\ obj'[o].len = len
          BY <2>4 DEF Delivered
        <5>2. mem'[obj'[o].bstr] < Weight[len]
          BY <4>1, <5>1 DEF IInv, CleanTail, HasBuffer
        <5>3. mem'[obj'[o].bstr] \in Nat
          BY <4>1, <5>1 DEF IInv, TypeOK, Descriptors, HasBuffer
        <5>4. len \in 0..MaxPower
          BY WeightFacts, SizeAssumption
        <5>5. number = mem'[obj'[o].bstr] % Weight[len]
          BY <3>1 DEF Magnitude
        <5>6. QED
          BY <5>2, <5>3, <5>4, <5>5, LowWords
      <4>3. WordsOf(number) \in 1..len
        BY <4>2, WordsOfFits
      <4>4. QED
        BY <4>3, SizeAssumption
    <3>3. QED
      BY <2>4, <3>1, <3>2 DEF Padded
  <2>5. QED
    BY <1>1, <2>1, <2>2, <2>3, <2>4, StepOutcome DEF Delivered
<1>2. IInv /\ [Next]_vars =>
         [~SomePadded /\ SomePadded' => \E a, b, out \in Objs : bn_mul(a, b, out)]_vars
  BY <1>1
<1>3. QED
  BY <1>2, Invariance, PTL DEF Spec, PaddingComesFromProducts

\* No assertion fails unless the smaller operand of a sum or a difference has leading
\* zero words, and nothing else ends the program but the use of a dangling pointer.
THEOREM AbortsAreExplained == Spec => AbortNeedsPadding
<1>1. IInv /\ [Next]_vars => [ret' = "ABORT" => ExplainedAbort]_vars
  BY StepOutcome
<1>2. QED
  BY <1>1, Invariance, PTL DEF Spec, AbortNeedsPadding

----------------------------------------------------------------------------
(* Refinement of the integers.                                             *)

\* The effect of the two successful outcomes on the registers.
LEMMA DeliveredValue ==
    ASSUME IInv, NEW out \in Objs, NEW number \in Nat, NEW len \in 1..MaxWords,
           NEW negative \in BOOLEAN, Delivered(out, number, len, negative)
    PROVE  Values' = [Values EXCEPT ![out] = Signed(number, negative)] /\ ret' = "OK"
<1>1. /\ HasBuffer(out)' /\ Magnitude(out)' = number /\ obj'[out].is_negative = negative
      /\ Untouched(out) /\ ret' = "OK"
  BY DEF Delivered
<1>2. Integer(out)' = Signed(number, negative)
  BY <1>1 DEF Integer, Signed
<1>3. \A p \in Objs \ {out} : /\ HasBuffer(p)' = HasBuffer(p)
                              /\ HasBuffer(p) => Integer(p)' = Integer(p)
  BY <1>1, UntouchedFacts
<1>4. QED
  BY <1>1, <1>2, <1>3 DEF Values

LEMMA ForgottenValue ==
    ASSUME IInv, NEW o \in Objs, ~HasBuffer(o)', Untouched(o)
    PROVE  Values' = [Values EXCEPT ![o] = NULL]
<1>1. \A p \in Objs \ {o} : /\ HasBuffer(p)' = HasBuffer(p)
                            /\ HasBuffer(p) => Integer(p)' = Integer(p)
  BY UntouchedFacts
<1>2. QED
  BY <1>1 DEF Values

\* A call that returns early leaves the registers alone.
LEMMA ReturnedValue ==
    ASSUME NEW code, Return(code)
    PROVE  Values' = Values /\ ret' = code
BY DEF Return, Values, HasBuffer, Integer, Magnitude

\* The register of an object that holds a number is set.
LEMMA SetFacts ==
    ASSUME IInv, NEW o \in Objs, HasBuffer(o)
    PROVE  Integer(o) \in Int /\ Values[o] = Integer(o) /\ Values[o] # NULL
<1>1. Magnitude(o) \in Nat /\ obj[o].is_negative \in BOOLEAN
  BY ObjectFacts
<1>2. Integer(o) \in Int
  BY <1>1 DEF Integer, Signed
<1>3. QED
  BY <1>2, PointerAssumption DEF Values

----------------------------------------------------------------------------
(* One lemma per kind of call.                                             *)

\* The calls of the model are requests of the registers.
LEMMA Requested ==
    /\ \A o \in Pointers, v \in Numbers : <<"init", <<o, v>>>> \in Registers!Requests
    /\ \A o \in Pointers, function \in {"reset", "tostring"} :
          <<function, o>> \in Registers!Requests
    /\ \A a, b, out \in Pointers, function \in {"add", "sub", "mul"} :
          <<function, <<a, b, out>>>> \in Registers!Requests
    /\ \A a, b \in Pointers : <<"div", <<a, b>>>> \in Registers!Requests
BY DEF Pointers, Registers!Pointers, Registers!Requests

LEMMA SignedNumber ==
    ASSUME NEW v \in 0 .. (Weight[MaxWords] - 1), NEW negative \in BOOLEAN
    PROVE  Signed(v, negative) \in Numbers
BY DEF Signed, Numbers

\* An early return is a refusal, or, when it reports BN_OK, a read.
LEMMA ReturnRefines ==
    ASSUME NEW code \in Codes, Return(code), call' \in Registers!Requests,
           code = "OK" => call'[1] \in {"tostring", "div"}
    PROVE  Registers!Next
<1>1. Values' = Values /\ ret' = code
  BY ReturnedValue
<1>2. CASE code = "OK"
  BY <1>1, <1>2 DEF Registers!Next, Registers!ReadOnly
<1>3. CASE code # "OK"
  BY <1>1, <1>3 DEF Codes, Registers!Next, Registers!Refuse, Registers!Errors
<1>4. QED
  BY <1>2, <1>3

LEMMA ResetRefines ==
    ASSUME IInv, NEW o \in Pointers, bn_reset(o)
    PROVE  Registers!Next
<1>1. call' = <<"reset", o>> /\ call' \in Registers!Requests
  BY Requested DEF bn_reset, Calling
<1>2. CASE Return("BAD_PTR")
  BY <1>1, <1>2, ReturnRefines DEF Codes
<1>3. CASE o \in Objs /\ Clear(o, FALSE) /\ ret' = "OK"
  <2>1. Values' = [Values EXCEPT ![o] = NULL]
    BY <1>3, ClearOutcome, ForgottenValue DEF Codes
  <2>2. Registers!Forget(o)
    BY <1>1, <1>3, <2>1 DEF Registers!Forget, Registers!Store
  <2>3. QED
    BY <1>3, <2>2 DEF Registers!Next
<1>4. QED
  BY <1>2, <1>3 DEF bn_reset

LEMMA InitRefines ==
    ASSUME IInv, NEW o \in Objs, NEW negative \in BOOLEAN, NEW radix \in Radixes,
           NEW slen \in 0..MaxDigits, NEW v \in 0 .. (Power[radix][slen] - 1),
           bn_init(o, negative, radix, slen, v)
    PROVE  Registers!Next
<1> DEFINE number == Signed(v, negative)
<1>1. call' = <<"init", <<o, number>>>>
  BY DEF bn_init, Calling
<1>2. v \in 0 .. (Weight[MaxWords] - 1)
  <2>1. Power[radix][slen] \in Nat
    BY PowerPositive, SizeAssumption DEF MaxPower
  <2>2. Weight[MaxWords] \in Nat
    BY SizeAssumption, WeightFacts
  <2>3. QED
    BY <2>1, <2>2 DEF bn_init
<1>3. number \in Numbers
  BY <1>2, SignedNumber
<1>4. CASE /\ ret' \in {"BAD_LENGTH", "NO_MEMORY", "BAD_ENC"}
           /\ ~HasBuffer(o)' /\ Untouched(o)
  <2>1. Values' = [Values EXCEPT ![o] = NULL]
    BY <1>4, ForgottenValue
  <2>2. Registers!Misconstruct(o, number)
    BY <1>1, <1>4, <2>1 DEF Registers!Misconstruct, Registers!Errors
  <2>3. QED
    BY <1>3, <2>2 DEF Registers!Next
<1>5. CASE /\ Delivered(o, v, WordsOf(v), negative)
           /\ v \in 0 .. (Weight[MaxWords] - 1)
  <2>1. MaxWords \in 1..MaxWords /\ Weight[MaxWords] \in Nat
    BY SizeAssumption, WeightFacts
  <2>2. v \in Nat /\ v < Weight[MaxWords]
    BY <1>2, <2>1
  <2>3. WordsOf(v) \in 1..MaxWords
    BY <2>1, <2>2, WordsOfFits
  <2>4. Values' = [Values EXCEPT ![o] = number] /\ ret' = "OK"
    BY <1>5, <2>2, <2>3, DeliveredValue
  <2>5. Registers!Construct(o, number)
    BY <1>1, <2>4 DEF Registers!Construct, Registers!Store
  <2>6. QED
    BY <1>3, <2>5 DEF Registers!Next
<1>6. QED
  BY <1>4, <1>5, InitOutcome

\* bn_add and bn_sub, whose assertions may fail: the registers when they end.
LEMMA EndedValue ==
    ASSUME IInv, NEW a \in Objs, NEW b \in Objs, NEW out \in Objs, NEW v,
           NEW min, HasBuffer(a), HasBuffer(b), Ended(out, v, min),
           call' \in Registers!Requests
    PROVE  \/ ret' = "ABORT"
           \/ Registers!Next
           \/ /\ Values' = [Values EXCEPT ![out] = v] /\ ret' = "OK"
              /\ Values[a] = Integer(a) /\ Values[a] # NULL
              /\ Values[b] = Integer(b) /\ Values[b] # NULL
<1>1. CASE Return("NO_MEMORY")
  BY <1>1, ReturnRefines DEF Codes
<1>2. CASE Abort
  BY <1>2 DEF Abort, Return
<1>3. CASE Computed(out, v)
  <2>1. Values' = [Values EXCEPT ![out] = v] /\ ret' = "OK"
    BY <1>3, DeliveredValue DEF Computed
  <2>2. QED
    BY <2>1, SetFacts
<1>4. QED
  BY <1>1, <1>2, <1>3 DEF Ended

LEMMA AddRefines ==
    ASSUME IInv, NEW a \in Objs, NEW b \in Objs, NEW out \in Objs, bn_add(a, b, out)
    PROVE  ret' = "ABORT" \/ Registers!Next
<1>1. HasBuffer(a) /\ HasBuffer(b)
  BY OperandFacts DEF bn_add
<1>2. call' = <<"add", <<a, b, out>>>> /\ call' \in Registers!Requests
  BY Requested DEF bn_add, Calling, Pointers
<1>3. CASE /\ Values' = [Values EXCEPT ![out] = Integer(a) + Integer(b)] /\ ret' = "OK"
           /\ Values[a] = Integer(a) /\ Values[a] # NULL
           /\ Values[b] = Integer(b) /\ Values[b] # NULL
  <2>1. Registers!Add(a, b, out)
    BY <1>2, <1>3 DEF Registers!Add, Registers!Computes, Registers!Store, Registers!Set
  <2>2. QED
    BY <2>1 DEF Registers!Next
<1>4. QED
  BY <1>1, <1>2, <1>3, AddOutcome, EndedValue

LEMMA SubRefines ==
    ASSUME IInv, NEW a \in Objs, NEW b \in Objs, NEW out \in Objs, bn_sub(a, b, out)
    PROVE  ret' = "ABORT" \/ Registers!Next
<1>1. HasBuffer(a) /\ HasBuffer(b)
  BY OperandFacts DEF bn_sub
<1>2. call' = <<"sub", <<a, b, out>>>> /\ call' \in Registers!Requests
  BY Requested DEF bn_sub, Calling, Pointers
<1>3. CASE /\ Values' = [Values EXCEPT ![out] = Integer(a) - Integer(b)] /\ ret' = "OK"
           /\ Values[a] = Integer(a) /\ Values[a] # NULL
           /\ Values[b] = Integer(b) /\ Values[b] # NULL
  <2>1. Registers!Subtract(a, b, out)
    BY <1>2, <1>3
       DEF Registers!Subtract, Registers!Computes, Registers!Store, Registers!Set
  <2>2. QED
    BY <2>1 DEF Registers!Next
<1>4. QED
  BY <1>1, <1>2, <1>3, SubOutcome, EndedValue

LEMMA MulRefines ==
    ASSUME IInv, "mul_tmp" \notin FailSites,
           NEW a \in Objs, NEW b \in Objs, NEW out \in Objs, bn_mul(a, b, out)
    PROVE  Registers!Next
<1>1. call' = <<"mul", <<a, b, out>>>> /\ call' \in Registers!Requests
  BY Requested DEF bn_mul, Calling, Pointers
<1>2. CASE Return("NO_MEMORY")
  BY <1>1, <1>2, ReturnRefines DEF Codes
<1>3. ASSUME NEW len \in 1..MaxWords,
             Delivered(out, Magnitude(a) * Magnitude(b), len, ~SameSign(a, b))
      PROVE  Registers!Next
  <2>1. /\ HasBuffer(a) /\ HasBuffer(b)
        /\ Magnitude(a) \in Nat /\ Magnitude(b) \in Nat
        /\ obj[a].is_negative \in BOOLEAN /\ obj[b].is_negative \in BOOLEAN
    BY OperandFacts DEF bn_mul
  <2>2. Magnitude(a) * Magnitude(b) \in Nat /\ (~SameSign(a, b)) \in BOOLEAN
    BY <2>1 DEF SameSign
  <2>3. /\ Values' = [Values EXCEPT ![out] = Signed(Magnitude(a) * Magnitude(b),
                                                    ~SameSign(a, b))]
        /\ ret' = "OK"
    BY <1>3, <2>2, DeliveredValue
  <2>4. ASSUME NEW x \in Nat, NEW y \in Nat
        PROVE  (-x) * (-y) = x * y /\ (-x) * y = -(x * y) /\ x * (-y) = -(x * y)
    BY <2>4
  <2>5. Signed(Magnitude(a) * Magnitude(b), ~SameSign(a, b)) = Integer(a) * Integer(b)
    BY <2>1, <2>4 DEF Signed, Integer, SameSign
  <2>6. /\ Values[a] = Integer(a) /\ Values[a] # NULL
        /\ Values[b] = Integer(b) /\ Values[b] # NULL
    BY <2>1, SetFacts
  <2>7. Registers!Multiply(a, b, out)
    BY <1>1, <2>3, <2>5, <2>6
       DEF Registers!Multiply, Registers!Computes, Registers!Store, Registers!Set
  <2>8. QED
    BY <2>7 DEF Registers!Next
<1>4. QED
  BY <1>2, <1>3, MulOutcome

\* The calls that touch no object.
LEMMA RefusedRefines ==
    /\ \A o \in Pointers : bn_init_Refused(o) \/ bn_tostring(o) => Registers!Next
    /\ \A a, b, out \in Pointers : Refused(a, b, out) \/ bn_div(a, b) => Registers!Next
<1>1. ASSUME NEW o \in Pointers, bn_init_Refused(o) PROVE Registers!Next
  <2>1. Weight[MaxWords] \in Nat \ {0}
    BY SizeAssumption, WeightFacts
  <2>2. 0 \in Numbers
    BY <2>1 DEF Numbers
  <2>3. call' \in Registers!Requests
    BY <1>1, <2>2, Requested DEF bn_init_Refused, Calling
  <2>4. QED
    BY <1>1, <2>3, ReturnRefines DEF bn_init_Refused, Codes
<1>2. ASSUME NEW o \in Pointers, bn_tostring(o) PROVE Registers!Next
  <2>1. call' = <<"tostring", o>> /\ call' \in Registers!Requests
    BY <1>2, Requested DEF bn_tostring, Calling
  <2>2. QED
    BY <1>2, <2>1, ReturnRefines DEF bn_tostring, Codes
<1>3. ASSUME NEW a \in Pointers, NEW b \in Pointers, NEW out \in Pointers,
             Refused(a, b, out)
      PROVE  Registers!Next
  <2>1. call' \in Registers!Requests
    BY <1>3, Requested DEF Refused, Calling
  <2>2. QED
    BY <1>3, <2>1, ReturnRefines DEF Refused, Codes
<1>4. ASSUME NEW a \in Pointers, NEW b \in Pointers, bn_div(a, b)
      PROVE  Registers!Next
  <2>1. call' = <<"div", <<a, b>>>> /\ call' \in Registers!Requests
    BY <1>4, Requested DEF bn_div, Calling
  <2>2. QED
    BY <1>4, <2>1, ReturnRefines DEF bn_div, Codes
<1>5. QED
  BY <1>1, <1>2, <1>3, <1>4

----------------------------------------------------------------------------
LEMMA InitialRefines == Init => Registers!Init
BY DEF Init, Cleared, HasBuffer, Values, Registers!Init

LEMMA StepRefines ==
    ASSUME "mul_tmp" \notin FailSites, IInv, NoDangling, Next
    PROVE  ret' = "ABORT" \/ Registers!Next
<1>1. CASE \E o \in Pointers : bn_reset(o) \/ bn_init_Refused(o) \/ bn_tostring(o)
  BY <1>1, RefusedRefines, ResetRefines
<1>2. CASE \E o \in Objs, negative \in BOOLEAN, radix \in Radixes,
              slen \in 0..MaxDigits :
                 \E v \in 0 .. (Power[radix][slen] - 1) :
                    bn_init(o, negative, radix, slen, v)
  BY <1>2, InitRefines
<1>3. CASE \E a, b, out \in Pointers : Refused(a, b, out)
  BY <1>3, RefusedRefines
<1>4. CASE \E a, b \in Pointers : bn_div(a, b)
  BY <1>4, RefusedRefines DEF Pointers
<1>5. CASE \E a, b, out \in Objs : bn_add(a, b, out) \/ bn_sub(a, b, out)
  BY <1>5, AddRefines, SubRefines
<1>6. CASE \E a, b, out \in Objs : bn_mul(a, b, out)
  BY <1>6, MulRefines
<1>7. CASE \E o \in Objs : UseFreed(o)
  BY <1>7 DEF UseFreed, NoDangling
<1>8. QED
  BY <1>1, <1>2, <1>3, <1>4, <1>5, <1>6, <1>7 DEF Next

\* For any word size and any set of objects, and whichever allocations fail but
\* bn_mul's scratch row, every call that returns BN_OK has performed exactly
\* its integer operation on the registers, up to a failed assertion.
THEOREM ArithmeticIsExact ==
    ASSUME "mul_tmp" \notin FailSites PROVE Spec => ImplementsIntegers
<1>1. IInv /\ NoDangling /\ [Next]_vars => [ret' = "ABORT" \/ Registers!Next]_vars
  BY StepRefines
<1>2. QED
  BY <1>1, InitialRefines, Invariance, NothingDangles, PTL DEF Spec, ImplementsIntegers
============================================================================
