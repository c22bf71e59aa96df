---------------------------- MODULE BnIntegers ----------------------------
(***************************************************************************)
(* What the bignum library promises its client, with no representation:    *)
(* every bn_t is a register that is unset or holds an integer, and a call  *)
(* that reports BN_OK has performed exactly its arithmetic, whatever       *)
(* registers the caller aliased.  A call that reports an error changes no  *)
(* register, except that bn_init first forgets the one it was given.       *)
(* src/bignum/bignum.h, lines 70-90, declares the operations.              *)
(***************************************************************************)
EXTENDS Integers

CONSTANTS Objs,      \* the client's bn_t objects
          Unset,     \* the null pointer, and the content of an unset object
          Numbers    \* the integers bn_init may be asked to read

VARIABLES val,       \* the integer each object holds, or Unset
          ret,       \* what the last call returned
          call       \* the last call: its function and its arguments

vars == <<val, ret, call>>

Errors == {"BAD_PTR", "BAD_LENGTH", "BAD_ENC", "BAD_VALUE", "NO_MEMORY"}

Pointers == Objs \cup {Unset}

\* Every call a client can make; the string of bn_init is the integer it spells.
Requests ==
    ({"init"} \X (Pointers \X Numbers)) \cup
    ({"reset", "tostring"} \X Pointers) \cup
    ({"add", "sub", "mul"} \X (Pointers \X Pointers \X Pointers)) \cup
    ({"div"} \X (Pointers \X Pointers))

Set(o) == val[o] # Unset

Init ==
    /\ val = [o \in Objs |-> Unset]
    /\ ret = "OK"

Store(out, v) ==
    /\ val' = [val EXCEPT ![out] = v]
    /\ ret' = "OK"

Refuse == call' \in Requests /\ ret' \in Errors /\ UNCHANGED val

Construct(o, v) == call' = <<"init", <<o, v>>>> /\ Store(o, v)
Misconstruct(o, v) ==
    /\ call' = <<"init", <<o, v>>>>
    /\ ret' \in Errors /\ val' = [val EXCEPT ![o] = Unset]
Forget(o) == call' = <<"reset", o>> /\ Store(o, Unset)

Computes(function, a, b, out, v) ==
    call' = <<function, <<a, b, out>>>> /\ Set(a) /\ Set(b) /\ Store(out, v)

Add(a, b, out)      == Computes("add", a, b, out, val[a] + val[b])
Subtract(a, b, out) == Computes("sub", a, b, out, val[a] - val[b])
Multiply(a, b, out) == Computes("mul", a, b, out, val[a] * val[b])

\* bn_tostring, which reads, and bn_div, bn_mod and bn_modexp, which at
\* this commit only return BN_OK.
ReadOnly ==
    /\ call' \in Requests /\ call'[1] \in {"tostring", "div"}
    /\ ret' = "OK" /\ UNCHANGED val

Next ==
    \/ Refuse
    \/ ReadOnly
    \/ \E o \in Objs : Forget(o)
    \/ \E o \in Objs, v \in Numbers : Construct(o, v) \/ Misconstruct(o, v)
    \/ \E a, b, out \in Objs :
          Add(a, b, out) \/ Subtract(a, b, out) \/ Multiply(a, b, out)

Spec == Init /\ [][Next]_vars
============================================================================
