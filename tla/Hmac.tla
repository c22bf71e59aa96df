------------------------------- MODULE Hmac -------------------------------
(***************************************************************************)
(* hmac, src/crypto/hmac.c: the message authentication code of one         *)
(* message, statement group by statement group, with every early exit of   *)
(* its do-while(0) and the cleaning after it.  The hash function is the    *)
(* caller's: it is any function of its input, and it may fail.  Arrays of  *)
(* n bytes are functions on 0..n-1, the NULL pointer is the empty one.     *)
(***************************************************************************)
EXTENDS Integers

CONSTANTS
    Algs,           \* the hash algorithms hmac knows
    BlockLen,       \* b_bytes of each algorithm
    DigestLen,      \* l_bytes of each algorithm
    MinKeyLen,      \* the least length of a key
    SizeMax,        \* SIZE_MAX
    Key, Msg,       \* the caller's bytes, as many as a size_t can count
    Zero, Junk,     \* the byte 0, and a byte malloc leaves
    IPAD, OPAD,
    Xor(_, _),      \* of two bytes
    Hash(_, _, _)   \* byte i of the digest of an array under an algorithm

ASSUME LengthAssumption ==
    /\ SizeMax \in Nat /\ MinKeyLen \in Nat
    /\ BlockLen \in [Algs -> Nat \ {0}] /\ DigestLen \in [Algs -> Nat \ {0}]
    /\ \A alg \in Algs :
          DigestLen[alg] <= BlockLen[alg] /\ 2 * BlockLen[alg] <= SizeMax

VARIABLES
    pc,       \* the next statement group
    args,     \* the arguments
    k0, buf, digest,   \* the three heap blocks
    freed,    \* the bytes left behind in freed blocks
    tag,      \* what was written to the caller's tag
    ret

vars == <<pc, args, k0, buf, digest, freed, tag, ret>>

NULL == << >>

\* null: one of the pointers the code checks is NULL.
Calls == [alg : Algs \cup {"other"}, null : BOOLEAN,
          keylen : 0..SizeMax, msglen : 0..SizeMax]

\* The lengths of the underlying hash; both start as 0.
b_bytes == IF args.alg \in Algs THEN BlockLen[args.alg] ELSE 0
l_bytes == IF args.alg \in Algs THEN DigestLen[args.alg] ELSE 0

----------------------------------------------------------------------------
(* Arrays.                                                                 *)

Bytes(n) == 0 .. (n - 1)

\* memcpy of the first n bytes of src to block, from position at on.
Copied(block, at, src, n) ==
    [i \in DOMAIN block |-> IF i - at \in Bytes(n) THEN src[i - at] ELSE block[i]]

Padded(block, n, pad) ==
    [i \in DOMAIN block |-> IF i \in Bytes(n) THEN Xor(block[i], pad) ELSE block[i]]

\* The digest of the first n bytes of data.
Digest(data, n) ==
    [i \in Bytes(l_bytes) |-> Hash(args.alg, [j \in Bytes(n) |-> data[j]], i)]

\* explicit_bzero of the first n bytes of block, in case it was allocated.
Wiped_Short(block, n) ==
    [i \in DOMAIN block |-> IF i \in Bytes(l_bytes) THEN Zero ELSE block[i]]
Wiped(block, n) ==
    [i \in DOMAIN block |-> IF i \in Bytes(n) THEN Zero ELSE block[i]]

Contents(block) == {block[i] : i \in DOMAIN block}

----------------------------------------------------------------------------
(* The statement groups.                                                   *)

\* Every error leaves the do-while(0).
Fail ==
    /\ ret' = 1 /\ pc' = "clean"
    /\ UNCHANGED <<args, k0, buf, digest, freed, tag>>

At(here, next) == pc = here /\ pc' = next /\ UNCHANGED <<args, freed, ret>>

TooLong_Never(msglen) == FALSE
TooLong(msglen) == msglen > SizeMax - b_bytes

Rejected ==
    \/ args.null
    \/ args.alg \notin Algs
    \/ TooLong(args.msglen)
    \/ args.keylen < MinKeyLen

Check ==
    \/ pc = "check" /\ Rejected /\ Fail
    \/ ~Rejected /\ At("check", "alloc_k0") /\ UNCHANGED <<k0, buf, digest, tag>>

AllocK0_KeySized ==
    /\ At("alloc_k0", "load_key")
    /\ k0' = [i \in Bytes(args.keylen) |-> Zero]
    /\ UNCHANGED <<buf, digest, tag>>

AllocK0 ==
    \/ pc = "alloc_k0" /\ Fail
    \/ /\ At("alloc_k0", "load_key")
       /\ k0' = [i \in Bytes(b_bytes) |-> Zero]
       /\ UNCHANGED <<buf, digest, tag>>

\* A key longer than a block is hashed, a shorter one padded with zeros.
LoadKey ==
    \/ pc = "load_key" /\ args.keylen > b_bytes /\ Fail
    \/ /\ At("load_key", "alloc_buf")
       /\ k0' = IF args.keylen <= b_bytes
                THEN Copied(k0, 0, Key, args.keylen)
                ELSE Copied(k0, 0, Digest(Key, args.keylen), l_bytes)
       /\ UNCHANGED <<buf, digest, tag>>

\* size_t arithmetic.
buflen ==
    (b_bytes + (IF args.msglen > l_bytes THEN args.msglen ELSE l_bytes))
        % (SizeMax + 1)

AllocBuf ==
    \/ pc = "alloc_buf" /\ Fail
    \/ /\ At("alloc_buf", "inner_pad")
       /\ buf' = [i \in Bytes(buflen) |-> Junk]
       /\ UNCHANGED <<k0, digest, tag>>

\* buf := (K0 ^ IPAD) || msg
InnerPad ==
    /\ At("inner_pad", "alloc_digest")
    /\ buf' = Padded(Copied(Copied(buf, 0, k0, b_bytes), b_bytes, Msg, args.msglen),
                     b_bytes, IPAD)
    /\ UNCHANGED <<k0, digest, tag>>

AllocDigest ==
    \/ pc = "alloc_digest" /\ Fail
    \/ /\ At("alloc_digest", "inner_hash")
       /\ digest' = [i \in Bytes(l_bytes) |-> Junk]
       /\ UNCHANGED <<k0, buf, tag>>

InnerHash ==
    \/ pc = "inner_hash" /\ Fail
    \/ /\ At("inner_hash", "outer_pad")
       /\ digest' = Digest(buf, b_bytes + args.msglen)
       /\ UNCHANGED <<k0, buf, tag>>

\* buf := (K0 ^ OPAD) || digest, in the same buffer.
OuterBlock_OverInner(block) ==
    Padded(Copied(block, b_bytes, digest, l_bytes), b_bytes, OPAD)
OuterBlock(block) ==
    Padded(Copied(Copied(block, 0, k0, b_bytes), b_bytes, digest, l_bytes),
           b_bytes, OPAD)

OuterPad ==
    /\ At("outer_pad", "outer_hash")
    /\ buf' = OuterBlock(buf)
    /\ UNCHANGED <<k0, digest, tag>>

OuterHash ==
    \/ pc = "outer_hash" /\ Fail
    \/ /\ At("outer_hash", "deliver")
       /\ digest' = Digest(buf, b_bytes + l_bytes)
       /\ UNCHANGED <<k0, buf, tag>>

Deliver ==
    /\ At("deliver", "clean")
    /\ tag' = Copied([i \in Bytes(l_bytes) |-> Junk], 0, digest, l_bytes)
    /\ UNCHANGED <<k0, buf, digest>>

\* Each block that was allocated is wiped and freed.
Clean ==
    /\ pc = "clean" /\ pc' = "done"
    /\ freed' = freed \cup Contents(Wiped(buf, buflen)) \cup
                Contents(Wiped(k0, b_bytes)) \cup
                Contents(Wiped(digest, l_bytes))
    /\ k0' = NULL /\ buf' = NULL /\ digest' = NULL
    /\ UNCHANGED <<args, tag, ret>>

Init ==
    /\ pc = "check" /\ args \in Calls
    /\ k0 = NULL /\ buf = NULL /\ digest = NULL
    /\ freed = {} /\ tag = NULL /\ ret = 0

Next ==
    \/ Check \/ AllocK0 \/ LoadKey \/ AllocBuf \/ InnerPad \/ AllocDigest
    \/ InnerHash \/ OuterPad \/ OuterHash \/ Deliver \/ Clean

Spec == Init /\ [][Next]_vars

----------------------------------------------------------------------------
(* FIPS 198-1.                                                             *)

K0 == [i \in Bytes(b_bytes) |->
          IF args.keylen <= b_bytes
          THEN IF i < args.keylen THEN Key[i] ELSE Zero
          ELSE IF i < l_bytes THEN Digest(Key, args.keylen)[i] ELSE Zero]

\* (K0 ^ pad) || text, where text has n bytes.
Keyed(pad, text, n) ==
    [i \in Bytes(b_bytes + n) |->
        IF i < b_bytes THEN Xor(K0[i], pad) ELSE text[i - b_bytes]]

InnerInput == Keyed(IPAD, Msg, args.msglen)
InnerDigest == Digest(InnerInput, b_bytes + args.msglen)
OuterInput == Keyed(OPAD, InnerDigest, l_bytes)
HMAC == Digest(OuterInput, b_bytes + l_bytes)

----------------------------------------------------------------------------
(* Properties.                                                             *)

Steps == {"check", "alloc_k0", "load_key", "alloc_buf", "inner_pad",
          "alloc_digest", "inner_hash", "outer_pad", "outer_hash", "deliver",
          "clean", "done"}

\* A block that exists has the length the code takes it to have.
TypeOK ==
    /\ pc \in Steps /\ args \in Calls /\ ret \in {0, 1}
    /\ k0 # NULL => DOMAIN k0 = Bytes(b_bytes)
    /\ buf # NULL => DOMAIN buf = Bytes(buflen)
    /\ digest # NULL => DOMAIN digest = Bytes(l_bytes)

\* The shared buffer holds both what is copied into it for the inner and for
\* the outer digest (hmac.c:139-149, 171-172): no wrapped size, no message
\* shorter than a digest makes it too small.
BufferHoldsBothInputs ==
    pc \in {"inner_pad", "alloc_digest", "inner_hash", "outer_pad", "outer_hash"} =>
       Bytes(b_bytes + args.msglen) \cup Bytes(b_bytes + l_bytes) \subseteq DOMAIN buf

\* Whichever allocation or hash fails, a call that returns has freed each block
\* it allocated (hmac.c:190-205), and no byte of key, message or digest is in
\* freed memory.
NothingIsLeftBehind ==
    /\ freed \subseteq {Zero}
    /\ pc = "done" => k0 = NULL /\ buf = NULL /\ digest = NULL

\* A call that returns 0 has delivered the HMAC of FIPS 198-1, although both
\* digests share one buffer and one block; a call that returns 1 has not
\* touched the caller's tag (hmac.c:186).
TagIsTheHmac ==
    pc = "done" => tag = IF ret = 0 THEN HMAC ELSE NULL
============================================================================
