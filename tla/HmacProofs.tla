----------------------------- MODULE HmacProofs -----------------------------
(***************************************************************************)
(* The properties of Hmac for every hash function, every block and digest  *)
(* length, every key and message and every SIZE_MAX.                       *)
(***************************************************************************)
EXTENDS Hmac, TLAPS

\* The steps between the checks and the cleaning.
Computing == Steps \ {"check", "clean", "done"}

\* What each step relies on.
Progress ==
    /\ pc \in Computing => ~Rejected
    /\ pc \notin {"clean", "done"} => ret = 0 /\ tag = NULL
    /\ pc = "load_key" => k0 = [i \in Bytes(b_bytes) |-> Zero]
    /\ pc \in Computing \ {"alloc_k0", "load_key"} => k0 = K0
    /\ pc \in Computing \ {"alloc_k0", "load_key", "alloc_buf"} =>
          DOMAIN buf = Bytes(buflen)
    /\ pc \in {"alloc_digest", "inner_hash"} =>
          \A i \in Bytes(b_bytes + args.msglen) : buf[i] = InnerInput[i]
    /\ pc \in {"outer_pad", "outer_hash"} => digest = InnerDigest
    /\ pc = "outer_hash" =>
          \A i \in Bytes(b_bytes + l_bytes) : buf[i] = OuterInput[i]
    /\ pc = "deliver" => digest = HMAC
    /\ pc \in {"clean", "done"} => tag = IF ret = 0 THEN HMAC ELSE NULL

IInv == TypeOK /\ NothingIsLeftBehind /\ Progress

----------------------------------------------------------------------------
(* Lengths and arrays.                                                     *)

\* The sizes of an accepted call do not wrap.
LEMMA Lengths ==
    ASSUME args \in Calls, ~Rejected
    PROVE  /\ b_bytes \in Nat \ {0} /\ l_bytes \in Nat \ {0} /\ l_bytes <= b_bytes
           /\ args.msglen \in Nat /\ args.keylen \in Nat
           /\ buflen \in Nat
           /\ b_bytes + args.msglen <= buflen /\ b_bytes + l_bytes <= buflen
<1>1. args.alg \in Algs /\ args.msglen \in 0..SizeMax /\ args.keylen \in 0..SizeMax
  BY DEF Rejected, Calls
<1>2. /\ b_bytes \in Nat \ {0} /\ l_bytes \in Nat \ {0} /\ l_bytes <= b_bytes
      /\ 2 * b_bytes <= SizeMax
  BY <1>1, LengthAssumption DEF b_bytes, l_bytes
<1>3. args.msglen <= SizeMax - b_bytes
  BY <1>1, <1>2, LengthAssumption DEF Rejected, TooLong
<1>4. ASSUME NEW n \in Nat, n <= SizeMax PROVE n % (SizeMax + 1) = n
  BY <1>4, LengthAssumption
<1> DEFINE content == IF args.msglen > l_bytes THEN args.msglen ELSE l_bytes
<1>5. /\ content \in Nat /\ args.msglen <= content /\ l_bytes <= content
      /\ b_bytes + content <= SizeMax
  BY <1>1, <1>2, <1>3, LengthAssumption
<1>6. buflen = b_bytes + content
  <2>1. buflen = (b_bytes + content) % (SizeMax + 1)
    BY DEF buflen
  <2> HIDE DEF content
  <2>2. QED
    BY <1>2, <1>4, <1>5, <2>1
<1> HIDE DEF content
<1>7. QED
  BY <1>1, <1>2, <1>5, <1>6

\* Everything the arguments determine stays what it is.
LEMMA Fixed ==
    ASSUME UNCHANGED args
    PROVE  /\ b_bytes' = b_bytes /\ l_bytes' = l_bytes /\ buflen' = buflen
           /\ Rejected' = Rejected /\ K0' = K0
           /\ InnerInput' = InnerInput /\ InnerDigest' = InnerDigest
           /\ OuterInput' = OuterInput /\ HMAC' = HMAC
<1>1. b_bytes' = b_bytes /\ l_bytes' = l_bytes
  BY DEF b_bytes, l_bytes
<1>2. buflen' = buflen /\ Rejected' = Rejected
  BY <1>1 DEF buflen, Rejected, TooLong
<1>3. K0' = K0
  BY <1>1 DEF K0, Digest
<1>4. InnerInput' = InnerInput
  BY <1>1, <1>3 DEF InnerInput, Keyed
<1>5. InnerDigest' = InnerDigest
  BY <1>1, <1>4 DEF InnerDigest, Digest
<1>6. OuterInput' = OuterInput
  BY <1>1, <1>3, <1>5 DEF OuterInput, Keyed
<1>7. HMAC' = HMAC
  BY <1>1, <1>6 DEF HMAC, Digest
<1>8. QED
  BY <1>1, <1>2, <1>3, <1>4, <1>5, <1>6, <1>7

\* Two arrays with the same first n bytes have the same digest.
LEMMA DigestOfPrefix ==
    ASSUME NEW n \in Nat, NEW data, NEW other,
           \A i \in Bytes(n) : data[i] = other[i]
    PROVE  Digest(data, n) = Digest(other, n)
<1>1. [j \in Bytes(n) |-> data[j]] = [j \in Bytes(n) |-> other[j]]
  OBVIOUS
<1>2. QED
  BY <1>1 DEF Digest

\* The pad over K0 and a text copied behind it.
LEMMA KeyedBlock ==
    ASSUME args \in Calls, ~Rejected, NEW block, DOMAIN block = Bytes(buflen),
           NEW text, NEW n \in Nat, b_bytes + n <= buflen, NEW pad
    PROVE  LET result == Padded(Copied(Copied(block, 0, K0, b_bytes), b_bytes, text, n),
                                b_bytes, pad)
           IN  /\ DOMAIN result = Bytes(buflen)
               /\ \A i \in Bytes(b_bytes + n) : result[i] = Keyed(pad, text, n)[i]
<1> DEFINE one == Copied(block, 0, K0, b_bytes)
           two == Copied(one, b_bytes, text, n)
           result == Padded(two, b_bytes, pad)
<1>1. b_bytes \in Nat \ {0} /\ buflen \in Nat
  BY Lengths
<1>2. DOMAIN one = Bytes(buflen) /\ \A i \in Bytes(b_bytes) : one[i] = K0[i]
  <2>1. \A i \in Bytes(b_bytes) : i \in Bytes(buflen) /\ i - 0 = i
    BY <1>1 DEF Bytes
  <2>2. QED
    BY <2>1 DEF Copied
<1>3. DOMAIN two = Bytes(buflen)
  BY <1>2 DEF Copied
<1>4. \A i \in Bytes(b_bytes) : two[i] = K0[i]
  <2>1. \A i \in Bytes(b_bytes) : i \in Bytes(buflen) /\ i - b_bytes \notin Bytes(n)
    BY <1>1 DEF Bytes
  <2>2. QED
    BY <1>2, <2>1 DEF Copied
<1>5. \A i \in Bytes(b_bytes + n) \ Bytes(b_bytes) : two[i] = text[i - b_bytes]
  <2>1. \A i \in Bytes(b_bytes + n) \ Bytes(b_bytes) :
           i \in Bytes(buflen) /\ i - b_bytes \in Bytes(n)
    BY <1>1 DEF Bytes
  <2>2. QED
    BY <1>2, <2>1 DEF Copied
<1>6. DOMAIN result = Bytes(buflen)
  BY <1>3 DEF Padded
<1>7. ASSUME NEW i \in Bytes(b_bytes + n) PROVE result[i] = Keyed(pad, text, n)[i]
  <2>1. i \in Bytes(buflen) /\ i \in Nat /\ (i < b_bytes <=> i \in Bytes(b_bytes))
    BY <1>1 DEF Bytes
  <2>2. result[i] = IF i \in Bytes(b_bytes) THEN Xor(two[i], pad) ELSE two[i]
    BY <1>3, <2>1 DEF Padded
  <2>3. Keyed(pad, text, n)[i] = IF i < b_bytes THEN Xor(K0[i], pad) ELSE text[i - b_bytes]
    BY DEF Keyed
  <2>4. QED
    BY <1>4, <1>5, <2>1, <2>2, <2>3
<1>8. QED
  BY <1>6, <1>7
----------------------------------------------------------------------------
(* Each step preserves the invariant.                                      *)

LEMMA InitInv == Init => IInv
BY DEF Init, IInv, TypeOK, NothingIsLeftBehind, Progress, Steps, Computing, NULL

\* Leaving the do-while(0) keeps what was allocated, and no tag was written.
LEMMA FailInv ==
    ASSUME IInv, pc \in Computing \cup {"check"}, Fail
    PROVE  IInv'
<1>1. tag = NULL
  BY DEF IInv, Progress, Computing
<1>2. TypeOK'
  BY Fixed DEF IInv, TypeOK, Fail, Steps
<1>3. NothingIsLeftBehind'
  BY DEF IInv, NothingIsLeftBehind, Fail
<1>4. Progress'
  BY <1>1 DEF Progress, Fail, Computing, NULL
<1>5. QED
  BY <1>2, <1>3, <1>4 DEF IInv

LEMMA CheckInv == ASSUME IInv, Check PROVE IInv'
<1>1. CASE pc = "check" /\ Fail
  BY <1>1, FailInv
<1>2. CASE ~Rejected /\ At("check", "alloc_k0") /\ UNCHANGED <<k0, buf, digest, tag>>
  <2>1. TypeOK'
    BY <1>2, Fixed DEF IInv, TypeOK, At, Steps
  <2>2. NothingIsLeftBehind'
    BY <1>2 DEF IInv, NothingIsLeftBehind, At
  <2>3. Progress'
    BY <1>2, Fixed DEF IInv, Progress, At, Computing
  <2>4. QED
    BY <2>1, <2>2, <2>3 DEF IInv
<1>3. QED
  BY <1>1, <1>2 DEF Check

LEMMA AllocK0Inv == ASSUME IInv, AllocK0 PROVE IInv'
<1>1. CASE pc = "alloc_k0" /\ Fail
  BY <1>1, FailInv DEF Computing, Steps
<1>2. CASE /\ At("alloc_k0", "load_key")
           /\ k0' = [i \in Bytes(b_bytes) |-> Zero]
           /\ UNCHANGED <<buf, digest, tag>>
  <2>1. UNCHANGED args
    BY <1>2 DEF At
  <2>2. TypeOK'
    BY <1>2, <2>1, Fixed DEF IInv, TypeOK, At, Steps
  <2>3. NothingIsLeftBehind'
    BY <1>2 DEF IInv, NothingIsLeftBehind, At
  <2>4. Progress'
    BY <1>2, <2>1, Fixed DEF IInv, Progress, At, Computing, Steps
  <2>5. QED
    BY <2>2, <2>3, <2>4 DEF IInv
<1>3. QED
  BY <1>1, <1>2 DEF AllocK0

LEMMA LoadKeyInv == ASSUME IInv, LoadKey PROVE IInv'
<1>1. CASE pc = "load_key" /\ Fail
  BY <1>1, FailInv DEF Computing, Steps
<1>2. CASE /\ At("load_key", "alloc_buf")
           /\ k0' = IF args.keylen <= b_bytes
                    THEN Copied(k0, 0, Key, args.keylen)
                    ELSE Copied(k0, 0, Digest(Key, args.keylen), l_bytes)
           /\ UNCHANGED <<buf, digest, tag>>
  <2>1. UNCHANGED args /\ args \in Calls /\ ~Rejected
        /\ k0 = [i \in Bytes(b_bytes) |-> Zero]
    BY <1>2 DEF At, IInv, TypeOK, Progress, Computing, Steps
  <2>2. k0' = K0
    <3>1. \A i \in Bytes(b_bytes) :
             /\ i - 0 = i
             /\ i < args.keylen <=> i \in Bytes(args.keylen)
             /\ i < l_bytes <=> i \in Bytes(l_bytes)
      BY <2>1, Lengths DEF Bytes
    <3>2. CASE args.keylen <= b_bytes
      BY <1>2, <2>1, <3>1, <3>2 DEF Copied, K0
    <3>3. CASE ~(args.keylen <= b_bytes)
      BY <1>2, <2>1, <3>1, <3>3 DEF Copied, K0
    <3>4. QED
      BY <3>2, <3>3
  <2>3. DOMAIN k0' = Bytes(b_bytes)
    BY <2>2 DEF K0
  <2>4. TypeOK'
    BY <1>2, <2>1, <2>3, Fixed DEF IInv, TypeOK, At, Steps
  <2>5. NothingIsLeftBehind'
    BY <1>2 DEF IInv, NothingIsLeftBehind, At
  <2>6. Progress'
    BY <1>2, <2>1, <2>2, Fixed DEF IInv, Progress, At, Computing, Steps
  <2>7. QED
    BY <2>4, <2>5, <2>6 DEF IInv
<1>3. QED
  BY <1>1, <1>2 DEF LoadKey

LEMMA AllocBufInv == ASSUME IInv, AllocBuf PROVE IInv'
<1>1. CASE pc = "alloc_buf" /\ Fail
  BY <1>1, FailInv DEF Computing, Steps
<1>2. CASE /\ At("alloc_buf", "inner_pad")
           /\ buf' = [i \in Bytes(buflen) |-> Junk]
           /\ UNCHANGED <<k0, digest, tag>>
  <2>1. UNCHANGED args
    BY <1>2 DEF At
  <2>2. DOMAIN buf' = Bytes(buflen)
    BY <1>2
  <2>3. TypeOK'
    BY <1>2, <2>1, <2>2, Fixed DEF IInv, TypeOK, At, Steps
  <2>4. NothingIsLeftBehind'
    BY <1>2 DEF IInv, NothingIsLeftBehind, At
  <2>5. Progress'
    BY <1>2, <2>1, <2>2, Fixed DEF IInv, Progress, At, Computing, Steps
  <2>6. QED
    BY <2>3, <2>4, <2>5 DEF IInv
<1>3. QED
  BY <1>1, <1>2 DEF AllocBuf

LEMMA InnerPadInv == ASSUME IInv, InnerPad PROVE IInv'
<1>1. /\ pc = "inner_pad" /\ pc' = "alloc_digest"
      /\ UNCHANGED <<args, freed, ret, k0, digest, tag>>
  BY DEF InnerPad, At
<1>2. args \in Calls /\ ~Rejected /\ k0 = K0 /\ DOMAIN buf = Bytes(buflen)
  BY <1>1 DEF IInv, TypeOK, Progress, Computing, Steps
<1>3. /\ DOMAIN buf' = Bytes(buflen)
      /\ \A i \in Bytes(b_bytes + args.msglen) : buf'[i] = InnerInput[i]
  BY <1>2, Lengths, KeyedBlock DEF InnerPad, InnerInput
<1>4. TypeOK'
  BY <1>1, <1>3, Fixed DEF IInv, TypeOK, Steps
<1>5. NothingIsLeftBehind'
  BY <1>1 DEF IInv, NothingIsLeftBehind
<1>6. Progress'
  BY <1>1, <1>2, <1>3, Fixed DEF IInv, Progress, Computing, Steps
<1>7. QED
  BY <1>4, <1>5, <1>6 DEF IInv

LEMMA AllocDigestInv == ASSUME IInv, AllocDigest PROVE IInv'
<1>1. CASE pc = "alloc_digest" /\ Fail
  BY <1>1, FailInv DEF Computing, Steps
<1>2. CASE /\ At("alloc_digest", "inner_hash")
           /\ digest' = [i \in Bytes(l_bytes) |-> Junk]
           /\ UNCHANGED <<k0, buf, tag>>
  <2>1. UNCHANGED args
    BY <1>2 DEF At
  <2>2. DOMAIN digest' = Bytes(l_bytes)
    BY <1>2
  <2>3. TypeOK'
    BY <1>2, <2>1, <2>2, Fixed DEF IInv, TypeOK, At, Steps
  <2>4. NothingIsLeftBehind'
    BY <1>2 DEF IInv, NothingIsLeftBehind, At
  <2>5. Progress'
    BY <1>2, <2>1, Fixed DEF IInv, Progress, At, Computing, Steps
  <2>6. QED
    BY <2>3, <2>4, <2>5 DEF IInv
<1>3. QED
  BY <1>1, <1>2 DEF AllocDigest

LEMMA InnerHashInv == ASSUME IInv, InnerHash PROVE IInv'
<1>1. CASE pc = "inner_hash" /\ Fail
  BY <1>1, FailInv DEF Computing, Steps
<1>2. CASE /\ At("inner_hash", "outer_pad")
           /\ digest' = Digest(buf, b_bytes + args.msglen)
           /\ UNCHANGED <<k0, buf, tag>>
  <2>1. UNCHANGED args /\ args \in Calls /\ ~Rejected
        /\ \A i \in Bytes(b_bytes + args.msglen) : buf[i] = InnerInput[i]
    BY <1>2 DEF At, IInv, TypeOK, Progress, Computing, Steps
  <2>2. b_bytes + args.msglen \in Nat
    BY <2>1, Lengths
  <2>3. digest' = InnerDigest
    BY <1>2, <2>1, <2>2, DigestOfPrefix DEF InnerDigest
  <2>4. DOMAIN digest' = Bytes(l_bytes)
    BY <1>2 DEF Digest
  <2>5. TypeOK'
    BY <1>2, <2>1, <2>4, Fixed DEF IInv, TypeOK, At, Steps
  <2>6. NothingIsLeftBehind'
    BY <1>2 DEF IInv, NothingIsLeftBehind, At
  <2>7. Progress'
    BY <1>2, <2>1, <2>3, Fixed DEF IInv, Progress, At, Computing, Steps
  <2>8. QED
    BY <2>5, <2>6, <2>7 DEF IInv
<1>3. QED
  BY <1>1, <1>2 DEF InnerHash

LEMMA OuterPadInv == ASSUME IInv, OuterPad PROVE IInv'
<1>1. /\ pc = "outer_pad" /\ pc' = "outer_hash"
      /\ UNCHANGED <<args, freed, ret, k0, digest, tag>>
  BY DEF OuterPad, At
<1>2. /\ args \in Calls /\ ~Rejected /\ k0 = K0 /\ DOMAIN buf = Bytes(buflen)
      /\ digest = InnerDigest
  BY <1>1 DEF IInv, TypeOK, Progress, Computing, Steps
<1>3. /\ DOMAIN buf' = Bytes(buflen)
      /\ \A i \in Bytes(b_bytes + l_bytes) : buf'[i] = OuterInput[i]
  BY <1>2, Lengths, KeyedBlock DEF OuterPad, OuterBlock, OuterInput
<1>4. TypeOK'
  BY <1>1, <1>3, Fixed DEF IInv, TypeOK, Steps
<1>5. NothingIsLeftBehind'
  BY <1>1 DEF IInv, NothingIsLeftBehind
<1>6. Progress'
  BY <1>1, <1>2, <1>3, Fixed DEF IInv, Progress, Computing, Steps
<1>7. QED
  BY <1>4, <1>5, <1>6 DEF IInv

LEMMA OuterHashInv == ASSUME IInv, OuterHash PROVE IInv'
<1>1. CASE pc = "outer_hash" /\ Fail
  BY <1>1, FailInv DEF Computing, Steps
<1>2. CASE /\ At("outer_hash", "deliver")
           /\ digest' = Digest(buf, b_bytes + l_bytes)
           /\ UNCHANGED <<k0, buf, tag>>
  <2>1. UNCHANGED args /\ args \in Calls /\ ~Rejected
        /\ \A i \in Bytes(b_bytes + l_bytes) : buf[i] = OuterInput[i]
    BY <1>2 DEF At, IInv, TypeOK, Progress, Computing, Steps
  <2>2. b_bytes + l_bytes \in Nat
    BY <2>1, Lengths
  <2>3. digest' = HMAC
    BY <1>2, <2>1, <2>2, DigestOfPrefix DEF HMAC
  <2>4. DOMAIN digest' = Bytes(l_bytes)
    BY <1>2 DEF Digest
  <2>5. TypeOK'
    BY <1>2, <2>1, <2>4, Fixed DEF IInv, TypeOK, At, Steps
  <2>6. NothingIsLeftBehind'
    BY <1>2 DEF IInv, NothingIsLeftBehind, At
  <2>7. Progress'
    BY <1>2, <2>1, <2>3, Fixed DEF IInv, Progress, At, Computing, Steps
  <2>8. QED
    BY <2>5, <2>6, <2>7 DEF IInv
<1>3. QED
  BY <1>1, <1>2 DEF OuterHash

LEMMA DeliverInv == ASSUME IInv, Deliver PROVE IInv'
<1>1. /\ pc = "deliver" /\ pc' = "clean"
      /\ UNCHANGED <<args, freed, ret, k0, buf, digest>>
  BY DEF Deliver, At
<1>2. args \in Calls /\ ~Rejected /\ digest = HMAC /\ ret = 0
  BY <1>1 DEF IInv, TypeOK, Progress, Computing, Steps
<1>3. tag' = HMAC
  <2>1. \A i \in Bytes(l_bytes) : i - 0 = i
    BY <1>2, Lengths DEF Bytes
  <2>2. tag' = [i \in Bytes(l_bytes) |-> digest[i]]
    BY <2>1 DEF Deliver, Copied
  <2>3. HMAC = [i \in Bytes(l_bytes) |-> HMAC[i]]
    BY DEF HMAC, Digest
  <2>4. QED
    BY <1>2, <2>2, <2>3
<1>4. TypeOK'
  BY <1>1, Fixed DEF IInv, TypeOK, Steps
<1>5. NothingIsLeftBehind'
  BY <1>1 DEF IInv, NothingIsLeftBehind
<1>6. Progress'
  BY <1>1, <1>2, <1>3, Fixed DEF Progress, Computing
<1>7. QED
  BY <1>4, <1>5, <1>6 DEF IInv

\* A block that exists is wiped over its whole length.
LEMMA CleanInv == ASSUME IInv, Clean PROVE IInv'
<1>1. /\ pc = "clean" /\ pc' = "done" /\ UNCHANGED <<args, tag, ret>>
      /\ k0' = NULL /\ buf' = NULL /\ digest' = NULL
  BY DEF Clean
<1>2. ASSUME NEW block, NEW n, block # NULL => DOMAIN block = Bytes(n)
      PROVE  Contents(Wiped(block, n)) \subseteq {Zero}
  <2>1. DOMAIN NULL = {}
    BY DEF NULL
  <2>2. \A i \in DOMAIN block : i \in Bytes(n)
    BY <1>2, <2>1
  <2>3. QED
    BY <2>2 DEF Contents, Wiped
<1>3. freed' \subseteq {Zero}
  BY <1>2 DEF Clean, IInv, TypeOK, NothingIsLeftBehind
<1>4. TypeOK'
  BY <1>1 DEF IInv, TypeOK, Steps, NULL, Calls
<1>5. NothingIsLeftBehind'
  BY <1>1, <1>3 DEF NothingIsLeftBehind, NULL
<1>6. Progress'
  BY <1>1, Fixed DEF IInv, Progress, Computing, NULL
<1>7. QED
  BY <1>4, <1>5, <1>6 DEF IInv

LEMMA Invariance == Spec => []IInv
<1>1. IInv /\ [Next]_vars => IInv'
  <2>1. ASSUME IInv, UNCHANGED vars PROVE IInv'
    <3>1. TypeOK'
      BY <2>1, Fixed DEF IInv, vars, TypeOK
    <3>2. NothingIsLeftBehind'
      BY <2>1 DEF IInv, vars, NothingIsLeftBehind
    <3>3. Progress'
      BY <2>1, Fixed DEF IInv, vars, Progress
    <3>4. QED
      BY <3>1, <3>2, <3>3 DEF IInv
  <2>2. QED
    BY <2>1, CheckInv, AllocK0Inv, LoadKeyInv, AllocBufInv, InnerPadInv,
       AllocDigestInv, InnerHashInv, OuterPadInv, OuterHashInv, DeliverInv,
       CleanInv DEF Next
<1>2. QED
  BY <1>1, InitInv, PTL DEF Spec

----------------------------------------------------------------------------
\* Each block has the length the code takes it to have.
THEOREM TypeCorrect == Spec => []TypeOK
<1>1. IInv => TypeOK
  BY DEF IInv
<1>2. QED
  BY <1>1, Invariance, PTL

\* The shared buffer is long enough for both inputs, for every SIZE_MAX.
THEOREM BufferSuffices == Spec => []BufferHoldsBothInputs
<1>1. IInv => BufferHoldsBothInputs
  <2>1. SUFFICES ASSUME IInv,
                        pc \in {"inner_pad", "alloc_digest", "inner_hash",
                                "outer_pad", "outer_hash"}
                 PROVE  Bytes(b_bytes + args.msglen) \cup Bytes(b_bytes + l_bytes)
                           \subseteq DOMAIN buf
    BY DEF BufferHoldsBothInputs
  <2>2. args \in Calls /\ ~Rejected /\ DOMAIN buf = Bytes(buflen)
    BY <2>1 DEF IInv, TypeOK, Progress, Computing, Steps
  <2>3. QED
    BY <2>2, Lengths DEF Bytes
<1>2. QED
  BY <1>1, Invariance, PTL

\* No path leaves a block allocated or a byte of it in freed memory.
THEOREM EveryPathWipes == Spec => []NothingIsLeftBehind
<1>1. IInv => NothingIsLeftBehind
  BY DEF IInv
<1>2. QED
  BY <1>1, Invariance, PTL

\* For any hash function, a successful call delivers the HMAC of its key and
\* message and any other call delivers nothing.
THEOREM HmacIsComputed == Spec => []TagIsTheHmac
<1>1. IInv => TagIsTheHmac
  BY DEF IInv, Progress, TagIsTheHmac
<1>2. QED
  BY <1>1, Invariance, PTL
============================================================================
