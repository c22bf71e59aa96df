# A formal model of cryptographyI

The repository holds a small big-number library (`bignum/`), hand-written
primitives (`crypto/`: AES, DES, SHA-2, HMAC), the programs of a cryptography
course that use them (`pa/`), byte helpers (`utils/`) and their tests.  This
directory is a TLA+ development of it: modules translated from the code, TLC
configurations that check them on small instances, and theorems that TLAPS
proves for every value of the constants.

## 1. Inventory

Everything is single threaded C without callbacks (except the hash function
pointer of HMAC); nothing is persisted but the files of `pa/week3.c`.  What is
hard here is therefore not concurrency but *sequences*: what a long series of
legal calls, with aliased arguments and failed allocations, does to buffers and
to the lengths and flags that describe them; and *boundaries*: carries, block
splits, estimates rounded up.

| Component | State it keeps | Operations | What makes it correct | Hard parts |
|---|---|---|---|---|
| bignum objects (`bignum.c`, `bignum.h`) | `bn_t`: `bstr`, `bstr_len`, `len`, `is_negative`; the heap blocks behind `bstr` | `bn_init`, `bn_reset`, `bn_tostring`, `bn_add`, `bn_sub`, `bn_mul`; `bn_div`, `bn_mod`, `bn_modexp` are stubs | each call is integer arithmetic; each block has one owner; lengths match blocks; words above `len` are zero | any aliasing of operands and output; in-place sums; reuse of the output's buffer; allocation failing half way |
| bignum word loops (same file) | local words, carries, indices | `add_with_carry`, `sub_with_carry`, `mul_with_carry`, row and digit loops | the loops compute the number and the length they report, stay in the buffer and end | carry chains, leading zero words |
| bignum text (same file) | string, scratch copy, indices | `bn_tostring` | the right digits, within the string | size estimate, long division, reversal past the sign |
| HMAC (`hmac.c`) | `k0`, `buf`, `digest`, `tag` | `hmac` | the tag is written only on success; every secret is wiped and freed on every path | a hash or an allocation failing at any point; length arithmetic |
| SHA-256 (`sha.c`) | message pointer, block counter, padding, schedule, working variables, hash words | `sha256` | padding, block split and compression are those of FIPS 180-4 | the last few bytes of a block decide between one and two padding blocks |
| file authentication (`pa/week3.c`) | two files, positions, tag | tag from the last block backwards, verify forwards | every change of a block is noticed | short last block, failed reads, outcome decided by `feof` |
| cipher modes (`aes_cbc.c`, `aes_ctr.c`) | previous block, counter | `aes_cbc_decrypt`, `aes_ctr_decrypt` | the modes of SP 800-38A, of what the memory held at the call | plaintext over ciphertext or IV, counter carry, sizes that are not whole blocks |
| week 2 (`pa/week2.c`) | one buffer for four texts | parse, decrypt, `remove_pkcs7_padding`, `print_msb_plaintext`, wipe | each text is printed, and only it | byte order in words, the padding loop, an index of the wrong unit, reuse of the buffer |
| AES (`aes.c`) | tables, key schedule, state words | `aes_init`, `aes_encrypt`, `aes_decrypt` | the cipher of FIPS 197; decryption inverts it | rounds merged into table lookups; the equivalent inverse cipher and its keys |
| DES (`des.c`) | key halves, round keys, block halves | `des` in both directions | decryption inverts encryption | order of keys, the swap of the halves |
| utils | none | hex and byte conversions | inverse of each other | sizes in bytes or in digits |
| exercises (`week1.c`, `week4.py`, `week5.py`), test harness, build | scripts | | | |

Components interact through plain calls: `pa/week3.c` calls `sha256`, `hmac`
calls a hash through a function pointer, `pa/week2.c` calls the AES modes, which
call the block cipher; the bignum library stands alone and is driven by its
tests.

## 2. The modules

| Module | What it is |
|---|---|
| `BnNumbers` | the data of the bignum model: words of base `Base`, numbers, their lengths, what a word-wise sum, difference or product of two numbers reports as its length |
| `Bignum` | the library: descriptors, heap blocks, one action per public function |
| `BnIntegers` | the abstract specification: registers that hold integers |
| `BnLoops` | the word loops, one step per loop body |
| `BnText` | `bn_tostring`, one step per statement group |
| `BnWords` | a word loop, then `bn_tostring` on what it left: compute and print |
| `Hmac` | `hmac`, one step per statement group, over any hash function |
| `Sha` | `sha256`: guard, padding, block loop, at their real sizes |
| `ShaCompression`, `ShaTables` | the main algorithm of `sha256` on 32-bit words: schedule, rounds, sums; its constants |
| `FileTags` | the two stages of `pa/week3.c`, one step per loop body |
| `Des`, `DesTables` | `des`: key schedule and network, one step per loop body; the code's tables |
| `Aes`, `AesTables` | `aes_encrypt` and `aes_decrypt`, one step per word of the key and per round; the code's S-boxes |
| `CipherModes` | CBC and CTR decryption, one step per block, over a memory and any block cipher |
| `Week2` | `pa/week2.c`, byte by byte |
| `MCBignum`, `MCBnWords`, `MCHmac`, `MCPrimitives`, `MCModes` | the instances for TLC |
| `BnNumbersProofs` | lemmas on lengths, carries and products |
| `BignumProofs` | type correctness and the heap invariants of `Bignum`; `Bignum` implements `BnIntegers` |
| `BnWordsProofs` | the loops of `BnLoops` and `BnText` and their composition |
| `HmacProofs`, `ShaProofs`, `FileTagsProofs` | the invariants of the module each is named after |
| `PrimitivesProofs` | `Des`, `Aes` and `ShaCompression`, for any tables |
| `CipherModesProofs` | `CipherModes` and `Week2`, for memories of any size |

`Bignum` treats a word array as the number it spells and a function call as one
step; `BnLoops` and `BnText` justify that by running the loops word by word and
comparing what they leave with the operators of `BnNumbers`, and `BnWords` by
comparing the string printed with the numbers computed with.  In the same way
`ShaCompression` hashes the padded messages that `Sha` is shown to build, and
`CipherModes` asks of its block cipher what `Aes` is shown to give.

### Correspondence with the code

* `obj[o]` is the `bn_t` at `o`, lengths counted in words.  `size[b]` is the
  number of words malloc gave block `b` (0: not allocated), `mem[b]` the number
  in the words its owner counts in `bstr_len`, so a stale word above `len` is
  visible.  `ret` is the last return code; `"ABORT"` is the end of the program:
  an assertion failed, or the sanitizer met a freed block.  That is the build
  the tests use (the `sanitize` preset of `CMakePresets.json`); the release
  preset defines `NDEBUG`, and where the model aborts, that build would write
  outside the buffer.
* `add_unsigned`, `sub_unsigned`, `Clear` (the body of `bn_reset`) and `Package`
  (the end of the arithmetic functions) are operators used by the actions that
  call them, so that an action is the whole call.  `Move` is the `free` of the
  old block together with the first write of the new one.
* Every allocation that can fail is a disjunct guarded by its name in
  `FailSites`; a call that finds no free block in the model is simply not
  enabled, so that the small heap of an instance is never taken for a failure.
* `BnLoops` has a program counter per function and a step per loop body,
  `add_with_carry` and `sub_with_carry` included.  A run-over step is the write
  that would leave the buffer; the model notes it in place of making it.
* `call` in `Bignum` and `BnIntegers` is a history variable: the function and the
  arguments of the last call.  It labels the steps, so that the refinement says
  that each *named* call does what its name says, not only that some operation
  explains the change.  No guard reads it, and `MCBignum` leaves it out of the
  states TLC tells apart (`VIEW`); action properties are still checked on every
  transition.
* `Hmac` has the early exits of the `do ... while (0)` as `Fail`, enabled by the
  checks and at each allocation and hash, and the cleaning block as `Clean`.
  `freed` collects what is left in freed memory.  The hash is a constant operator,
  since it is the caller's function pointer; `size_t` arithmetic is modulo `SizeMax
  + 1`.
* `Sha` keeps the code's constants (64-byte blocks, an 8-byte length).  Bytes are
  symbolic: byte `k` of the message, or a value; `|=` is kept as an or.  `H` is the
  sequence of the blocks compressed, so that two messages have the same digest
  only if the same blocks were hashed.  The pointer `M` is an array and an index
  in it, so that where the code reads is known, not only what it finds there.
* `ShaCompression` and `Aes` take a word or a byte as the set of its bits that are
  1, so that `^`, shifts and rotations are what they are on sets and TLC's 31-bit
  numbers do not matter; `Des` takes a number as the function of its bits in the
  order of the standard, which is the order its tables count in.  Their `trace`,
  `rounds`, `past` and `encrypted` are history variables.
* A client of `Des` or `Aes` makes one call and then a second one with what the
  first one returned (or, for DES, with the complements of its arguments).  The
  order of loops, the array of round keys and the tables are those of the code.
  `aes_init` is a function of the S-boxes and appears as the tables `t0` to `t7`.
* In `CipherModes`, `mem` is a memory of words and `iv`, `ct` and `pt` are addresses
  in it, chosen freely as long as the buffers are the caller's, so that one may lie
  over another.  The two block pointers the code swaps are `blk_prev` and the
  block in hand.  A cipher that refuses its key (`BadKeys`) ends the loop.
* `Week2` names a byte after its place in its problem, so that the property can see
  where each printed character comes from; `text` is `pt` by byte address, words
  little-endian as on the machines the program's own comment assumes.  `client`
  is `main`, or a caller that hands `remove_pkcs7_padding` the block its comment
  describes, with any padding.
* `FileTags` has the buffer, positions and tags of `main`.  The tag of an array is
  the array, a hash without collisions.  `Damage` is the disk's action, between the
  stages; opening, a read or a write may fail once, at any block.  `said` is what
  was printed.

## 3. What the runs check

| Run | Instance | What it shows |
|---|---|---|
| `bignum_heap` | 2 objects, 3 blocks of at most 3 words, word base 2, strings of at most 2 digits in radix 2 and 3, every allocation may fail | `TypeOK`; no block is shared or leaked (`OneOwner`); the lengths the code's buffer tests rely on (`Capacity`); words above `len` are zero (`CleanTail`); an assertion fails only in a sum or difference whose smaller operand has leading zero words (`AbortNeedsPadding`); only a `bn_mul` that ran out of memory leaves a dangling pointer; only products introduce leading zero words |
| `bignum_integers` | 3 objects, 4 blocks of at most 2 words; all allocations but `bn_mul`'s scratch row may fail | the API implements `BnIntegers` (`ImplementsIntegers`) |
| `bn_words` | word base 3, operands of up to 3 words, leading zero words and a stale word included; every numeral of up to 5 digits; every result printed in base 2 and 3, with and without sign, each allocation failing | the loops compute the numbers (`RowsAreExact`) and lengths (`LengthsAreExact`) of `BnNumbers`, run over exactly when `SumOverruns` says so (`OverrunsArePredicted`); each division is exact, nothing leaks; the string is the sum, difference, product or numeral, digit by digit (`PrintedIsComputed`); every call returns, within its string (`Termination`) |
| `hmac` | three algorithms with blocks of 4 or 6 bytes and digests of 2 to 4, `SizeMax` 12, every key and message length, every failure | the code of FIPS 198-1 is delivered, or nothing (`TagIsTheHmac`); the shared buffer is long enough (`BufferHoldsBothInputs`); nothing stays allocated or unwiped (`NothingIsLeftBehind`) |
| `sha_padding` | real sizes, `SizeMax` 1599, so that lengths 0 to 199 are hashed and longer ones refused | the blocks hashed are those of FIPS 180-4 (`DigestIsOfThePaddedMessage`); the message is not read past its end, and the padding up to `padding_end_pos` and no further (`ReadsStayInside`) |
| `file_tags` | blocks of 3 bytes, tags of 2, files of 0 to 10 bytes, at most one fault | the second file is the chain (`TaggedFileIsTheChain`); what is counted as verified is authentic (`VerifiedBlocksAreAuthentic`); damage, and only damage, is noticed (`DamageIsNoticed`); a success without a mismatch is of a second file that is a prefix of the chain, cut between blocks if at all (`SuccessIsOfAPrefix`) |
| `primitives` | the code's tables; one DES key and block in both directions and complemented; AES keys of the three lengths and a refused one, two blocks; two messages, of one and of two blocks | decryption inverts (`DesDecryptionInverts`, `AesDecryptionInverts`), the complementation property of DES, each AES round is that of FIPS 197 (`EncryptIsFips`), and results are those of the response files in `tests/` (`KnownAnswers`) |
| `modes` | words of 1 bit, 28 words of memory, six pointers (one null) for each of IV, ciphertext and plaintext, sizes of 12 to 48 bytes, a permutation of the blocks as the cipher; `week2` at its real sizes, paddings 0 to 17 and 255 | `CbcDecrypts`, `CtrDecrypts`, `WritesStayInside`; each text is printed from its first byte to its last, with nothing of an earlier one (`PrintedTextIsThePlaintext`); what the padding loop clears (`PaddingOutcome`) |
| `file_outcome`, `add_overrun`, `dangling`, `padding` | small instances | disagreements, section 5 |

**Bounds.** `MaxWords` bounds the words of a block and `MaxDigits` the digits of
a string; a call whose result needs more is not made.  Word base 2 makes a word
a bit, so that carries, borrows and zero words, which are rare in 32-bit words,
occur in almost every state; three words suffice for an operand with a leading
zero word, a sum with its extra word and a product of different lengths.  Two
objects give every aliasing but three different arguments, which
`bignum_integers` adds.  Blocks and objects are interchangeable (symmetry).
The `SizeMax` of `hmac` is small so that the largest lengths, whose sum with a block
just fits, occur beside the smallest; keys shorter than, as long as and longer than
a block are all there.  `sha_padding` meets every remainder of a block at least
three times; from there on the code repeats itself.  `file_tags` covers files of up
to four blocks with every remainder; one fault is enough, since a second one only
hides the first.
With words of 1 bit a counter wraps within sixteen blocks, so that carries over
one, three and four words all occur within three blocks.  `primitives` runs few
inputs, since each is a whole run of a cipher: what depends on the input is
proved for all inputs, what depends on the tables is told by the
answers.  The machines of `primitives`, and those of `modes`, share a run but not a
step: one moves, the others wait in their initial state, so their states add up
and do not multiply.

**Fairness** is assumed once, in `BnWords`: weak fairness of its next step.  The
code is a sequential computation that nothing can suspend, so `Termination` says
that each call returns.  `Bignum` states no liveness: a client need not call.

**Deadlock** is off in the runs of `Bignum`, where a failed assertion ends the
program, and in all other runs, which are one or two calls or one run of a
program and end.

## 4. What is proved

Every safety property of a passing run is also a theorem, but for `KnownAnswers`.
Each holds for all values of the constants that satisfy the named assumptions,
and rests on an inductive invariant whose parts need each other; TLC checked these
invariants on the instances of section 3 before they were proved.

**Bignum: objects and memory** (`BignumProofs`).  For any sets of objects and
blocks, any word base of at least 2, any bound on words and digits and any set of
failing allocations.  `SizeAssumption`: the bounds are positive numbers;
`PowerAssumption`: `Power` is exponentiation (a table, since the provers do not
know `^`); `PointerAssumption`: `NULL` is no block, object or integer.

* `TypeCorrect`, `HeapHasOneOwner`, `LengthsFit`, `TailsAreClean`: the inductive
  invariant is `IInv == TypeOK /\ OneOwner /\ Capacity /\ CleanTail`.  None of the
  four is inductive alone: a block is not freed twice because it has one owner;
  the number in it stays within its type because the length it was measured by
  fits the block; a sum in place is exact only if the words above `len` were
  zero.  Each function is reduced by an outcome lemma to one of a few effects on
  the heap (nothing changed, object cleared, block moved, block freed under its
  owner), and `IInv` is preserved by each effect.
* `OnlyFailedProductsDangle`, `NothingDangles`: the effect "block freed under its
  owner" belongs to `bn_mul` alone, and to its failed scratch row; when that row is
  always allocated no pointer dangles, which is a theorem only.
* `OnlyProductsPad`, `AbortsAreExplained`: sums and differences of numbers
  without leading zero words have none (`SumStaysNormal`), and adding a smaller
  number without leading zero words never leaves the buffer (`SumStaysInside`),
  whatever the larger one's words.  Each step that ends the program is therefore a
  sum or a difference whose *smaller* operand has some, or the use of a dangling
  pointer; that is a property of the step, since its operands are the call's.
* `ArithmeticIsExact`: every call of `Bignum` is the operation of `BnIntegers` with
  its name and arguments, that is, `Bignum` implements `BnIntegers` when the scratch
  row of `bn_mul` can be allocated.  It rests on `NothingDangles` and `CleanTail`:
  what is added in place is the operand and nothing else.

`BnNumbersProofs` holds the lemmas on numbers: `SumFits`, `ProductFits`,
`NumeralFits` bound results by the words reported for them, from the carries
`CarriesInto` counts.

**Bignum: loops and text** (`BnWordsProofs`).  For any word base, lengths of the
operands up to the bound, radix and failing allocation.  `LoopAssumption` and
`TextAssumption` say that a radix is no larger than a word, that results fit
`MaxWords` words and numerals `MaxPower` characters: they bound what the instance
runs, as `int` lengths do in the code.

* The loops: `LoopIInv == Layout /\ Exact /\ Tops`.  `Layout` says where a loop may
  be and how large its arrays are.  `Exact` says what the destination is worth
  between any two steps: the result for the part of the second operand already
  consumed, in the middle of a row with the carry that still runs (`Pending`) and
  the part of the row to come (`HalfScaled`).  `Tops` says that the words above the
  most significant index are zero, without which `bn_init` would leave words
  unscaled.  `LoopsAreExact` follows.
* Lengths and overruns need more: `Reaches` relates each loop's most significant
  index to the carries that reached it (`SubTop`, `AddTop`, `MulTop`, `InitTop`).  It
  gives `LoopLengthsAreExact`, and `LoopsStayInside`: a carry leaves the destination
  exactly where `SumOverruns` predicts it.
* `bn_tostring`: `TextIInv == TextLayout /\ Blocks /\ Characters /\ Divides /\
  Reverses`.  `Divides` ties the number to the scratch copy and the digits written
  (`DivisionStaysExact`); as long as a word of the copy is not zero the number is at
  least the weight of the next digit, so that the estimate of `bignum.c:23-28`
  leaves room for it.  `Reverses` says that the string is mirrored outside the
  indices still to be swapped, and that the first digit is not zero.
* `PrintsTheResult` joins the two: `bn_tostring` prints `len` words, the words the
  loop left out are zero, and the loop was exact.
* `NumeralsComeBack` follows from it: what `bn_init` reads and `bn_tostring` prints in
  the same radix is the same numeral, but for zeros in front, of which none is kept
  unless all digits are 0.  Two numerals of the same value have the same digits once
  the shorter one is filled up with zeros (`SameNumeral`, by a least difference).

**HMAC, SHA-256 padding, file tags.**

* `HmacProofs`: the invariant `Progress` says, for each point of the call, what the
  three blocks hold; `BufferSuffices` needs that the guard at `hmac.c:82` keeps the
  size from wrapping.  Assumed of the algorithms: a digest is no longer than a
  block, and two blocks fit a `size_t`.
* `ShaProofs`: `H` is a prefix of the padded message after every block.  The
  arithmetic is in `BlockCount` (the code's case split gives the least number of
  blocks), `PaddingByte` and `BlockAtStart`; that `M` is where the last block was is
  what `ReadsEndInside` needs besides.  The only assumption is that `SizeMax` is a
  number.
* `FileTagsProofs`, for blocks, tags and files of any size (`BlockAssumption`) and any
  faults: `Tagging` says that the second file holds the chain from the last block
  written on, and that the tag in hand is that of the next block; `Verifying`
  that the blocks counted are those of the first file and that the tag expected
  next is that of the chain.  `VerifiedAreAuthentic` then needs that the model's hash
  has no collisions (a tag is the bytes hashed): a block that matches its tag is the
  block of the chain, tag of the next block included.  The chain is a function defined backwards; that it unfolds
  is shown by a least counterexample (`LeastElement`), and so is the carry of
  `sha256_add` below.  `SuccessMeansAPrefix` is about what a success can hide: the
  bytes of the second file follow the chain as far as they go, so that a success
  without a mismatch leaves nothing open but a file that stops between two blocks.

**Ciphers** (`PrimitivesProofs`, `CipherModesProofs`).

* DES: a call's `trace` is tied to its passes.  For decryption, the
  induction is over the pass of the second call: before pass `n` its halves are
  those of the first call before pass `16 - n`, swapped; it needs that both calls
  have the same round keys, and the schedule is a function of the key alone.  For
  the complements, each half, key half and round key is the complement of the first
  call's, since `Xor` of two complements is the `Xor` itself.  The only facts on the
  tables are their sizes and that `FP` inverts `IP`.
* AES: `LookupsAreFips` shows that the four lookups are `SubBytes`,
  `ShiftRows` and `MixColumns`, and `InverseRoundUndoes` that the inverse round
  undoes a round once the key is moved through the linear `inv_mix_columns`; the
  invariant then walks the rounds back. Assumed: `inv_sbox` inverts `sbox`.
  `FieldAssumption` (the two columns of factors are inverse to each other) has no
  parameter: it is a finite fact on 256 bytes, which TLC evaluates in the
  `primitives` run.
* SHA-256 compression: `AdditionIsModular` shows that the bitwise addition of the
  model is that of `uint32_t`, two numbers being compared through what their bits
  are worth; `HashTypeCorrect` that the schedule is complete when the rounds
  start and that no block is skipped or read twice, for any padded message of at
  least one block (`Sha` gives no other).  `HashIsTheStandards` compares the result
  with section 6.2.2 of FIPS 180-4, written as relations between a message, its
  schedules, the working variables of each round and the hash values: bits are taken
  one by one, sums are those of numbers modulo `2^32`, and the code's word
  operations are shown to agree with both (`FunctionsAreFips`, `SigmasAreFips`,
  `SumsAreFips`).  The code's hash value satisfies the definition, and no other one
  does, because a sum modulo `2^32` is one word only (`OneSum`) and so is, one after
  the other, all that is made of it; the definition therefore does not hold
  of everything or of nothing.  The constants `K` and the initial hash value are
  parameters; which ones are right is left to the known answers.
* `PrimitivesTypesAreKept` joins the three invariants in the specification that the
  run checks.
* `DecryptionRecovers` joins the modes to their inverse: of a cipher whose decryption
  inverts its encryption (`CipherInverts`, which `DecryptInverts` shows of AES) and an
  `Xor` that cancels (`XorCancels`), the code gives back the text whose CBC or CTR
  encryption, in the words of SP 800-38A, the memory held at the call.
* Modes: what is written so far is the mode of what the memory held at
  the call, and what is still to be read has not been written over, since the
  plaintext does not run ahead of the ciphertext (`InOrder`); `blk_prev` is the
  block that may have been.  For CTR, `IncrementAddsOne` shows that the word-wise
  increment adds 1 modulo `W^4`, for any number of words' values `W`.  Assumed of
  the cipher: blocks to blocks; of `Xor`: words to words.
* Week 2, for a buffer of at least the 48 words that the texts need and any padding
  byte: `Clients` and `Buffer` say who runs and what each byte of `text` is,
  `Printing` that the next byte index follows from the number of bytes printed.
  For the padding, `Unpadding` says that an odd count stays odd through its double
  decrements, so that it never meets zero, and `EvenPasses` which bytes an even one
  has cleared; the number of them is a cardinality.

**Termination.**  `EveryStepNearsTheEnd` (`FileTags`), `ModesNearTheEnd`,
`Week2NearsTheEnd` and `WordsNearTheEnd` give each program a tuple of numbers that
every step makes smaller in a lexicographic order, which is well founded: no loop,
nested or not, can run forever.  For the padding loop of week 2, whose count an
odd padding steps over zero, the tuple counts something else for odd than for even
paddings.  That is the
safety half of termination.  The other half, that a step is possible until the call
returns and is then taken, needs `ENABLED` and fairness.

Only model-checked: `Termination` itself, since liveness is out of the prover's
reach, and `KnownAnswers` with the tables behind it, which only answers can tell
right from wrong.  The four properties of section 5 that a run refutes are not
theorems.

## 5. Where code and text disagree

Shown by a run:

* `file_outcome`: a mismatch in the last block, whose read is always short, prints
  "file integrity check failed" (`week3.c:188-191`) and then "File verified
  successfully", because `week3.c:206` asks only whether the end was reached.
* `add_overrun`: `bignum.c:273` says a sum "cannot overflow".  The destination is
  sized by the larger *number*; a product with leading zero words (0 times a two
  word number, say) is smaller but longer, and the assertion at `bignum.c:129`
  fails.
* `dangling`: when `bn_mul` reuses the output's buffer and cannot allocate its
  scratch row it frees that buffer and leaves `out->bstr` (`bignum.c:757-761`).
* `padding`: `remove_pkcs7_padding` decrements its counter in the loop's condition
  and again in its body (`week2.c:34-38`), so that it returns 0, "successful"
  (`week2.c:15`), with half of an even padding still there.  `PaddingOutcome` says
  what happens to every padding; an odd one clears on over memory until it leaves
  the buffer.

Met while reading, without a run: `week2.c:189` takes a size in bytes for an index
in words, so `main` hands the padding loop a block of zeros behind the text, nothing
is cleared, and the padding is printed (`PaddingOutcome` and
`PrintedTextIsThePlaintext` say so); problem 4 prints 36 characters of a text of 30.
`aes_cbc.c:11` says the ciphertext includes the IV, which it must not; CTR silently
drops a part of a block at the end. The in-place policy of `bignum.h:37-41` promises
no reallocation and an error `BN_ERR_OVERFLOW` that does not exist; the `len` of
`bn_tostring` (`bignum.c:497`) is the estimate of `bignum.c:594`, without the
terminator.  `bignum.h:29-33` says an output with enough room is reused, which only
`bn_mul` does; the sign table above `bn_sub`'s sign (`bignum.c:684-694`) differs
from the code below it, which is right; `bn_div`, `bn_mod` and `bn_modexp` return
`BN_OK` without touching their output, also for the zero divisor their comments
reject; `test_bignum.c:191` describes a `bn_reset` that leaves `bstr` set, which it
no longer does.  A tagged file that is empty or ends at a block boundary, for
instance after the failed read of `week3.c:111` in the last block or an unchecked
write (`week3.c:122`), verifies up to its end and is reported as a success; nothing
in the repository says otherwise, and `SuccessIsOfAPrefix` says that this is all a
success can hide.

## 6. What is not modelled

`ceil` and `log2` of the length estimates are exact in the model (the smallest
number of digits or words that suffices, which is what the rounded logarithm gives
for the lengths considered); floating-point rounding is not.  The contents of freed
blocks, `bn_init` on a descriptor nobody initialised, and the release build after a
failed assertion are outside the model.  `FileTags` takes the download as one step
that works or not, and leaves out writes that succeed in part.  `sha256` can fail
only on null pointers and impossible lengths, so its failures in `pa/week3.c` are
not there.  Null pointers passed to `aes_encrypt` and `aes_decrypt`, refused like a
key of a wrong length, a caller that forgets `aes_init`, and a key array shorter
than `Nk` are left out.  `Week2` takes the parsing of keys and IVs and the
decryption of a text as given; `hex_to_bytes` is asked for 33 bytes of a 16-byte key
(`week2.c:119`) and stops at the end of the digits.  `pa/week1.c` had its score
computation removed (`week1.c:182`) and prints spaces whatever it reads;
`pa/week4.py` is a client of a remote server, `pa/week5.py` a table lookup in a
large group; the harness, the build and the conversions of `utils.c` that only print
keep no state.

## 7. Plan

1. Done: bignum (objects, loops, text and their composition), its refinement;
   `Hmac`, `Sha`, `FileTags`; `Des`, `Aes`, `CipherModes`; `Week2`; `ShaCompression`;
   every safety property of their runs proved, but for the known answers.
2. Done: `ShaCompression` against FIPS 180-4, as `Aes` is against FIPS 197; the modes
   against the encryption they invert; numerals through `bn_init` and `bn_tostring`;
   a decreasing tuple for each program with loops but `Hmac`, `Sha` and the ciphers.
3. Left: `Hmac` with `ShaCompression` as its function, against the response file of HMAC.
