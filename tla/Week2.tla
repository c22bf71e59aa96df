-------------------------------- MODULE Week2 --------------------------------
(***************************************************************************)
(* src/pa/week2.c: four ciphertexts are parsed, decrypted and printed from *)
(* one buffer, and remove_pkcs7_padding clears bytes in it.  A byte is 0,  *)
(* key stream where there was no ciphertext, or the i-th byte of problem   *)
(* p, written 1000 * p + i.  Two clients: main, and one that calls         *)
(* remove_pkcs7_padding as its comment asks, on the last block of a text   *)
(* with any padding.                                                       *)
(***************************************************************************)
EXTENDS Integers, Sequences, FiniteSets

CONSTANTS TextWords,     \* words of pt, 256 in main
          Pads           \* the paddings the second client tries

ASSUME Week2Assumption == TextWords \in Nat /\ TextWords >= 48 /\ Pads \subseteq 0..255

BLOCK_BYTES == 16
STREAM == -1             \* a byte of key stream
Letter == 32             \* the value of a byte of the text
Addresses == 0..(4 * TextWords - 1)

VARIABLES
    client,              \* "main" or "last"
    pad,                 \* the padding of the text
    w2_pc,               \* "parse", "decrypt", "unpad", "clearing", "print", "wipe",
                         \*   "end", "returned", "refused" or "overrun"
    problem,             \* 1 to 4
    parsed,              \* the bytes of the ciphertext's words, highest first
    text,                \* pt, by byte address
    blk, i_word, pbyte, padding_bytes,     \* remove_pkcs7_padding
    w, b, left,          \* print_msb_plaintext
    out                  \* what has been printed of this problem

week2_vars == <<client, pad, w2_pc, problem, parsed, text, blk, i_word, pbyte,
                padding_bytes, w, b, left, out>>

----------------------------------------------------------------------------
(* The four problems.                                                      *)

cbc == problem \in {1, 2}

\* Bytes of ciphertext after the IV, of the array of bytes, of the array of
\* words, and characters printed.
DataBytes == <<48, 48, 60, 30>>[problem]
ByteArray == <<48, 48, 60, 32>>[problem]
WordArray == <<48, 48, 64, 36>>[problem]
PrintedBytes == <<48, 48, 60, 36>>[problem]

\* hex_to_bytes stops at the end of the text, bytes_to_words at the last whole
\* word; what they do not reach stays 0.
ct_bytes(i) == IF i < DataBytes THEN 1000 * problem + i + 1 ELSE 0
ct_words(i) == IF i < 4 * (ByteArray \div 4) THEN ct_bytes(i) ELSE 0

\* Where the i-th byte of an array of words, highest byte first, is in memory.
ByteAddress(i) == 4 * (i \div 4) + 3 - (i % 4)

Nothing == [a \in Addresses |-> 0]

Week2Init ==
    /\ \/ client = "main" /\ pad = 8
       \/ client = "last" /\ pad \in Pads
    /\ w2_pc = "parse" /\ problem = 1 /\ parsed = <<>> /\ text = Nothing
    /\ blk = 0 /\ i_word = 0 /\ pbyte = 0 /\ padding_bytes = 0
    /\ w = 0 /\ b = 0 /\ left = 0 /\ out = <<>>

Parse ==
    /\ w2_pc = "parse" /\ w2_pc' = "decrypt"
    /\ parsed' = [i \in 0..(WordArray - 1) |-> ct_words(i)]
    /\ UNCHANGED <<client, pad, problem, text, blk, i_word, pbyte, padding_bytes, w, b, left, out>>

\* CBC decrypts a block for each begun, CTR for each whole one.
DecryptedBytes == BLOCK_BYTES * IF cbc THEN (WordArray + BLOCK_BYTES - 1) \div BLOCK_BYTES
                                ELSE WordArray \div BLOCK_BYTES

\* main passes the size in bytes less Nb as an index of words.
LastBlock == IF client = "main" THEN WordArray - 4 ELSE WordArray \div 4 - 4

DecryptText ==
    /\ w2_pc = "decrypt"
    /\ text' = [a \in Addresses |->
          LET i == ByteAddress(a)        \* ByteAddress is its own inverse
          IN  IF i >= DecryptedBytes THEN text[a]
              ELSE IF parsed[i] = 0 THEN STREAM ELSE parsed[i]]
    /\ w2_pc' = IF cbc THEN "unpad" ELSE "print"
    /\ blk' = LastBlock
    /\ w' = 0 /\ b' = 3 /\ left' = PrintedBytes
    /\ UNCHANGED <<client, pad, problem, parsed, i_word, pbyte, padding_bytes, out>>

----------------------------------------------------------------------------
(* remove_pkcs7_padding.                                                   *)

\* The padding bytes hold their number.
ByteValue(c) == IF c = 0 THEN 0
                ELSE IF c - 1000 * problem > DataBytes - pad THEN pad ELSE Letter

\* After either client's call.
Unpadded(result) == w2_pc' = IF client = "main" THEN "print" ELSE result

\* The last byte of the last word has the lowest address.
FirstByte_Highest == 4 * (blk + 3) + 3
FirstByte == 4 * (blk + 3)

StartUnpadding ==
    /\ w2_pc = "unpad"
    /\ i_word' = 3 /\ pbyte' = FirstByte
    /\ padding_bytes' = ByteValue(text[4 * (blk + 3)])
    /\ IF padding_bytes' > BLOCK_BYTES THEN Unpadded("refused") ELSE w2_pc' = "clearing"
    /\ UNCHANGED <<client, pad, problem, parsed, text, blk, w, b, left, out>>

\* A pass of the loop: padding_bytes is decremented by its condition, then in
\* its body, as a byte.
Decremented(n) == (n + 254) % 256

ClearPaddingByte ==
    /\ w2_pc = "clearing" /\ padding_bytes > 0
    /\ \/ /\ pbyte \in Addresses
          /\ text' = [text EXCEPT ![pbyte] = 0]
          /\ padding_bytes' = Decremented(padding_bytes)
          /\ \/ /\ padding_bytes' % 4 = 0
                /\ i_word' = i_word - 1 /\ pbyte' = 4 * (blk + i_word - 1)
             \/ /\ padding_bytes' % 4 # 0
                /\ i_word' = i_word /\ pbyte' = pbyte + 1
          /\ w2_pc' = w2_pc
       \/ /\ pbyte \notin Addresses
          /\ w2_pc' = "overrun"
          /\ UNCHANGED <<text, padding_bytes, i_word, pbyte>>
    /\ UNCHANGED <<client, pad, problem, parsed, blk, w, b, left, out>>

EndUnpadding ==
    /\ w2_pc = "clearing" /\ padding_bytes = 0
    /\ Unpadded("returned")
    /\ UNCHANGED <<client, pad, problem, parsed, text, blk, i_word, pbyte, padding_bytes,
                   w, b, left, out>>

----------------------------------------------------------------------------
(* print_msb_plaintext, and the end of a problem.                          *)

NextWord_Adjacent == w + 1
NextWord == w + 4

PrintByte ==
    /\ w2_pc = "print" /\ left > 0
    /\ out' = Append(out, text[b])
    /\ left' = left - 1
    /\ \/ b = w /\ w' = NextWord /\ b' = w' + 3
       \/ b # w /\ w' = w /\ b' = b - 1
    /\ UNCHANGED <<client, pad, w2_pc, problem, parsed, text, blk, i_word, pbyte, padding_bytes>>

EndPrinting ==
    /\ w2_pc = "print" /\ left = 0 /\ w2_pc' = "wipe"
    /\ UNCHANGED <<client, pad, problem, parsed, text, blk, i_word, pbyte, padding_bytes,
                   w, b, left, out>>

Wiped_Kept == text
Wiped == Nothing

Wipe ==
    /\ w2_pc = "wipe"
    /\ text' = Wiped
    /\ IF problem = 4 THEN w2_pc' = "end" /\ UNCHANGED <<problem, pad, out>>
       ELSE /\ w2_pc' = "parse" /\ problem' = problem + 1 /\ out' = <<>>
            /\ pad' = IF problem = 1 THEN 16 ELSE 0
    /\ UNCHANGED <<client, parsed, blk, i_word, pbyte, padding_bytes, w, b, left>>

Week2Next ==
    \/ Parse \/ DecryptText \/ StartUnpadding \/ ClearPaddingByte \/ EndUnpadding
    \/ PrintByte \/ EndPrinting \/ Wipe

Week2Spec == Week2Init /\ [][Week2Next]_week2_vars

----------------------------------------------------------------------------
(* Properties.                                                             *)

\* The bytes are those of the problem being solved, and no pointer is used
\* outside pt, but by remove_pkcs7_padding.
Week2TypeOK ==
    /\ \A a \in Addresses : text[a] \in {0, STREAM} \cup ((1000 * problem + 1) .. (1000 * problem + 60))
    /\ padding_bytes \in 0..255
    /\ w2_pc = "print" => b \in w .. (w + 3) /\ (left > 0 => b \in Addresses)

\* Each problem prints its bytes from the first to the last, padding included;
\* what it prints after them, in problem 4, is key stream and zeros, never a byte
\* of an earlier problem (week2.c:61-83, 191, 206, 220, 234).
PrintedTextIsThePlaintext ==
    \A i \in 1..Len(out) :
       IF i <= DataBytes THEN out[i] = 1000 * problem + i ELSE out[i] \in {0, STREAM}

\* The bytes that remove_pkcs7_padding has cleared.
Cleared == {i \in 0..(DataBytes - 1) : text[ByteAddress(i)] = 0}

\* What the two decrements make of a padding: an even one is half cleared, and
\* nothing else is; an odd one never meets zero, and the loop leaves the buffer;
\* one above 16 is refused untouched.  main passes a block of zeros, of which
\* nothing is cleared (week2.c:17-53, 189).
PaddingOutcome ==
    /\ w2_pc = "overrun" => client = "last" /\ pad % 2 = 1 /\ pad < BLOCK_BYTES
    /\ w2_pc = "returned" => pad % 2 = 0 /\ Cardinality(Cleared) = pad \div 2
    /\ w2_pc = "refused" => (pad = 0 \/ pad > BLOCK_BYTES) /\ Cleared = {}
    /\ pad % 2 = 0 /\ w2_pc \in {"clearing", "returned"} =>
          \A i \in Cleared : i >= DataBytes - pad
    /\ client = "main" /\ w2_pc \in {"print", "wipe"} => Cleared = {}

\* The comment of remove_pkcs7_padding: it removes the padding of a given block,
\* and returns 0 if successful (week2.c:11-15).
PaddingIsRemoved ==
    w2_pc = "returned" => \A i \in (DataBytes - pad) .. (DataBytes - 1) : i \in Cleared
=============================================================================
