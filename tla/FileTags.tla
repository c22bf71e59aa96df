------------------------------ MODULE FileTags ------------------------------
(***************************************************************************)
(* File authentication, src/pa/week3.c: the video is cut into blocks; from *)
(* the last block backwards, each block is written to a second file with   *)
(* the tag (hash) of the tagged block after it, and the tag of the first   *)
(* one, h0, is kept.  The second file is then read forwards and each       *)
(* tagged block compared with the tag found in front of it.  A loop body   *)
(* is one step; the reads and writes in it may fail, and storage may       *)
(* damage the second file in between.  The hash is free of collisions: the *)
(* tag of an array is the array; it cannot fail on these arguments.        *)
(***************************************************************************)
EXTENDS Integers, FiniteSetsExt

CONSTANTS
    FILE_BLOCK_SZ,   \* bytes of a block
    SHA256_MD_SZ,    \* bytes of a tag
    MaxSize,         \* bound: bytes of the video
    Faults           \* which of "open", "read", "write", "damage" may happen, once

ASSUME BlockAssumption ==
    /\ FILE_BLOCK_SZ \in Nat \ {0} /\ SHA256_MD_SZ \in Nat \ {0}
    /\ MaxSize \in Nat
    /\ Faults \subseteq {"open", "read", "write", "damage"}

VARIABLES
    pc,
    file, file_tagged,           \* the two files
    buf, tag,                    \* the block in hand, the last tag computed
    blk_size, blk_tagged_size, file_pos, file_tagged_pos,
    prev_tag, blk_cnt, read_pos, eof,   \* of the verification
    said,                        \* the messages printed
    faults                       \* what has gone wrong

vars == <<pc, file, file_tagged, buf, tag, blk_size, blk_tagged_size, file_pos,
          file_tagged_pos, prev_tag, blk_cnt, read_pos, eof, said, faults>>

loop  == <<blk_size, blk_tagged_size, file_pos, file_tagged_pos>>
check == <<prev_tag, blk_cnt, read_pos, eof>>

----------------------------------------------------------------------------
(* Arrays of n bytes are functions on 0..n-1.                              *)

Bytes(n) == 0 .. (n - 1)
Length(array) == Cardinality(DOMAIN array)

BUF_SZ == FILE_BLOCK_SZ + SHA256_MD_SZ

Zero == <<"zero">>
Zeros(n) == [i \in Bytes(n) |-> Zero]

\* The n bytes from position from on.
Slice(array, from, n) == [i \in Bytes(n) |-> array[from + i]]

\* memcpy, and fwrite after fseek: a gap before from reads as zeros.
Written(array, from, data) ==
    [i \in Bytes(Max({Length(array), from + Length(data)})) |->
        IF i - from \in DOMAIN data THEN data[i - from]
        ELSE IF i \in DOMAIN array THEN array[i] ELSE Zero]

\* The first n bytes of array, hashed.
sha256(array, n) == [i \in Bytes(SHA256_MD_SZ) |-> <<"tag", Slice(array, 0, n), i>>]

Fault(kind) == kind \in Faults /\ faults = {} /\ faults' = {kind}
NoFault == UNCHANGED faults

----------------------------------------------------------------------------
(* Tagging.                                                                *)

Init ==
    /\ pc = "start"
    /\ \E size \in 0..MaxSize : file = [i \in Bytes(size) |-> <<"video", i>>]
    /\ file_tagged = Zeros(0)
    /\ buf = Zeros(BUF_SZ) /\ tag = Zeros(SHA256_MD_SZ)
    /\ blk_size = 0 /\ blk_tagged_size = 0 /\ file_pos = 0 /\ file_tagged_pos = 0
    /\ prev_tag = tag /\ blk_cnt = 0 /\ read_pos = 0 /\ eof = FALSE
    /\ said = {} /\ faults = {}

\* The video cannot be downloaded, or one of the two files not be opened.
OpenFails ==
    /\ pc = "start" /\ Fault("open") /\ pc' = "end"
    /\ said' = said \cup {"Failed to open"}
    /\ UNCHANGED <<file, file_tagged, buf, tag, loop, check>>

\* The index of the last block; -1 when there is none.
last_blk_idx_Rounded(size) == size \div FILE_BLOCK_SZ
last_blk_idx(size) ==
    size \div FILE_BLOCK_SZ - (IF size % FILE_BLOCK_SZ # 0 THEN 0 ELSE 1)

Locate ==
    /\ pc = "start" /\ pc' = "tag"
    /\ LET size      == Length(file)
           remainder == size % FILE_BLOCK_SZ
       IN  /\ blk_size' = IF remainder # 0 THEN remainder ELSE FILE_BLOCK_SZ
           /\ blk_tagged_size' = blk_size'
           /\ file_pos' = last_blk_idx(size) * FILE_BLOCK_SZ
           /\ file_tagged_pos' = last_blk_idx(size) * BUF_SZ
    /\ UNCHANGED <<file, file_tagged, buf, tag, check, said, faults>>

\* The tag appended to the block is the one of the block after it.
Append(block, next_tag) == Written(block, FILE_BLOCK_SZ, next_tag)

TagBlock ==
    /\ pc = "tag" /\ file_pos >= 0
    /\ file_pos + blk_size <= Length(file)
    /\ buf' = Append(Written(buf, 0, Slice(file, file_pos, blk_size)), tag)
    /\ \/ /\ file_tagged' = Written(file_tagged, file_tagged_pos,
                                    Slice(buf', 0, blk_tagged_size))
          /\ NoFault
       \/ Fault("write") /\ UNCHANGED file_tagged    \* fwrite is not checked
    /\ tag' = sha256(buf', blk_tagged_size)
    /\ blk_size' = FILE_BLOCK_SZ /\ blk_tagged_size' = BUF_SZ
    /\ file_pos' = file_pos - FILE_BLOCK_SZ
    /\ file_tagged_pos' = file_tagged_pos - BUF_SZ
    /\ UNCHANGED <<pc, file, check, said>>

\* A block that cannot be read ends the loop.
ReadFails ==
    /\ pc = "tag" /\ file_pos >= 0
    /\ \/ file_pos + blk_size > Length(file) /\ NoFault
       \/ Fault("read")
    /\ pc' = "tagged" /\ said' = said \cup {"Failed to read file"}
    /\ UNCHANGED <<file, file_tagged, buf, tag, loop, check>>

EndTagging ==
    /\ pc = "tag" /\ file_pos < 0 /\ pc' = "tagged"
    /\ UNCHANGED <<file, file_tagged, buf, tag, loop, check, said, faults>>

\* Both files are closed, h0 is printed; the second file is opened again.
Report ==
    /\ pc = "tagged"
    /\ \/ /\ pc' = "verify" /\ NoFault
          /\ said' = said \cup {"File encoded successfully"}
          /\ prev_tag' = tag
       \/ /\ Fault("open") /\ pc' = "end"
          /\ said' = said \cup {"File encoded successfully", "Failed to open"}
          /\ UNCHANGED prev_tag
    /\ UNCHANGED <<file, file_tagged, buf, tag, loop, blk_cnt, read_pos, eof>>

\* A byte of the second file changes on the disk.
Damage ==
    /\ pc = "verify" /\ read_pos = 0 /\ ~eof /\ Fault("damage")
    /\ \E i \in DOMAIN file_tagged :
          file_tagged' = [file_tagged EXCEPT ![i] = <<"damaged">>]
    /\ UNCHANGED <<pc, file, buf, tag, loop, check, said>>

----------------------------------------------------------------------------
(* Verification.                                                           *)

\* fread of up to sizeof(buf) bytes; a short read notes the end of the file.
Available == Length(file_tagged) - read_pos
Got_Unbounded == Available
Got == IF Available < BUF_SZ THEN Available ELSE BUF_SZ

Fetch ==
    /\ buf' = Written(buf, 0, Slice(file_tagged, read_pos, Got))
    /\ read_pos' = read_pos + Got
    /\ eof' = (Got < BUF_SZ)

Matches_Swapped(expected, actual) == expected # actual
Matches(expected, actual) == expected = actual

\* The tag that the block in hand carries for the next one.
carried_tag_Computed(block) == tag'
carried_tag(block) == Slice(block, FILE_BLOCK_SZ, SHA256_MD_SZ)

VerifyBlock ==
    /\ pc = "verify" /\ Got > 0 /\ Fetch
    /\ tag' = sha256(buf', Got)
    /\ IF Matches(prev_tag, tag')
       THEN /\ prev_tag' = carried_tag(buf')
            /\ blk_cnt' = blk_cnt + 1
            /\ UNCHANGED <<pc, said>>
       ELSE /\ said' = said \cup {"file integrity check failed"}
            /\ pc' = "outcome"
            /\ UNCHANGED <<prev_tag, blk_cnt>>
    /\ UNCHANGED <<file, file_tagged, loop, faults>>

EndVerify ==
    /\ pc = "verify" /\ Got = 0 /\ Fetch /\ pc' = "outcome"
    /\ UNCHANGED <<file, file_tagged, tag, loop, prev_tag, blk_cnt, said, faults>>

\* A read fails and ferror is set: fread returns 0, or less than the block,
\* whose hash is then not the one expected.
VerifyReadFails ==
    /\ pc = "verify" /\ Fault("read") /\ pc' = "end"
    /\ \E partial \in SUBSET {"file integrity check failed"} :
          said' = said \cup partial \cup {"Reading tagged file failed"}
    /\ UNCHANGED <<file, file_tagged, buf, tag, loop, check>>

\* Only the end of the file is asked for, not how the loop ended.
Outcome ==
    /\ pc = "outcome" /\ pc' = "end"
    /\ said' = IF eof THEN said \cup {"File verified successfully"} ELSE said
    /\ UNCHANGED <<file, file_tagged, buf, tag, loop, check, faults>>

Next ==
    \/ OpenFails \/ Locate \/ TagBlock \/ ReadFails \/ EndTagging \/ Report \/ Damage
    \/ VerifyBlock \/ EndVerify \/ VerifyReadFails \/ Outcome

Spec == Init /\ [][Next]_vars

----------------------------------------------------------------------------
(* The chain the two stages should agree on.                               *)

NumBlocks == (Length(file) + FILE_BLOCK_SZ - 1) \div FILE_BLOCK_SZ

Block(k) ==
    LET from == k * FILE_BLOCK_SZ
    IN  Slice(file, from, Min({FILE_BLOCK_SZ, Length(file) - from}))

\* Block k with the tag of tagged block k + 1; the last block as it is.
Chain[k \in Nat] ==
    IF k >= NumBlocks - 1 THEN Block(k)
    ELSE Append(Block(k), sha256(Chain[k + 1], Length(Chain[k + 1])))

\* What the second file holds where tagged block k should be.
Stored(k) ==
    LET from == k * BUF_SZ
    IN  Slice(file_tagged, from, Min({BUF_SZ, Length(file_tagged) - from}))

----------------------------------------------------------------------------
(* Properties.                                                             *)

\* The buffers keep their sizes and both positions point to the same block.
TypeOK ==
    /\ DOMAIN buf = Bytes(BUF_SZ) /\ DOMAIN tag = Bytes(SHA256_MD_SZ)
    /\ DOMAIN prev_tag = Bytes(SHA256_MD_SZ)
    /\ blk_size \in 0..FILE_BLOCK_SZ /\ blk_tagged_size \in 0..BUF_SZ
    /\ file_pos * BUF_SZ = file_tagged_pos * FILE_BLOCK_SZ
    /\ read_pos \in 0..Length(file_tagged) /\ blk_cnt \in Nat
    /\ faults \subseteq Faults

\* When tagging ends without a fault, the second file, written from its end
\* backwards (week3.c:93-140), is exactly the chain, and h0 is the tag of its
\* first block; sizes that are no multiple of a block, are one, or are 0.
TaggedFileIsTheChain ==
    pc = "tagged" /\ faults = {} =>
       IF NumBlocks = 0
       THEN Length(file_tagged) = 0
       ELSE /\ Length(file_tagged) = Length(file) + (NumBlocks - 1) * SHA256_MD_SZ
            /\ \A k \in 0 .. (NumBlocks - 1) : Stored(k) = Chain[k]
            /\ tag = sha256(Chain[0], Length(Chain[0]))

\* While the second file is read, each block counted as verified is the block
\* of the video with its tag, whatever was damaged, lost or not read before
\* (week3.c:169-198): a reader may use it before the rest has arrived.
VerifiedBlocksAreAuthentic ==
    \A k \in 0 .. (blk_cnt - 1) : k < NumBlocks /\ Stored(k) = Chain[k]

\* If every read and write worked, the check fails if and only if a byte was
\* damaged, and otherwise all blocks were verified and the success is reported;
\* a file that cannot be opened never ends in a success (week3.c:19-84, 162-167).
DamageIsNoticed ==
    pc = "end" /\ faults \cap {"read", "write"} = {} =>
       CASE faults = {"damage"} -> "file integrity check failed" \in said
         [] faults = {"open"} -> blk_cnt = 0 /\ "File verified successfully" \notin said
         [] OTHER ->
            /\ said = {"File encoded successfully", "File verified successfully"}
            /\ blk_cnt = NumBlocks

\* A success without a failed check before it means that the second file holds
\* nothing but the first blocks of the chain, whatever calls failed: it may lack
\* blocks at its end, since the chain has no end mark, but has no other ones and
\* no part of one (week3.c:169-209).
SuccessIsOfAPrefix ==
    "File verified successfully" \in said /\ "file integrity check failed" \notin said =>
       \A k \in 0 .. Length(file_tagged) : k * BUF_SZ < Length(file_tagged) =>
          k < NumBlocks /\ Stored(k) = Chain[k]

----------------------------------------------------------------------------
\* "=== File verified successfully ===" (week3.c:208) is not printed after
\* "Error: file integrity check failed" (week3.c:188-191).
OutcomeIsHonest ==
    ~({"file integrity check failed", "File verified successfully"} \subseteq said)
============================================================================
