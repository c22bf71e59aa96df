\* A damaged last block.
CONSTANTS
    FILE_BLOCK_SZ = 2
    SHA256_MD_SZ = 1
    MaxSize = 5
    Faults = {"damage"}
SPECIFICATION Spec
INVARIANTS OutcomeIsHonest
\* the program ends
CHECK_DEADLOCK FALSE
