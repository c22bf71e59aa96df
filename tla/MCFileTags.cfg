\* Videos of up to three blocks and a bit, any single fault.
CONSTANTS
    FILE_BLOCK_SZ = 3
    SHA256_MD_SZ = 2
    MaxSize = 10
    Faults = {"open", "read", "write", "damage"}
SPECIFICATION Spec
INVARIANTS TypeOK TaggedFileIsTheChain VerifiedBlocksAreAuthentic DamageIsNoticed SuccessIsOfAPrefix
\* the program ends
CHECK_DEADLOCK FALSE
