\* Each primitive with its tables, every AES key length, and a length that is refused.
CONSTANTS
    IP <- InitialTable
    FP <- FinalTable
    E <- ExpansionTable
    P <- RoundTable
    PC1 <- Choice1Table
    PC2 <- Choice2Table
    S <- SubstitutionTable
    DesKeys <- OneDesKey
    DesBlocks <- OneDesBlock
    sbox <- SubstitutionBox
    inv_sbox <- InverseBox
    AesKeys <- AesKeysOfAllLengths
    AesBlocks <- AesZeroAndOther
    sha256_K <- CubeRoots
    H_0 <- SquareRoots
    Messages <- ShaMessages
SPECIFICATION PrimitivesSpec
INVARIANTS PrimitivesTypeOK DesDecryptionInverts DesComplementation
    EncryptIsFips AesDecryptionInverts KnownAnswers
\* the calls end
CHECK_DEADLOCK FALSE
