\* Every length of key and message up to SIZE_MAX, every failure.
CONSTANTS
    Algs = {"SHA256", "SHA384", "SHA512"}
    BlockLen <- MCBlockLen
    DigestLen <- MCDigestLen
    MinKeyLen = 2
    SizeMax = 12
    Key <- MCKey
    Msg <- MCMsg
    Zero <- MCZero
    Junk <- MCJunk
    IPAD = "ipad"
    OPAD = "opad"
    Xor <- MCXor
    Hash <- MCHash
SPECIFICATION Spec
INVARIANTS TypeOK BufferHoldsBothInputs NothingIsLeftBehind TagIsTheHmac
\* the call returns
CHECK_DEADLOCK FALSE
