\* Every call, every aliasing and every failed allocation.
CONSTANTS
    o1 = o1
    o2 = o2
    b1 = b1
    b2 = b2
    b3 = b3
    Objs = {o1, o2}
    Bufs = {b1, b2, b3}
    NULL = NULL
    Base = 2
    MaxWords = 3
    MaxDigits = 2
    Radixes = {2, 3}
    Power <- MCPower
    Calls = {"init", "reset", "tostring", "add", "sub", "mul", "div"}
    FailSites = {"init", "add", "sub", "mul", "mul_tmp", "tostring"}
SPECIFICATION Spec
VIEW View
SYMMETRY Symmetry
INVARIANTS TypeOK OneOwner Capacity CleanTail
PROPERTIES AbortNeedsPadding DanglingAfterFailedProduct PaddingComesFromProducts
\* a failed assertion ends the program
CHECK_DEADLOCK FALSE
