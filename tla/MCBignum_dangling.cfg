\* bn_mul fails after it chose to reuse the output's buffer.
CONSTANTS
    o1 = o1
    o2 = o2
    b1 = b1
    b2 = b2
    b3 = b3
    Objs = {o1, o2}
    Bufs = {b1, b2, b3}
    NULL = NULL
    Base = 2
    MaxWords = 3
    MaxDigits = 2
    Radixes = {2}
    Power <- MCPower
    Calls = {"init", "mul"}
    FailSites = {"mul_tmp"}
SPECIFICATION Spec
VIEW View
SYMMETRY Symmetry
INVARIANTS BstrIsValidOrNull
\* a failed assertion ends the program
CHECK_DEADLOCK FALSE
