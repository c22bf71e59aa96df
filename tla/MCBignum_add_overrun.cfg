\* A product with leading zero words handed to bn_add.
CONSTANTS
    o1 = o1
    o2 = o2
    b1 = b1
    b2 = b2
    b3 = b3
    Objs = {o1, o2}
    Bufs = {b1, b2, b3}
    NULL = NULL
    Base = 2
    MaxWords = 4
    MaxDigits = 3
    Radixes = {2}
    Power <- MCPower
    Calls = {"init", "add", "mul"}
    FailSites = {}
SPECIFICATION Spec
VIEW View
SYMMETRY Symmetry
PROPERTIES AddNeverOverruns
\* a failed assertion ends the program
CHECK_DEADLOCK FALSE
