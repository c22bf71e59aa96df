\* Three objects, so that operands and output can all differ; the arithmetic.
CONSTANTS
    o1 = o1
    o2 = o2
    o3 = o3
    b1 = b1
    b2 = b2
    b3 = b3
    b4 = b4
    Objs = {o1, o2, o3}
    Bufs = {b1, b2, b3, b4}
    NULL = NULL
    Base = 2
    MaxWords = 2
    MaxDigits = 2
    Radixes = {2}
    Power <- MCPower
    Calls = {"init", "reset", "tostring", "add", "sub", "mul", "div"}
    FailSites = {"init", "add", "sub", "mul", "tostring"}
SPECIFICATION Spec
VIEW View
SYMMETRY Symmetry
PROPERTIES ImplementsIntegers
\* a failed assertion ends the program
CHECK_DEADLOCK FALSE
