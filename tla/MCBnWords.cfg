\* Every loop on every operand of up to three words, leading zero words and a
\* stale word after the addend included, and every numeral of up to five digits;
\* every result printed in two bases, with and without a sign.
CONSTANTS
    Base = 3
    MaxWords = 6
    MaxDigits = 5
    Radixes = {2, 3}
    Power <- MCPower
    Ops = {"add", "sub", "mul", "init"}
    MaxLen = 3
    MayFail = TRUE
SPECIFICATION WordsSpec
INVARIANTS WordsTypeOK RowsAreExact LengthsAreExact OverrunsArePredicted
    DivisionIsExact NothingLeaks PrintedIsComputed
PROPERTIES Termination
\* the call ends
CHECK_DEADLOCK FALSE
