\* Messages of up to three blocks and a bit; longer ones are refused.
CONSTANT SizeMax = 1599
SPECIFICATION Spec
INVARIANTS TypeOK ReadsStayInside DigestIsOfThePaddedMessage
\* the call ends
CHECK_DEADLOCK FALSE
