\* The off-chain store may substitute any Data sequence of the same bounds.
CONSTANTS
    a = a
    None = None
    Chars <- MC_Chars
    MaxLen = 2
    MaxFields = 2
SPECIFICATION Spec
INVARIANT ValidatedDataIsGenuine
\* After validation the system has nothing left to do.
CHECK_DEADLOCK FALSE
