CONSTANTS
    Name <- MCName
    ImpOf <- MCImpOf
    Object <- MCObjectLocal
    ArFile <- MCArFile
    MaxInputs = 2
SPECIFICATION AddrSpec
INVARIANT WeakUndefinedIsZero
