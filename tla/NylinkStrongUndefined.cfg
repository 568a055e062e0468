CONSTANTS
    Name <- MCName
    ImpOf <- MCImpOf
    Object <- MCObject
    ArFile <- MCArFile
    MaxInputs = 2
SPECIFICATION Spec
INVARIANT NoStrongUndefined
