CONSTANTS
    Name <- MCName
    ImpOf <- MCImpOf
    Object <- MCObjectAddr
    ArFile <- MCArFileAddr
    MaxInputs = 4
SPECIFICATION AddrSpec
INVARIANTS DiagnosedFailure AddressOfWinner
