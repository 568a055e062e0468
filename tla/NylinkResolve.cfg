CONSTANTS
    Name <- MCName
    ImpOf <- MCImpOf
    Object <- MCObject
    ArFile <- MCArFile
    MaxInputs = 4
SPECIFICATION Spec
INVARIANTS ExtractedOnce ExtractionComplete WinnerIsBest DuplicatesExact
    ResolvedIsDefined
PROPERTY Terminates
