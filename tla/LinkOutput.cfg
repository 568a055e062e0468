CONSTANTS
    Chunks = 3
    Faults <- AllFaults
SPECIFICATION Spec
INVARIANTS ExitIsHonest NeverTorn
PROPERTY UntouchedUntilWritten
