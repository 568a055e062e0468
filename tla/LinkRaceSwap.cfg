CONSTANTS
    Chunks = 3
    Process <- Two
    Faults <- NoFaults
SPECIFICATION Spec
INVARIANT RaceIsSafe
