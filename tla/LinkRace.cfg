CONSTANTS
    Chunks = 3
    Process <- Two
    Faults <- CallsMayFail
SPECIFICATION Spec
INVARIANT BothHonest
