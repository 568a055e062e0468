CONSTANTS
    Chunks = 3
    Faults <- Killable
SPECIFICATION Spec
INVARIANT SwapIsSafe
