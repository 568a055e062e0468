CONSTANTS
    Jobs <- AloneJobs
    Length <- RunLength
    Hash <- RunHash
    PeBase <- RunPeBase
    Disp32 = 8388607
    Imm26 = 2097152
    Imm21 = 2048
SPECIFICATION Spec
INVARIANT PieMoves
