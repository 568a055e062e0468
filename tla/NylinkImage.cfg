CONSTANTS
    Jobs <- RunJobs
    Length <- RunLength
    Hash <- RunHash
    PeBase <- RunPeBase
    Disp32 = 8388607
    Imm26 = 2097152
    Imm21 = 2048
SPECIFICATION Spec
INVARIANTS BoundCorrectly PlannedExactly DynamicFits LookupFinds NothingOverlaps PiecesMapped EntryReached ExportsReached
