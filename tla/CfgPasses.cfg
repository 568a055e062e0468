CONSTANTS
    Bodies <- CheckedBodies
    Levels <- OnlyO1
SPECIFICATION Spec
INVARIANTS EdgesCoverBranches BehaviourKept NothingDeadLeft
