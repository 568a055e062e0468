CONSTANTS
    Bodies <- EmptyArms
    Levels <- OnlyO1
SPECIFICATION Spec
INVARIANT BehaviourKept
