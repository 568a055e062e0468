CONSTANTS
    Bodies <- PhiShapes
    Levels <- OnlyO0
SPECIFICATION Spec
INVARIANTS
    PhiMatchesPreds
    PhiNamesPreds
