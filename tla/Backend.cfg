SPECIFICATION BackendSpec
CONSTANT Inputs <- RunInputs
INVARIANTS Separate CallsSafe FrameDisjoint SameResult CallerStateKept
