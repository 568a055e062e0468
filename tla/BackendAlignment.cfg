SPECIFICATION BackendSpec
CONSTANT Inputs <- RunInputs
INVARIANT StackAligned
