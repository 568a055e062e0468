SPECIFICATION BackendSpec
CONSTANT Inputs <- RunInputs
INVARIANT BranchesOnCondition
