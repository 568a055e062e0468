CONSTANT Inputs <- RunInputs
SPECIFICATION Spec
INVARIANTS MeaningKept DominatorsCurrent FrontiersExact SsaKept OrderCoversEdges LivenessExact
PROPERTY SccpDescends
