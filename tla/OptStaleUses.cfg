CONSTANT Inputs <- StaleInputs
SPECIFICATION Spec
INVARIANT MeaningKeptByStaleUses
