CONSTANT Pairs <- AllPairs
SPECIFICATION Spec
INVARIANTS SameAsCpp
