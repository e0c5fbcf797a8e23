\* Bodies of a few statements through the compiler and their runs.
SPECIFICATION Spec
CONSTANTS
    Field = {"x"}
    Callables <- MCCallables
INVARIANTS
    FlowExact
    ConstructionSound
    NarrowingSound
    VerifierAgrees
CHECK_DEADLOCK FALSE
