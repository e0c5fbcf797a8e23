\* Bodies of a few statements through the compiler and their runs.
SPECIFICATION Spec
CONSTANTS
    Field = {"x"}
    Callables <- MCCallables
INVARIANTS
    EveryNarrowedUsePresent
CHECK_DEADLOCK FALSE
