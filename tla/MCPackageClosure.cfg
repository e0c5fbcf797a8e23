\* Every set of artifacts, records and roots over three packages.
SPECIFICATION FairSpec
CONSTANTS
    Package = {p1, p2, p3}
    Pin = {"supplied", "other"}
    PinOf <- MCPinOf
INVARIANTS
    VerdictExact
PROPERTY CheckEnds
CHECK_DEADLOCK FALSE
