\* Two processes build, reuse and link two packages while a source file is
\* edited, an artifact is damaged or a toolchain is installed.
SPECIFICATION Spec
CONSTANTS
    Package <- TwoPackages
    Direct <- TwoDirect
    Root = "app"
    Kind = {"object"}
    File = {f1}
    Proc = {p1, p2}
    Tick = {now}
    Attempts = 2
    MaxEvent = 1
    MaxRequest = 4
    None = None
    Damaged = Damaged
SYMMETRY ProcSymmetry
INVARIANTS
    OutputsWhole
    ArtifactsTruthful
    ExecutableConsistent
    FailurePreserves
    HitIsRebuild
CHECK_DEADLOCK FALSE
