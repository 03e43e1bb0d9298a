SPECIFICATION ImageFairSpec
CONSTANTS
    Assemblies = {a1, a2}
    Kernels = {k1, k2}
    TooLarge = {k2}
    Personal = {p1}
    plain = plain
    recovery = recovery
    Options <- MCOptions
    ArtifactOrder <- MCArtifactOrder
    MaxBuilds = 1
    Absent = Absent
    Partial = Partial
    Stock = Stock
    Damaged = Damaged
CHECK_DEADLOCK FALSE
INVARIANTS
    ImageTypeOK
    SumsMeanOneBuild
    PairIsConsistent
    ReportedIsRequested
PROPERTIES
    PublishedImageStays
    RepeatedRunCompletes
