SPECIFICATION CopySpec
CONSTANTS
    boot = boot
    good = good
    bad = bad
    d1 = d1
    e1 = e1
    e2 = e2
    c1 = c1
    Dirs = {d1}
    Expected = {boot}
    Stray = {}
    Bytes = {good, bad}
    Absent = Absent
    Partial = Partial
    LineOrder <- MCLineOrder
    Copiers = {c1, c2, c3}
    Roots = {e1, e2}
    DiskOf <- MCDiskOf
    MaxDrift = 1
    InitialStores <- AnyStores
CONSTRAINT OverlapOnCapturedMetadata
CHECK_DEADLOCK FALSE
SYMMETRY CopierSymmetry
INVARIANTS
    CopyTypeOK
    VerificationIsComplete
    OneStagingWriter
    PublishedProvesItself
PROPERTIES
    PublishedFilesStay
    StagingIsLeft
