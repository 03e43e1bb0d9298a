SPECIFICATION CopySpec
CONSTANTS
    boot = boot
    good = good
    bad = bad
    d1 = d1
    e1 = e1
    e2 = e2
    c1 = c1
    Dirs = {d1}
    Expected = {boot}
    Stray = {}
    Bytes = {good, bad}
    Absent = Absent
    Partial = Partial
    LineOrder <- MCLineOrder
    Copiers = {c1, c2}
    Roots = {e1}
    DiskOf <- MCDiskOf
    MaxDrift = 0
    InitialStores <- GoodStores
CHECK_DEADLOCK FALSE
SYMMETRY CopierSymmetry
INVARIANTS
    FinalPathIsRefused
