SPECIFICATION HandoffFairSpec
CONSTANTS
    devices = devices
    pids = pids
    dev = dev
    proc = proc
    pts = pts
    cgroup = cgroup
    Hosts = {h1, h2}
    Versions = {v1, v2}
    ControllerOrder <- MCControllerOrder
    Required = {devices}
    SourceOrder <- MCSourceOrder
    NestedOrder <- MCNestedOrder
    CgroupMount = cgroup
    MaxAttempts = 2
    MaxBoots = 1
    MaxActive = 1
    Absent = Absent
    Damaged = Damaged
CHECK_DEADLOCK FALSE
INVARIANTS
    HandoffTypeOK
    ChrootFindsRootComplete
    MountedIsVerified
PROPERTIES
    RerunChangesNothing
    EveryRunEnds
