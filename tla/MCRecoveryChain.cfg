SPECIFICATION ChainFairSpec
CONSTANTS
    gpt = gpt
    good = good
    alt = alt
    bad = bad
    e1 = e1
    Dirs = {d1}
    Expected = {gpt}
    Stray = {}
    Bytes = {good, bad}
    Absent = Absent
    Partial = Partial
    LineOrder <- MCLineOrder
    Runs = {r1, r2}
    Commands <- MCCommands
    GptPrimary = gpt
    GptBackup = gpt
    WellFormed <- MCWellFormed
    ParsedGpt <- MCParsedGpt
    CompleteGpts <- MCCompleteGpts
    Copiers = {c1, c2}
    Roots = {e1, e2}
    DiskOf <- MCDiskOf
    MaxDrift = 0
    InitialStores = {}
CHECK_DEADLOCK FALSE
INVARIANTS
    CopiersWorkOnFinishedCaptures
PROPERTIES
    KeepsThePromise
    LeftStaysAsLeft
    SoundReadsGetVerified
