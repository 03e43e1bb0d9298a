SPECIFICATION CaptureSpec
CONSTANTS
    gpt = gpt
    gpt_backup = gpt_backup
    boot = boot
    stray = stray
    good = good
    alt = alt
    bad = bad
    Dirs = {d1}
    Expected = {gpt, gpt_backup, boot}
    Stray = {stray}
    Bytes = {good, alt, bad}
    Absent = Absent
    Partial = Partial
    LineOrder <- MCLineOrder
    Runs = {r1, r2}
    Commands <- MCCommands
    GptPrimary = gpt
    GptBackup = gpt_backup
    WellFormed <- MCWellFormed
    ParsedGpt <- MCParsedGpt
    CompleteGpts <- MCCompleteGpts
SYMMETRY RunSymmetry
CHECK_DEADLOCK FALSE
INVARIANTS
    CaptureTypeOK
    ExclusiveOwner
    VerifiedIsSound
    RejectedForCause
