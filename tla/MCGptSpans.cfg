SPECIFICATION GptSpec
CONSTANTS
    Repartitions <- MCRepartitions
    Leftovers <- MCLeftovers
    FlashSizes <- MCFlashSizes
    Names = {"boot", "lk"}
    NoName = "none"
CHECK_DEADLOCK FALSE
INVARIANTS
    GptTypeOK
    SpansAreSafe
    ParsedMeansOneTable
    PartitionsLieBetween
    StandardLayoutParses
