SPECIFICATION TransportSpec
CONSTANTS
    BusIds = {b1}
    InitialBindings <- MCBindings
CHECK_DEADLOCK FALSE
INVARIANTS
    ReadyMeansBootRomAttached
