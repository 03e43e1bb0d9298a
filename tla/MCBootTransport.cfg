SPECIFICATION TransportFairSpec
CONSTANTS
    BusIds = {b1, b2}
    InitialBindings <- MCBindings
CHECK_DEADLOCK FALSE
INVARIANTS
    TransportTypeOK
    ReadyIsBoundAsAsked
PROPERTIES
    BindingsNeedConsent
    WaitEnds
    FollowsToBootRom
