SPECIFICATION HandshakeFairSpec
CONSTANTS
  Probes = {p1, p2}
  Configurations <- MCConfigurations
CHECK_DEADLOCK FALSE
INVARIANTS HandshakeTypeOK
PROPERTIES SuccessMeansInSync FreshTabletIsReached ProbeEnds
