SPECIFICATION PrepSpec
CONSTANTS
    Workers = {w1, w2}
    Series <- MCSeries
    Members = 3
    Clang = 2
SYMMETRY WorkerSymmetry
INVARIANTS
    PreparedIsWhole
