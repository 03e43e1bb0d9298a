--------------------------- MODULE MCSourcePrep ---------------------------
EXTENDS SourcePrep, TLC

\* A patch of the kernel and one of the modules.
MCSeries == <<"kernel", "modules">>

WorkerSymmetry == Permutations(Workers)
===========================================================================
