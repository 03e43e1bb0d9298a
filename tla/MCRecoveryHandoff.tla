------------------------- MODULE MCRecoveryHandoff -------------------------
EXTENDS RecoveryHandoff, TLC

CONSTANTS devices, pids, dev, proc, pts, cgroup

\* Two controllers, of which dockerd insists on one; two sources; both nested
\* mounts.
MCControllerOrder == <<devices, pids>>

MCSourceOrder == <<dev, proc>>

MCNestedOrder == <<pts, cgroup>>
=============================================================================
