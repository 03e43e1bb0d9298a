-------------------------- MODULE RollbackBaseline --------------------------
(***************************************************************************)
(* What the recovery tooling promises, without saying how: a capture       *)
(* directory becomes a rollback baseline at most once, in one step, with   *)
(* one well-formed content for both read passes, and never changes again;  *)
(* an offline copy appears in one step, on another physical disk, with     *)
(* exactly the content of a baseline, and never changes again.             *)
(***************************************************************************)
CONSTANTS
    BaselineDirs,   \* capture directories
    OfflineRoots,   \* places for a second copy
    Disk,           \* the physical disk of each of them
    Contents,       \* what the artifacts of a good capture can be
    Nothing         \* no baseline, no copy

VARIABLES
    baseline,   \* baseline[d]: what is known to be on the tablet
    offline     \* offline[<<place, d>>]: the second copy of it

baselineVars == <<baseline, offline>>

BaselineInit ==
    /\ baseline = [d \in BaselineDirs |-> Nothing]
    /\ offline = [t \in OfflineRoots \X BaselineDirs |-> Nothing]

Establish(d) ==
    /\ baseline[d] = Nothing
    /\ \E contents \in Contents : baseline' = [baseline EXCEPT ![d] = contents]
    /\ UNCHANGED offline

TakeOffline(place, d) ==
    /\ baseline[d] # Nothing
    /\ offline[<<place, d>>] = Nothing
    /\ Disk[place] # Disk[d]
    /\ offline' = [offline EXCEPT ![<<place, d>>] = baseline[d]]
    /\ UNCHANGED baseline

BaselineNext ==
    \E d \in BaselineDirs : Establish(d) \/ \E place \in OfflineRoots : TakeOffline(place, d)

BaselineSpec == BaselineInit /\ [][BaselineNext]_baselineVars

\* What the promise is worth: at any time a second copy is on another disk and
\* holds what its baseline holds.
CopiesAreBaselines ==
    \A place \in OfflineRoots, d \in BaselineDirs :
        offline[<<place, d>>] # Nothing =>
            offline[<<place, d>>] = baseline[d] /\ Disk[place] # Disk[d]
=============================================================================
