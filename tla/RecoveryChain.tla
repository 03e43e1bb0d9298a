--------------------------- MODULE RecoveryChain ---------------------------
(***************************************************************************)
(* The capture script and the copy script on the same work disk: copiers   *)
(* are started before, while and after a capture is made, several times,   *)
(* towards several roots, and both sides die anywhere.  Here the source    *)
(* does not drift; RecoveryCopy.tla covers that.                           *)
(***************************************************************************)
EXTENDS RecoveryCapture, RecoveryCopy

chainVars == <<captureVars, copyVars>>

ChainInit == CaptureInit /\ CopierInit

CaptureMoves ==
    /\ CaptureNext
    /\ UNCHANGED <<drifted, copierVars, targetVars>>

CopyMoves ==
    /\ \E c \in Copiers : CopierStep(c) \/ CopierDies(c)
    /\ UNCHANGED <<pc, dir, cursor, digests>>

ChainNext == CaptureMoves \/ CopyMoves

ChainSpec == ChainInit /\ [][ChainNext]_chainVars

\* Each capture run goes on with its own steps; copiers and mtkclient need not.
ChainFairSpec ==
    ChainSpec /\ \A r \in Runs : WF_chainVars(ScriptStep(r) /\ UNCHANGED <<drifted, copierVars, targetVars>>)
-----------------------------------------------------------------------------
\* The artifacts of a directory or of a copy of one.
ArtifactsOf(files) == [p \in ExpectedPaths |-> files[p]]

\* What both passes of a good capture hold.
GoodArtifacts ==
    {reads \in [ExpectedPaths -> Bytes] :
        /\ \A a \in Expected : /\ reads[<<"pass1", a>>] \in WellFormed[a]
                               /\ reads[<<"pass2", a>>] = reads[<<"pass1", a>>]
        /\ ParsedGpt[<<reads[<<"pass1", GptPrimary>>],
                       reads[<<"pass1", GptBackup>>]>>] \in CompleteGpts}

\* What says that there is no baseline is none.
ASSUME ChainAssumption == Absent \notin [ExpectedPaths -> Bytes]

Promise == INSTANCE RollbackBaseline WITH
    BaselineDirs <- Dirs,
    OfflineRoots <- Roots,
    Disk <- DiskOf,
    Contents <- GoodArtifacts,
    Nothing <- Absent,
    baseline <- [d \in Dirs |-> IF Verified(d) THEN ArtifactsOf(store[d]) ELSE Absent],
    offline <- [t \in Targets |-> IF final[t] # Absent THEN ArtifactsOf(final[t]) ELSE Absent]

\* The two scripts together keep the promise: the manifest is what makes a
\* directory a baseline, the rename is what makes a copy, and nothing written
\* before, between or after these two steps by any run shows.
KeepsThePromise == Promise!BaselineSpec

\* A copier that got through its checks works on a capture that is finished:
\* the run that made it is gone, so no file it copies is still being written.
CopiersWorkOnFinishedCaptures ==
    \A c \in Copiers : cpc[c] \in PastVerification =>
        Verified(src[c]) /\ \A r \in Runs : ~Owns(r, src[c])
=============================================================================
