------------------------ MODULE RecoveryChainProofs ------------------------
(***************************************************************************)
(* Proofs about RecoveryChain: the capture script and the copy script on   *)
(* one work disk keep the promise of RollbackBaseline, for any artifacts,  *)
(* runs, copiers, directories, roots and disks.                            *)
(*                                                                         *)
(* The invariants of the two scripts are kept by the steps of the other    *)
(* one for one reason: a manifest is complete only in a directory that no  *)
(* run works in, and a copier that is past the manifest has found it       *)
(* complete.  So nothing a copier relies on is written by a capture run.   *)
(***************************************************************************)
EXTENDS RecoveryChain, RecoveryCaptureProofs, RecoveryCopyProofs

\* Copier c has got through the checks of the source and of the disks.
PastBegin == {"manifest", "listing", "verify"} \cup PastVerification

DisksDiffer(c) == cpc[c] \in PastBegin => DiskOf[src[c]] # DiskOf[root[c]]

ChainInv ==
    /\ CaptureInv
    /\ CopyInv
    /\ drifted = {}
    /\ \A c \in Copiers : DisksDiffer(c)

\* The refinement mapping, by its two components.
BaselineOf(d) == IF Verified(d) THEN ArtifactsOf(store[d]) ELSE Absent

OfflineOf(t) == IF final[t] # Absent THEN ArtifactsOf(final[t]) ELSE Absent
-----------------------------------------------------------------------------
(***************************************************************************)
(* The two scripts side by side.                                           *)
(***************************************************************************)

\* A directory with a complete manifest exists, and no run works in it.
LEMMA VerifiedIsLeft ==
    ASSUME CaptureInv, NEW d \in Dirs, Verified(d)
    PROVE  Left(d)
  <1>1. /\ CaptureTypeOK /\ UnmadeIsEmpty
        /\ \A r \in Runs : StageOK(r)
    BY DEF CaptureInv
  <1>2. store[d][ManifestFile] \notin {Absent, Partial}
    BY DEF Verified, Complete
  <1>3. d \in made
    <2>1. NoFiles[ManifestFile] = Absent
      BY FileFacts DEF NoFiles
    <2>2. QED
      BY <1>1, <1>2, <2>1 DEF UnmadeIsEmpty
  <1>4. \A r \in Runs : ~Owns(r, d)
    BY <1>1, <1>2 DEF StageOK, Owns
  <1>5. QED
    BY <1>3, <1>4 DEF Left

\* A step of a capture run changes no directory with a complete manifest, and
\* only one directory at all.
LEMMA CaptureLeavesVerified ==
    ASSUME CaptureInv, NEW r \in Runs, StepOf(r)
    PROVE  /\ \A d \in Dirs : Verified(d) => store'[d] = store[d]
           /\ \A d \in Dirs : d # dir[r] => store'[d] = store[d]
  <1>1. CaptureTypeOK
    BY DEF CaptureInv
  <1>2. /\ \A d \in Dirs : d # dir[r] => store'[d] = store[d]
        /\ pc[r] \notin Working => store' = store
    BY <1>1, StepFrame
  <1>3. ASSUME NEW d \in Dirs, Verified(d) PROVE store'[d] = store[d]
    <2>1. \A s \in Runs : ~(dir[s] = d /\ pc[s] \in Working)
      BY <1>3, VerifiedIsLeft DEF Left, Owns
    <2>2. QED
      BY <1>2, <2>1
  <1>4. QED
    BY <1>2, <1>3

\* What a copier past the manifest relies on is a finished capture.
LEMMA CopiersSourceIsVerified ==
    ASSUME CopyInv, NEW c \in Copiers, cpc[c] \in PastManifest
    PROVE  src[c] \in Dirs /\ Verified(src[c])
  <1>1. CopyTypeOK /\ SourceOK(c)
    BY DEF CopyInv
  <1>2. Source(c)[ManifestFile] = expected[c] /\ expected[c] \in Manifests
    BY <1>1 DEF SourceOK, CopyTypeOK
  <1>3. expected[c] \notin {Absent, Partial}
    BY <1>2, FilesAssumption
  <1>4. QED
    BY <1>1, <1>2, <1>3 DEF CopyTypeOK, Verified, Complete, Source
-----------------------------------------------------------------------------
(***************************************************************************)
(* The invariant.                                                          *)
(***************************************************************************)

LEMMA ChainInvInit == ChainInit => ChainInv
  <1> SUFFICES ASSUME ChainInit PROVE ChainInv
    OBVIOUS
  <1>1. CaptureInv
    BY CaptureInvInit DEF ChainInit
  <1>2. CopyInv
    BY <1>1, CopierInvInit DEF ChainInit, CaptureInv, CaptureTypeOK
  <1>3. drifted = {} /\ \A c \in Copiers : DisksDiffer(c)
    BY DEF ChainInit, CopierInit, DisksDiffer, PastBegin, PastVerification
  <1>4. QED
    BY <1>1, <1>2, <1>3 DEF ChainInv

\* A capture run's step leaves the copiers' invariant as it is.
LEMMA CaptureKeepsCopyInv ==
    ASSUME ChainInv, NEW r \in Runs, StepOf(r), CaptureInv',
           UNCHANGED <<drifted, copierVars, targetVars>>
    PROVE  CopyInv'
  <1>1. /\ UNCHANGED <<drifted, cpc, src, root, expected, lines, next, seen, todo>>
        /\ UNCHANGED <<staging, final, inner>>
    BY DEF copierVars, targetVars
  <1>2. CopyTypeOK'
    BY <1>1 DEF ChainInv, CopyInv, CopyTypeOK, CaptureInv, CaptureTypeOK
  <1>3. OneStagingWriter' /\ PublishedProvesItself'
    BY <1>1 DEF ChainInv, CopyInv, OneStagingWriter, Staging, Target, PublishedProvesItself
  <1>4. ASSUME NEW c \in Copiers
        PROVE  LinesOK(c)' /\ SourceOK(c)' /\ ComparedOK(c)'
    <2>1. LinesOK(c) /\ SourceOK(c) /\ ComparedOK(c)
      BY DEF ChainInv, CopyInv
    <2>2. LinesOK(c)'
      BY <1>1, <2>1 DEF LinesOK, ExpectedKeys
    <2>3. CASE cpc[c] \in PastManifest
      <3>1. store'[src[c]] = store[src[c]]
        BY <2>3, CopiersSourceIsVerified, CaptureLeavesVerified DEF ChainInv
      <3>2. QED
        BY <1>1, <2>1, <2>2, <3>1 DEF SourceOK, ComparedOK, Source, Target, Present
    <2>4. CASE cpc[c] \notin PastManifest
      BY <1>1, <2>2, <2>4 DEF SourceOK, ComparedOK, PastManifest, PastListing, PastVerification
    <2>5. QED
      BY <2>3, <2>4
  <1>5. QED
    BY <1>2, <1>3, <1>4 DEF CopyInv

\* The disks are checked first.
LEMMA DisksStayDifferent ==
    ASSUME ChainInv, NEW c \in Copiers, CopierMove(c), NEW b \in Copiers
    PROVE  DisksDiffer(b)'
  <1>1. CopyTypeOK /\ OneStagingWriter /\ DisksDiffer(b)
    BY DEF ChainInv, CopyInv
  <1>2. UNCHANGED <<src, root>> /\ (b # c => cpc'[b] = cpc[b])
    BY <1>1, CopierFrame DEF Untouched
  <1>3. CASE b # c
    BY <1>1, <1>2, <1>3 DEF DisksDiffer
  <1>4. CASE b = c /\ cpc[c] \in PastBegin
    BY <1>1, <1>2, <1>4 DEF DisksDiffer
  <1>5. CASE b = c /\ BeginCopy(c)
    BY <1>1, <1>2, <1>5 DEF DisksDiffer, BeginCopy, MayCopy, CopyGoto, CopyTypeOK,
                            PastBegin, PastVerification
  <1>6. CASE CopierDies(c)
    BY <1>1, <1>2, <1>3, <1>6 DEF DisksDiffer, CopierDies, CopyGoto, CopyTypeOK,
                            PastBegin, PastVerification
  <1>7. BeginCopy(c) \/ CopierDies(c) \/ cpc[c] \in PastBegin
    BY DEF CopierMove, CopierStep, ReadManifest, ReadListing, VerifyLine, CheckTargets,
           MakeStaging, CopyFile, EnumerateFiles, CompareFile, Publish, PublishFails,
           PastBegin, PastVerification
  <1>8. QED
    BY <1>3, <1>4, <1>5, <1>6, <1>7

LEMMA ChainInvStep == ChainInv /\ [ChainNext]_chainVars => ChainInv'
  <1> SUFFICES ASSUME ChainInv, [ChainNext]_chainVars PROVE ChainInv'
    OBVIOUS
  <1>1. CaptureInv /\ CopyInv /\ drifted = {} /\ \A c \in Copiers : DisksDiffer(c)
    BY DEF ChainInv
  <1>2. CASE CaptureMoves
    <2>1. PICK r \in Runs : StepOf(r)
      BY <1>2 DEF CaptureMoves, CaptureNext, StepOf
    <2>2. CaptureInv'
      BY <1>1, <1>2, CaptureInvStep DEF CaptureMoves
    <2>3. CopyInv'
      BY <1>2, <2>1, <2>2, CaptureKeepsCopyInv DEF CaptureMoves
    <2>4. drifted' = {} /\ \A c \in Copiers : DisksDiffer(c)'
      BY <1>1, <1>2 DEF CaptureMoves, copierVars, DisksDiffer
    <2>5. QED
      BY <2>2, <2>3, <2>4 DEF ChainInv
  <1>3. CASE CopyMoves
    <2>1. PICK c \in Copiers : CopierMove(c)
      BY <1>3 DEF CopyMoves, CopierMove
    <2>2. CopyInv'
      BY <1>1, <2>1, CopyInvStep DEF CopyNext, CopierMove
    <2>3. UNCHANGED <<made, store, drifted>>
      BY <1>1, <2>1, CopierFrame DEF CopyInv
    <2>4. CaptureInv'
      BY <1>1, <1>3, <2>3, CaptureInvStep DEF CopyMoves, captureVars
    <2>5. \A b \in Copiers : DisksDiffer(b)'
      BY <2>1, DisksStayDifferent
    <2>6. QED
      BY <1>1, <2>2, <2>3, <2>4, <2>5 DEF ChainInv
  <1>4. CASE UNCHANGED chainVars
    <2>1. UNCHANGED captureVars /\ UNCHANGED copyVars
      BY <1>4 DEF chainVars
    <2>2. CaptureInv' /\ CopyInv'
      BY <1>1, <2>1, CaptureInvStep, CopyInvStep
    <2>3. drifted' = {} /\ \A c \in Copiers : DisksDiffer(c)'
      BY <1>1, <2>1 DEF copyVars, sourceVars, copierVars, DisksDiffer
    <2>4. QED
      BY <2>2, <2>3 DEF ChainInv
  <1>5. QED
    BY <1>2, <1>3, <1>4 DEF ChainNext

\* Both scripts' invariants hold while the two work side by side.
THEOREM ChainInvHolds == ChainSpec => []ChainInv
  BY ChainInvInit, ChainInvStep, PTL DEF ChainSpec
-----------------------------------------------------------------------------
(***************************************************************************)
(* The refinement, step by step.                                           *)
(***************************************************************************)

\* The artifacts of sound files are those of a good capture.
LEMMA SoundIsGood ==
    ASSUME NEW files,
           \A a \in Expected : /\ files[<<"pass1", a>>] \in WellFormed[a]
                               /\ files[<<"pass2", a>>] = files[<<"pass1", a>>],
           ParsedGpt[<<files[<<"pass1", GptPrimary>>],
                       files[<<"pass1", GptBackup>>]>>] \in CompleteGpts
    PROVE  /\ ArtifactsOf(files) \in GoodArtifacts
           /\ \A p \in ExpectedPaths : files[p] \in Bytes
  <1> DEFINE reads == ArtifactsOf(files)
  <1>1. \A a \in Expected : /\ <<"pass1", a>> \in ExpectedPaths
                             /\ <<"pass2", a>> \in ExpectedPaths
    BY DEF ExpectedPaths, Passes
  <1>2. \A p \in ExpectedPaths : reads[p] = files[p]
    BY DEF ArtifactsOf
  <1>3. \A a \in Expected : WellFormed[a] \subseteq Bytes
    BY CaptureAssumption
  <1>4. \A p \in ExpectedPaths : files[p] \in Bytes
    <2> SUFFICES ASSUME NEW p \in ExpectedPaths PROVE files[p] \in Bytes
      OBVIOUS
    <2>1. PICK pass \in Passes, a \in Expected : p = <<pass, a>>
      BY DEF ExpectedPaths
    <2>2. QED
      BY <1>3, <2>1 DEF Passes
  <1>5. reads \in [ExpectedPaths -> Bytes]
    BY <1>4 DEF ArtifactsOf
  <1>6. GptPrimary \in Expected /\ GptBackup \in Expected
    BY CaptureAssumption
  <1> HIDE DEF reads
  <1>7. ParsedGpt[<<reads[<<"pass1", GptPrimary>>], reads[<<"pass1", GptBackup>>]>>] \in CompleteGpts
    BY <1>1, <1>2, <1>6
  <1>8. \A a \in Expected : /\ reads[<<"pass1", a>>] \in WellFormed[a]
                             /\ reads[<<"pass2", a>>] = reads[<<"pass1", a>>]
    BY <1>1, <1>2
  <1>9. reads \in GoodArtifacts
    BY <1>5, <1>7, <1>8 DEF GoodArtifacts
  <1>10. QED
    BY <1>4, <1>9 DEF reads

\* What says that there is no baseline is none.
LEMMA AbsentIsNotGood == Absent \notin GoodArtifacts
  BY ChainAssumption DEF GoodArtifacts

\* A capture run's step makes at most one baseline, or shows nowhere.
LEMMA CaptureRefines ==
    ASSUME ChainInv, ChainInv', CaptureMoves
    PROVE  [Promise!BaselineNext]_(Promise!baselineVars)
  <1>1. CaptureInv /\ VerifiedIsSound'
    BY DEF ChainInv, CaptureInv
  <1>2. PICK r \in Runs : StepOf(r)
    BY DEF CaptureMoves, CaptureNext, StepOf
  <1>3. PICK d \in Dirs : d = dir[r]
    BY <1>1 DEF CaptureInv, CaptureTypeOK
  <1>4. /\ \A x \in Dirs : Verified(x) => store'[x] = store[x]
        /\ \A x \in Dirs : x # d => store'[x] = store[x]
    BY <1>1, <1>2, <1>3, CaptureLeavesVerified
  <1>5. \A x \in Dirs : store'[x] = store[x] => BaselineOf(x)' = BaselineOf(x)
    BY DEF BaselineOf, Verified
  <1>6. final' = final
    BY DEF CaptureMoves, targetVars
  <1>7. CASE BaselineOf(d)' = BaselineOf(d)
    <2>1. \A x \in Dirs : BaselineOf(x)' = BaselineOf(x)
      BY <1>4, <1>5, <1>7
    <2>2. QED
      BY <1>6, <2>1 DEF Promise!baselineVars, BaselineOf
  <1>8. CASE BaselineOf(d)' # BaselineOf(d)
    <2>1. ~Verified(d) /\ BaselineOf(d) = Absent
      BY <1>4, <1>5, <1>8 DEF BaselineOf
    <2>2. Verified(d)' /\ BaselineOf(d)' = ArtifactsOf(store'[d])
      BY <1>8, <2>1 DEF BaselineOf
    <2>3. ArtifactsOf(store'[d]) \in GoodArtifacts
      BY <1>1, <2>2, SoundIsGood DEF VerifiedIsSound, Sound
    <2>4. \A x \in Dirs : x # d => BaselineOf(x)' = BaselineOf(x)
      BY <1>4, <1>5
    <2>5. Promise!Establish(d)
      BY <1>6, <2>1, <2>2, <2>3, <2>4 DEF Promise!Establish, BaselineOf
    <2>6. QED
      BY <2>5 DEF Promise!BaselineNext
  <1>9. QED
    BY <1>7, <1>8

\* What is compared and about to be published has the artifacts of a baseline.
LEMMA ComparedIsBaseline ==
    ASSUME ChainInv, NEW c \in Copiers, cpc[c] = "compare", todo[c] = {}
    PROVE  /\ src[c] \in Dirs /\ Verified(src[c])
           /\ ArtifactsOf(staging[Target(c)]) = ArtifactsOf(store[src[c]])
  <1>1. CaptureInv /\ CopyInv /\ drifted = {}
    BY DEF ChainInv
  <1>2. src[c] \in Dirs /\ Verified(src[c])
    BY <1>1, CopiersSourceIsVerified DEF PastManifest, PastVerification
  <1>3. Sound(src[c])
    BY <1>1, <1>2 DEF CaptureInv, VerifiedIsSound
  <1>4. \A p \in ExpectedPaths : Source(c)[p] \in Bytes
    BY <1>3, SoundIsGood DEF Sound, Source
  <1>5. \A p \in ExpectedPaths : p \in Present(Source(c))
    BY <1>4, FilesAssumption DEF Present, ExpectedPaths, Files, Paths, Artifacts
  <1>6. \A p \in ExpectedPaths : staging[Target(c)][p] = Source(c)[p]
    BY <1>1, <1>5 DEF CopyInv, ComparedOK
  <1>7. QED
    BY <1>2, <1>6 DEF ArtifactsOf, Source

\* A copier's step publishes a copy of a baseline, or shows nowhere.
LEMMA CopyRefines ==
    ASSUME ChainInv, CopyMoves
    PROVE  [Promise!BaselineNext]_(Promise!baselineVars)
  <1>1. CaptureInv /\ CopyInv /\ CopyTypeOK /\ OneStagingWriter
    BY DEF ChainInv, CopyInv
  <1>2. PICK c \in Copiers : CopierMove(c)
    BY DEF CopyMoves, CopierMove
  <1>3. store' = store /\ \A t \in Targets : t # Target(c) => final'[t] = final[t]
    BY <1>1, <1>2, CopierFrame
  <1>4. \A d \in Dirs : BaselineOf(d)' = BaselineOf(d)
    BY <1>3 DEF BaselineOf, Verified
  <1>5. CASE \A t \in Targets : final'[t] = final[t]
    BY <1>4, <1>5 DEF Promise!baselineVars, BaselineOf
  <1>6. CASE \E t \in Targets : final'[t] # final[t]
    <2>1. PICK t \in Targets : final'[t] # final[t]
      BY <1>6
    <2>2. /\ Publish(c) /\ t = Target(c)
          /\ final[t] = Absent /\ final'[t] = staging[t]
      BY <1>1, <1>2, <2>1, FinalFacts
    <2>3. cpc[c] = "compare" /\ todo[c] = {}
      BY <2>2 DEF Publish
    <2>4. /\ src[c] \in Dirs /\ Verified(src[c])
          /\ ArtifactsOf(final'[t]) = ArtifactsOf(store[src[c]])
      BY <2>2, <2>3, ComparedIsBaseline
    <2>5. final'[t] # Absent
      BY <1>1, <2>2, <2>3 DEF OneStagingWriter, Staging
    <2>6. PICK place \in Roots, d \in Dirs :
            place = root[c] /\ d = src[c] /\ t = <<place, d>>
      BY <1>1, <2>2 DEF CopyTypeOK, Target
    <2>7. DiskOf[place] # DiskOf[d]
      BY <2>3, <2>6 DEF ChainInv, DisksDiffer, PastBegin, PastVerification
    <2>8. BaselineOf(d) = ArtifactsOf(store[d]) /\ BaselineOf(d) # Absent
      <3>1. Sound(d)
        BY <1>1, <2>4, <2>6 DEF CaptureInv, VerifiedIsSound
      <3>2. QED
        BY <2>4, <2>6, <3>1, SoundIsGood, AbsentIsNotGood DEF Sound, BaselineOf
    <2>9. OfflineOf(t) = Absent /\ OfflineOf(t)' = BaselineOf(d)
      BY <2>2, <2>4, <2>5, <2>6, <2>8 DEF OfflineOf
    <2>10. \A u \in Targets : u # t => OfflineOf(u)' = OfflineOf(u)
      BY <1>3, <2>2 DEF OfflineOf
    <2>11. [u \in Targets |-> OfflineOf(u)'] =
             [[u \in Targets |-> OfflineOf(u)] EXCEPT ![<<place, d>>] = BaselineOf(d)]
      BY <2>6, <2>9, <2>10
    <2>12. Promise!TakeOffline(place, d)
      BY <1>4, <2>6, <2>7, <2>8, <2>9, <2>11 DEF Promise!TakeOffline, BaselineOf, OfflineOf
    <2>13. QED
      BY <2>12 DEF Promise!BaselineNext
  <1>7. QED
    BY <1>5, <1>6
-----------------------------------------------------------------------------
(***************************************************************************)
(* Theorems.                                                               *)
(***************************************************************************)

\* A copier past its checks works on a finished capture: the manifest it has
\* read is written last, by a run that owns the directory alone.
THEOREM CopiersMeetFinishedCaptures == ChainSpec => []CopiersWorkOnFinishedCaptures
  <1>1. ChainInv => CopiersWorkOnFinishedCaptures
    BY CopiersSourceIsVerified, VerifiedIsLeft
      DEF ChainInv, CopiersWorkOnFinishedCaptures, Left, PastManifest
  <1>2. QED
    BY <1>1, ChainInvHolds, PTL

\* Both scripts together, overlapping, retried and killed anywhere, implement
\* the promise: a baseline is established once and whole, and a second copy
\* appears at once, elsewhere, with exactly what a baseline holds.
THEOREM ChainKeepsThePromise == ChainSpec => KeepsThePromise
  <1>1. ChainInit => Promise!BaselineInit
    <2> SUFFICES ASSUME ChainInit PROVE Promise!BaselineInit
      OBVIOUS
    <2>1. \A d \in Dirs : ~Verified(d)
      BY FileFacts DEF ChainInit, CaptureInit, Verified, Complete, NoFiles
    <2>2. \A t \in Targets : final[t] = Absent
      BY DEF ChainInit, CopierInit
    <2>3. QED
      BY <2>1, <2>2 DEF Promise!BaselineInit, Targets
  <1>2. ChainInv /\ ChainInv' /\ [ChainNext]_chainVars
          => [Promise!BaselineNext]_(Promise!baselineVars)
    <2> SUFFICES ASSUME ChainInv, ChainInv', [ChainNext]_chainVars
                 PROVE  [Promise!BaselineNext]_(Promise!baselineVars)
      OBVIOUS
    <2>1. CASE UNCHANGED chainVars
      <3>1. store' = store /\ final' = final
        BY <2>1 DEF chainVars, captureVars, copyVars, targetVars
      <3>2. QED
        BY <3>1 DEF Promise!baselineVars, Verified
    <2>2. QED
      BY <2>1, CaptureRefines, CopyRefines DEF ChainNext
  <1>3. QED
    BY <1>1, <1>2, ChainInvHolds, PTL DEF ChainSpec, KeepsThePromise, Promise!BaselineSpec

\* At any time a second copy is on another disk than the baseline it was made
\* from, and the two hold the same artifacts.
THEOREM CopiesStayBaselines == ChainSpec => []Promise!CopiesAreBaselines
  <1>1. Promise!BaselineInit => Promise!CopiesAreBaselines
    BY DEF Promise!BaselineInit, Promise!CopiesAreBaselines, Targets
  <1>2. Promise!CopiesAreBaselines /\ [Promise!BaselineNext]_(Promise!baselineVars)
          => Promise!CopiesAreBaselines'
    <2> DEFINE baseline == [d \in Dirs |-> BaselineOf(d)]
               offline == [t \in Targets |-> OfflineOf(t)]
    <2> SUFFICES ASSUME Promise!CopiesAreBaselines,
                        [Promise!BaselineNext]_(Promise!baselineVars),
                        NEW place \in Roots, NEW d \in Dirs,
                        OfflineOf(<<place, d>>)' # Absent
                 PROVE  /\ OfflineOf(<<place, d>>)' = BaselineOf(d)'
                        /\ DiskOf[place] # DiskOf[d]
      BY DEF Promise!CopiesAreBaselines, OfflineOf, BaselineOf, Targets
    <2>1. OfflineOf(<<place, d>>) # Absent =>
            OfflineOf(<<place, d>>) = BaselineOf(d) /\ DiskOf[place] # DiskOf[d]
      BY DEF Promise!CopiesAreBaselines, OfflineOf, BaselineOf, Targets
    <2>2. CASE UNCHANGED Promise!baselineVars
      <3>1. baseline' = baseline /\ offline' = offline
        BY <2>2 DEF Promise!baselineVars, BaselineOf, OfflineOf
      <3>2. BaselineOf(d)' = BaselineOf(d) /\ OfflineOf(<<place, d>>)' = OfflineOf(<<place, d>>)
        <4> HIDE DEF BaselineOf, OfflineOf
        <4>1. baseline[d] = BaselineOf(d) /\ baseline'[d] = BaselineOf(d)'
          OBVIOUS
        <4>2. /\ offline[<<place, d>>] = OfflineOf(<<place, d>>)
              /\ offline'[<<place, d>>] = OfflineOf(<<place, d>>)'
          BY DEF Targets
        <4>3. QED
          BY <3>1, <4>1, <4>2
      <3>3. QED
        BY <2>1, <3>2
    <2>3. ASSUME NEW e \in Dirs, Promise!Establish(e)
          PROVE  /\ OfflineOf(<<place, d>>)' = BaselineOf(d)'
                 /\ DiskOf[place] # DiskOf[d]
      <3>1. /\ baseline[e] = Absent
            /\ \E contents \in GoodArtifacts : baseline' = [baseline EXCEPT ![e] = contents]
            /\ offline' = offline
        BY <2>3 DEF Promise!Establish, BaselineOf, OfflineOf
      <3>2. QED
        BY <2>1, <3>1 DEF Targets
    <2>4. ASSUME NEW p \in Roots, NEW e \in Dirs, Promise!TakeOffline(p, e)
          PROVE  /\ OfflineOf(<<place, d>>)' = BaselineOf(d)'
                 /\ DiskOf[place] # DiskOf[d]
      <3>1. /\ DiskOf[p] # DiskOf[e]
            /\ offline' = [offline EXCEPT ![<<p, e>>] = baseline[e]]
            /\ baseline' = baseline
        BY <2>4 DEF Promise!TakeOffline, BaselineOf, OfflineOf
      <3>2. /\ baseline[d] = BaselineOf(d) /\ baseline'[d] = BaselineOf(d)'
            /\ offline[<<place, d>>] = OfflineOf(<<place, d>>)
            /\ offline'[<<place, d>>] = OfflineOf(<<place, d>>)'
        <4> HIDE DEF BaselineOf, OfflineOf
        <4> QED
          BY DEF Targets
      <3>3. BaselineOf(d)' = BaselineOf(d)
        <4> HIDE DEF baseline
        <4> QED
          BY <3>1, <3>2
      <3>4. CASE p = place /\ e = d
        <4>1. OfflineOf(<<place, d>>)' = BaselineOf(d)
          <5>1. <<place, d>> \in DOMAIN offline
            BY DEF Targets
          <5> HIDE DEF baseline, offline
          <5> QED
            BY <3>1, <3>2, <3>4, <5>1
        <4>2. QED
          BY <3>1, <3>3, <3>4, <4>1
      <3>5. CASE ~(p = place /\ e = d)
        <4>1. OfflineOf(<<place, d>>)' = OfflineOf(<<place, d>>)
          <5>1. <<place, d>> # <<p, e>> /\ <<place, d>> \in DOMAIN offline
            BY <3>5 DEF Targets
          <5> HIDE DEF baseline, offline
          <5> QED
            BY <3>1, <3>2, <5>1
        <4>2. QED
          BY <2>1, <3>3, <4>1
      <3>6. QED
        BY <3>4, <3>5
    <2>5. QED
      BY <2>2, <2>3, <2>4 DEF Promise!BaselineNext
  <1>3. QED
    BY <1>1, <1>2, ChainKeepsThePromise, PTL DEF KeepsThePromise, Promise!BaselineSpec

\* A capture that no run works in any more is not touched by later runs, nor by
\* any copier that reads it.
THEOREM LeftCapturesStayInChain == ChainSpec => LeftStaysAsLeft
  <1>1. ChainInv /\ [ChainNext]_chainVars
          => [\A d \in Dirs : Left(d) => Left(d)' /\ store'[d] = store[d]]_captureVars
    <2> SUFFICES ASSUME ChainInv, ChainNext, NEW d \in Dirs, Left(d)
                 PROVE  UNCHANGED captureVars \/ (Left(d)' /\ store'[d] = store[d])
      BY DEF chainVars
    <2>1. CASE CaptureMoves
      BY <2>1, CaptureLeavesLeft DEF ChainInv, CaptureMoves
    <2>2. CASE CopyMoves
      <3>1. PICK c \in Copiers : CopierMove(c)
        BY <2>2 DEF CopyMoves, CopierMove
      <3>2. UNCHANGED captureVars
        BY <2>2, <3>1, CopierFrame DEF ChainInv, CopyInv, CopyMoves, captureVars
      <3>3. QED
        BY <3>2
    <2>3. QED
      BY <2>1, <2>2 DEF ChainNext
  <1>2. QED
    BY <1>1, ChainInvHolds, PTL DEF ChainSpec, LeftStaysAsLeft
=============================================================================
