----------------------- MODULE RecoveryCaptureProofs -----------------------
(***************************************************************************)
(* Proofs about RecoveryCapture, for any artifacts, contents, plan, runs   *)
(* and directories.                                                        *)
(*                                                                         *)
(* That a complete manifest means a sound capture is not inductive: it     *)
(* needs what each control point knows of the run's own directory, that    *)
(* nobody else works in that directory, and that a directory that does not *)
(* exist yet is empty.  Type correctness needs the same invariant: the     *)
(* listing and the manifest have their types only because the artifacts    *)
(* were found to be there.                                                 *)
(***************************************************************************)
EXTENDS RecoveryCapture, SequenceTheorems, TLAPS

PastPass1 == {"pass2", "compare", "sums", "sumsOpen", "manifest", "manifestOpen"}

PastPass2 == PastPass1 \ {"pass2"}

PastCompare == PastPass2 \ {"compare"}

\* What run r knows of its directory at its control point.
StageOK(r) ==
    /\ pc[r] \in Working => dir[r] \in made
    /\ pc[r] \in Working \ {"manifestOpen"} => store[dir[r]][ManifestFile] = Absent
    /\ pc[r] = "manifestOpen" => store[dir[r]][ManifestFile] = Partial
    /\ pc[r] \in PastPass1 => PassIsValid(dir[r], "pass1")
    /\ pc[r] \in PastPass2 => PassIsValid(dir[r], "pass2")
    /\ pc[r] \in PastCompare => ReadsAgree(dir[r]) /\ digests[r] = ListingOf(dir[r])
    /\ pc[r] \in {"manifest", "manifestOpen"} => store[dir[r]][SumsFile] = digests[r]

\* A rejected directory is not sound, and nobody works in it any more.
RejectionStands ==
    \A r \in Runs : pc[r] = "rejected" =>
        /\ dir[r] \in made
        /\ \A s \in Runs : ~Owns(s, dir[r])
        /\ ~Sound(dir[r])

UnmadeIsEmpty == \A d \in Dirs \ made : store[d] = NoFiles

CaptureInv ==
    /\ CaptureTypeOK
    /\ ExclusiveOwner
    /\ UnmadeIsEmpty
    /\ \A r \in Runs : StageOK(r)
    /\ VerifiedIsSound
    /\ RejectionStands

\* A step of run r, whoever takes it.
StepOf(r) == CheckInputs(r) \/ ScriptStep(r) \/ MtkStep(r) \/ Crash(r)
-----------------------------------------------------------------------------
(***************************************************************************)
(* Files and their contents.                                               *)
(***************************************************************************)

\* Artifact files and metadata files are different files.
LEMMA FileFacts ==
    /\ \A pass \in Passes, a \in Artifacts : <<pass, a>> \in Paths
    /\ \A p \in Paths : p \in Files /\ p # SumsFile /\ p # ManifestFile
    /\ SumsFile \in Files /\ ManifestFile \in Files /\ SumsFile # ManifestFile
    /\ Expected \subseteq Artifacts /\ Stray \subseteq Artifacts
    /\ "pass1" \in Passes /\ "pass2" \in Passes
  <1>1. \A p \in Paths : p[1] \in Passes
    BY DEF Paths
  <1>2. SumsFile[1] \notin Passes /\ ManifestFile[1] \notin Passes
    BY DEF SumsFile, ManifestFile, Passes
  <1>3. SumsFile # ManifestFile
    BY DEF SumsFile, ManifestFile
  <1>4. QED
    BY <1>1, <1>2, <1>3 DEF Files, Paths, MetadataFiles, Artifacts, Passes

\* WriteFile changes one file of the run's directory.
LEMMA WriteFileFacts ==
    ASSUME StoreTypeOK, NEW r \in Runs, dir[r] \in Dirs,
           NEW file \in Files, NEW contents, WriteFile(r, file, contents)
    PROVE  /\ store'[dir[r]][file] = contents
           /\ \A f \in Files : f # file => store'[dir[r]][f] = store[dir[r]][f]
           /\ \A d \in Dirs : d # dir[r] => store'[d] = store[d]
  <1> DEFINE old == store[dir[r]]
             new == [old EXCEPT ![file] = contents]
  <1>1. store' = [store EXCEPT ![dir[r]] = new]
    BY DEF WriteFile
  <1>2. DOMAIN store = Dirs /\ DOMAIN old = Files
    BY DEF StoreTypeOK, IsStore, Trees
  <1>3. store'[dir[r]] = new /\ \A d \in Dirs : d # dir[r] => store'[d] = store[d]
    <2> HIDE DEF new
    <2> QED BY <1>1, <1>2
  <1>4. new[file] = contents /\ \A f \in Files : f # file => new[f] = old[f]
    <2> HIDE DEF old
    <2> QED BY <1>2
  <1>5. QED
    BY <1>3, <1>4

\* ... and keeps the store well typed when the contents fit the file.
LEMMA WriteFileType ==
    ASSUME StoreTypeOK, NEW r \in Runs, dir[r] \in Dirs,
           NEW file \in Files, NEW contents, WriteFile(r, file, contents),
           made' \in SUBSET Dirs,
           \/ file \in Paths /\ contents \in Bytes
           \/ file = SumsFile /\ contents \in Listings \cup {Partial}
           \/ file = ManifestFile /\ contents \in Manifests \cup {Partial}
    PROVE  StoreTypeOK'
  <1> DEFINE Contents == Bytes \cup {Absent, Partial} \cup Manifests \cup Listings
             new == [store[dir[r]] EXCEPT ![file] = contents]
  <1>1. store' = [store EXCEPT ![dir[r]] = new]
    BY DEF WriteFile
  <1>2. store \in [Dirs -> [Files -> Contents]]
    BY DEF StoreTypeOK, IsStore, Trees
  <1>3. new \in [Files -> Contents]
    <2>1. contents \in Contents
      OBVIOUS
    <2>2. store[dir[r]] \in [Files -> Contents]
      BY <1>2
    <2> HIDE DEF Contents
    <2> QED BY <2>1, <2>2
  <1>4. store' \in [Dirs -> [Files -> Contents]]
    <2> HIDE DEF new, Contents
    <2> QED BY <1>1, <1>2, <1>3
  <1>5. ASSUME NEW d \in Dirs
        PROVE  /\ \A p \in Paths : store'[d][p] \in Bytes \cup {Absent}
               /\ store'[d][SumsFile] \in Listings \cup {Absent, Partial}
               /\ store'[d][ManifestFile] \in Manifests \cup {Absent, Partial}
    <2>1. /\ \A p \in Paths : store[d][p] \in Bytes \cup {Absent}
          /\ store[d][SumsFile] \in Listings \cup {Absent, Partial}
          /\ store[d][ManifestFile] \in Manifests \cup {Absent, Partial}
      BY DEF StoreTypeOK, IsStore
    <2>2. CASE d # dir[r]
      <3>1. store'[d] = store[d]
        BY <2>2, WriteFileFacts
      <3>2. QED
        BY <2>1, <3>1
    <2>3. CASE d = dir[r]
      <3>1. store'[d][file] = contents /\ \A f \in Files : f # file => store'[d][f] = store[d][f]
        BY <2>3, WriteFileFacts
      <3>2. QED
        BY <2>1, <3>1, FileFacts
    <2>4. QED
      BY <2>2, <2>3
  <1>6. QED
    BY <1>4, <1>5 DEF StoreTypeOK, IsStore, Trees

\* A command of mtkclient changes artifact files of the run's directory.
LEMMA WriteOutputsFacts ==
    ASSUME StoreTypeOK, NEW r \in Runs, dir[r] \in Dirs,
           NEW command \in [pass : Passes, outputs : SUBSET Expected],
           NEW contents \in [command.outputs -> Bytes \cup {Absent}],
           WriteOutputs(r, command, contents),
           made' \in SUBSET Dirs
    PROVE  /\ StoreTypeOK'
           /\ \A d \in Dirs : d # dir[r] => store'[d] = store[d]
           /\ \A f \in MetadataFiles : store'[dir[r]][f] = store[dir[r]][f]
  <1> DEFINE Contents == Bytes \cup {Absent, Partial} \cup Manifests \cup Listings
             Out == {command.pass} \X command.outputs
             new == [f \in Files |-> IF f \in Out THEN contents[f[2]] ELSE store[dir[r]][f]]
  <1>1. store' = [store EXCEPT ![dir[r]] = new]
    BY DEF WriteOutputs
  <1>2. store \in [Dirs -> [Files -> Contents]]
    BY DEF StoreTypeOK, IsStore, Trees
  <1>3. /\ command.pass \in Passes /\ command.outputs \subseteq Expected
        /\ \A f \in Out : f \in Paths /\ contents[f[2]] \in Bytes \cup {Absent}
    BY FileFacts DEF Paths
  <1>4. new \in [Files -> Contents]
    <2>1. \A f \in Files : store[dir[r]][f] \in Contents
      <3> HIDE DEF Contents
      <3> QED BY <1>2
    <2>2. \A f \in Out : contents[f[2]] \in Contents
      BY <1>3
    <2> HIDE DEF Contents, Out
    <2> QED BY <2>1, <2>2
  <1>5. store'[dir[r]] = new /\ \A d \in Dirs : d # dir[r] => store'[d] = store[d]
    <2> HIDE DEF new, Contents
    <2> QED BY <1>1, <1>2
  <1>6. store' \in [Dirs -> [Files -> Contents]]
    <2> HIDE DEF new, Contents
    <2> QED BY <1>1, <1>2, <1>4
  <1>7. \A f \in Files : new[f] = IF f \in Out THEN contents[f[2]] ELSE store[dir[r]][f]
    OBVIOUS
  <1>8. \A f \in MetadataFiles : f \in Files /\ f \notin Out
    BY <1>3, FileFacts DEF MetadataFiles
  <1>9. \A f \in MetadataFiles : new[f] = store[dir[r]][f]
    <2> HIDE DEF new, Out
    <2> QED BY <1>7, <1>8
  <1>10. ASSUME NEW d \in Dirs
         PROVE  /\ \A p \in Paths : store'[d][p] \in Bytes \cup {Absent}
                /\ store'[d][SumsFile] \in Listings \cup {Absent, Partial}
                /\ store'[d][ManifestFile] \in Manifests \cup {Absent, Partial}
    <2>1. /\ \A p \in Paths : store[d][p] \in Bytes \cup {Absent}
          /\ store[d][SumsFile] \in Listings \cup {Absent, Partial}
          /\ store[d][ManifestFile] \in Manifests \cup {Absent, Partial}
      BY DEF StoreTypeOK, IsStore
    <2>2. CASE d # dir[r]
      <3>1. store'[d] = store[d]
        BY <1>5, <2>2
      <3>2. QED
        BY <2>1, <3>1
    <2>3. CASE d = dir[r]
      <3>1. \A p \in Paths : new[p] \in Bytes \cup {Absent}
        <4> HIDE DEF new, Out
        <4> QED BY <1>3, <1>7, <2>1, <2>3, FileFacts
      <3>2. SumsFile \in MetadataFiles /\ ManifestFile \in MetadataFiles
        BY DEF MetadataFiles
      <3>3. QED
        <4> HIDE DEF new
        <4> QED BY <1>5, <1>9, <2>1, <2>3, <3>1, <3>2
    <2>4. QED
      BY <2>2, <2>3
  <1>11. StoreTypeOK'
    BY <1>6, <1>10 DEF StoreTypeOK, IsStore, Trees
  <1>12. QED
    <2> HIDE DEF new
    <2> QED BY <1>5, <1>9, <1>11
-----------------------------------------------------------------------------
(***************************************************************************)
(* What the checks of a pass establish.                                    *)
(***************************************************************************)

\* The checks of a pass and what they say depend on the artifact files only.
LEMMA SamePaths ==
    ASSUME NEW d \in Dirs, \A p \in Paths : store'[d][p] = store[d][p]
    PROVE  /\ \A pass \in Passes : PassIsValid(d, pass)' <=> PassIsValid(d, pass)
           /\ ReadsAgree(d)' <=> ReadsAgree(d)
           /\ ListingOf(d)' = ListingOf(d)
           /\ Sound(d)' <=> Sound(d)
  <1>1. \A pass \in Passes, a \in Artifacts : store'[d][<<pass, a>>] = store[d][<<pass, a>>]
    BY FileFacts
  <1>2. GptPrimary \in Artifacts /\ GptBackup \in Artifacts
    BY CaptureAssumption, FileFacts
  <1>3. ASSUME NEW pass \in Passes PROVE PassIsValid(d, pass)' <=> PassIsValid(d, pass)
    <2>1. /\ MissingArtifacts(d, pass)' = MissingArtifacts(d, pass)
          /\ UnexpectedArtifacts(d, pass)' = UnexpectedArtifacts(d, pass)
          /\ IllFormedArtifacts(d, pass)' = IllFormedArtifacts(d, pass)
      BY <1>1, FileFacts DEF MissingArtifacts, UnexpectedArtifacts, IllFormedArtifacts
    <2>2. GptOf(d, pass)' = GptOf(d, pass)
      BY <1>1, <1>2 DEF GptOf
    <2>3. QED
      BY <2>1, <2>2 DEF PassIsValid
  <1>4. ReadsAgree(d)' <=> ReadsAgree(d)
    BY <1>1, FileFacts DEF ReadsAgree
  <1>5. ListingOf(d)' = ListingOf(d)
    <2>1. \A i \in DOMAIN LineOrder : LineOrder[i] \in Paths
      BY LineOrderAssumption, FileFacts DEF ExpectedPaths, Paths
    <2>2. QED
      BY <2>1 DEF ListingOf
  <1>6. Sound(d)' <=> Sound(d)
    <2>1. \A a \in Expected : /\ store'[d][<<"pass1", a>>] = store[d][<<"pass1", a>>]
                              /\ store'[d][<<"pass2", a>>] = store[d][<<"pass2", a>>]
      BY <1>1, FileFacts
    <2>2. \A p \in Passes \X Stray : store'[d][p] = store[d][p]
      BY FileFacts DEF Paths
    <2>3. /\ store'[d][<<"pass1", GptPrimary>>] = store[d][<<"pass1", GptPrimary>>]
          /\ store'[d][<<"pass1", GptBackup>>] = store[d][<<"pass1", GptBackup>>]
      BY <1>1, <1>2, FileFacts
    <2>4. QED
      BY <2>1, <2>2, <2>3 DEF Sound
  <1>7. QED
    BY <1>3, <1>4, <1>5, <1>6

\* A valid pass holds every expected artifact, well formed, and no other.
LEMMA ValidPassFacts ==
    ASSUME StoreTypeOK, NEW d \in Dirs, NEW pass \in Passes, PassIsValid(d, pass)
    PROVE  /\ \A a \in Expected : /\ store[d][<<pass, a>>] \in Bytes
                                   /\ store[d][<<pass, a>>] \in WellFormed[a]
           /\ \A a \in Stray : store[d][<<pass, a>>] = Absent
           /\ GptOf(d, pass) \in CompleteGpts
  <1>1. ASSUME NEW a \in Expected
        PROVE  store[d][<<pass, a>>] \in Bytes /\ store[d][<<pass, a>>] \in WellFormed[a]
    <2>1. a \notin MissingArtifacts(d, pass) /\ a \notin IllFormedArtifacts(d, pass)
      BY DEF PassIsValid
    <2>2. store[d][<<pass, a>>] # Absent /\ store[d][<<pass, a>>] \in WellFormed[a]
      BY <2>1 DEF MissingArtifacts, IllFormedArtifacts
    <2>3. QED
      BY <2>2, FileFacts DEF StoreTypeOK, IsStore
  <1>2. \A a \in Stray : store[d][<<pass, a>>] = Absent
    BY DEF PassIsValid, UnexpectedArtifacts
  <1>3. QED
    BY <1>1, <1>2 DEF PassIsValid

\* Two valid passes that agree are a sound capture.
LEMMA ValidAndEqualIsSound ==
    ASSUME StoreTypeOK, NEW d \in Dirs,
           PassIsValid(d, "pass1"), PassIsValid(d, "pass2"), ReadsAgree(d)
    PROVE  Sound(d)
  <1>1. "pass1" \in Passes /\ "pass2" \in Passes
    BY DEF Passes
  <1>2. \A a \in Expected : /\ store[d][<<"pass1", a>>] \in WellFormed[a]
                             /\ store[d][<<"pass2", a>>] = store[d][<<"pass1", a>>]
    BY <1>1, ValidPassFacts DEF ReadsAgree
  <1>3. \A pass \in Passes, a \in Stray : store[d][<<pass, a>>] = Absent
    BY <1>1, ValidPassFacts DEF Passes
  <1>4. \A p \in Passes \X Stray : store[d][p] = Absent
    BY <1>3
  <1>5. GptOf(d, "pass1") \in CompleteGpts
    BY <1>1, ValidPassFacts
  <1>6. QED
    BY <1>2, <1>4, <1>5 DEF Sound, GptOf

\* A sound capture passes every check.
LEMMA SoundPassesChecks ==
    ASSUME NEW d \in Dirs, Sound(d)
    PROVE  /\ PassIsValid(d, "pass1") /\ PassIsValid(d, "pass2")
           /\ GptOf(d, "pass1") = GptOf(d, "pass2")
           /\ ReadsAgree(d)
  <1>1. \A a \in Expected : /\ store[d][<<"pass1", a>>] \in WellFormed[a]
                             /\ store[d][<<"pass2", a>>] = store[d][<<"pass1", a>>]
                             /\ WellFormed[a] \subseteq Bytes
    BY CaptureAssumption DEF Sound
  <1>2. Absent \notin Bytes
    BY FilesAssumption
  <1>3. \A pass \in Passes, a \in Stray : store[d][<<pass, a>>] = Absent
    BY DEF Sound
  <1>4. GptOf(d, "pass1") = GptOf(d, "pass2")
    BY <1>1, CaptureAssumption DEF GptOf
  <1>5. GptOf(d, "pass1") \in CompleteGpts
    BY DEF Sound, GptOf
  <1>6. ASSUME NEW pass \in Passes PROVE PassIsValid(d, pass)
    <2>1. \A a \in Expected : store[d][<<pass, a>>] \in WellFormed[a] /\ store[d][<<pass, a>>] # Absent
      BY <1>1, <1>2 DEF Passes
    <2>2. MissingArtifacts(d, pass) = {} /\ IllFormedArtifacts(d, pass) = {}
      BY <2>1 DEF MissingArtifacts, IllFormedArtifacts
    <2>3. UnexpectedArtifacts(d, pass) = {}
      BY <1>3 DEF UnexpectedArtifacts
    <2>4. GptOf(d, pass) \in CompleteGpts
      BY <1>4, <1>5 DEF Passes
    <2>5. QED
      BY <2>2, <2>3, <2>4 DEF PassIsValid
  <1>7. ReadsAgree(d)
    BY <1>1 DEF ReadsAgree
  <1>8. QED
    BY <1>4, <1>6, <1>7, FileFacts

\* The listing of two valid passes has one line for every expected path.
LEMMA ListingFacts ==
    ASSUME StoreTypeOK, NEW d \in Dirs, PassIsValid(d, "pass1"), PassIsValid(d, "pass2")
    PROVE  /\ ListingOf(d) \in Listings
           /\ Len(ListingOf(d)) = Len(LineOrder)
           /\ \A p \in ExpectedPaths :
                \E i \in DOMAIN ListingOf(d) : ListingOf(d)[i] = [path |-> p, hash |-> store[d][p]]
  <1>1. /\ Len(LineOrder) \in Nat
        /\ DOMAIN LineOrder = 1 .. Len(LineOrder)
        /\ \A i \in 1 .. Len(LineOrder) : LineOrder[i] \in ExpectedPaths
    BY LineOrderAssumption
  <1>2. \A p \in ExpectedPaths : store[d][p] \in Bytes /\ p \in Paths
    <2>1. \A pass \in Passes : PassIsValid(d, pass)
      BY DEF Passes
    <2>2. \A pass \in Passes, a \in Expected : store[d][<<pass, a>>] \in Bytes
      BY <2>1, ValidPassFacts
    <2>3. QED
      BY <2>2, FileFacts DEF ExpectedPaths
  <1> DEFINE line(i) == [path |-> LineOrder[i], hash |-> store[d][LineOrder[i]]]
  <1>3. ListingOf(d) = [i \in 1 .. Len(LineOrder) |-> line(i)]
    BY <1>1 DEF ListingOf
  <1>4. \A i \in 1 .. Len(LineOrder) : line(i) \in Lines
    BY <1>1, <1>2 DEF Lines
  <1>5. ListingOf(d) \in [1 .. Len(LineOrder) -> Lines]
    <2> HIDE DEF line
    <2> QED BY <1>3, <1>4
  <1>6. ListingOf(d) \in Listings /\ Len(ListingOf(d)) = Len(LineOrder)
    BY <1>1, <1>5, IsASeq, LenProperties DEF Listings
  <1>7. ASSUME NEW p \in ExpectedPaths
        PROVE  \E i \in DOMAIN ListingOf(d) : ListingOf(d)[i] = [path |-> p, hash |-> store[d][p]]
    <2>1. PICK i \in 1 .. Len(LineOrder) : LineOrder[i] = p
      BY <1>1, LineOrderAssumption
    <2>2. QED
      BY <1>3, <2>1
  <1>8. QED
    BY <1>6, <1>7
-----------------------------------------------------------------------------
(***************************************************************************)
(* What a step of one run leaves alone.                                    *)
(***************************************************************************)

ControlPoints == Working \cup Finished \cup {"start", "mkdir"}

\* Goto moves one run.
LEMMA GotoFacts ==
    ASSUME CaptureTypeOK, NEW r \in Runs, NEW to \in ControlPoints, Goto(r, to)
    PROVE  /\ pc'[r] = to
           /\ \A s \in Runs : s # r => pc'[s] = pc[s]
           /\ pc' \in [Runs -> ControlPoints]
  BY DEF Goto, CaptureTypeOK, ControlPoints

\* A command of the plan writes expected artifacts of one pass.
LEMMA PlanType ==
    \A i \in DOMAIN Plan : Plan[i] \in [pass : Passes, outputs : SUBSET Expected]
  <1>1. Len(Commands) \in Nat /\ \A i \in 1 .. Len(Commands) : Commands[i] \in SUBSET Expected
    BY CaptureAssumption
  <1> SUFFICES ASSUME NEW i \in DOMAIN Plan
               PROVE  Plan[i] \in [pass : Passes, outputs : SUBSET Expected]
    OBVIOUS
  <1>2. i \in 1 .. 2 * Len(Commands)
    BY DEF Plan
  <1>3. (IF i <= Len(Commands) THEN i ELSE i - Len(Commands)) \in 1 .. Len(Commands)
    BY <1>1, <1>2
  <1>4. Commands[IF i <= Len(Commands) THEN i ELSE i - Len(Commands)] \in SUBSET Expected
    BY <1>1, <1>3
  <1>5. (IF i <= Len(Commands) THEN "pass1" ELSE "pass2") \in Passes
    BY DEF Passes
  <1>6. QED
    BY <1>2, <1>4, <1>5 DEF Plan

\* What mtkclient does with a command, whether it then goes on or fails.
LEMMA CommandFacts ==
    ASSUME CaptureTypeOK, NEW r \in Runs, cursor[r] \in DOMAIN Plan, made' = made,
           \E contents \in [Plan[cursor[r]].outputs -> Bytes \cup {Absent}] :
              WriteOutputs(r, Plan[cursor[r]], contents)
    PROVE  /\ StoreTypeOK'
           /\ \A d \in Dirs : d # dir[r] => store'[d] = store[d]
           /\ \A f \in MetadataFiles : store'[dir[r]][f] = store[dir[r]][f]
  BY PlanType, WriteOutputsFacts DEF CaptureTypeOK, StoreTypeOK, IsStore

\* A step of run r moves no other run and touches no other directory; and a
\* run gets a directory of its own only by creating it.
LEMMA StepFrame ==
    ASSUME CaptureTypeOK, NEW r \in Runs, StepOf(r)
    PROVE  /\ dir' = dir
           /\ \A s \in Runs : s # r => pc'[s] = pc[s] /\ digests'[s] = digests[s]
           /\ \A d \in Dirs : d # dir[r] => store'[d] = store[d]
           /\ \/ /\ pc[r] \in Working
                 /\ made' = made
              \/ /\ pc[r] = "mkdir" /\ pc'[r] = "setup"
                 /\ dir[r] \notin made /\ made' = made \cup {dir[r]}
                 /\ store' = store
              \/ /\ pc[r] \in {"start", "mkdir"}
                 /\ pc'[r] \notin Working /\ pc'[r] # "rejected"
                 /\ made' = made
                 /\ store' = store
  <1> DEFINE Frame ==
           /\ dir' = dir
           /\ \A s \in Runs : s # r => pc'[s] = pc[s] /\ digests'[s] = digests[s]
           /\ \A d \in Dirs : d # dir[r] => store'[d] = store[d]
  <1>0. StoreTypeOK /\ dir[r] \in Dirs
    BY DEF CaptureTypeOK
  <1>1. ASSUME CheckInputs(r)
        PROVE  Frame /\ pc[r] = "start" /\ pc'[r] \notin Working /\ pc'[r] # "rejected"
                 /\ made' = made /\ store' = store
    BY <1>1 DEF CheckInputs, Goto, Working, CaptureTypeOK
  <1>2. ASSUME MakeDir(r)
        PROVE  Frame /\ pc[r] = "mkdir" /\ pc'[r] = "setup" /\ dir[r] \notin made
                 /\ made' = made \cup {dir[r]} /\ store' = store
    BY <1>2 DEF MakeDir, MayCreate, Goto, CaptureTypeOK
  <1>3. ASSUME MakeDirFails(r)
        PROVE  Frame /\ pc[r] = "mkdir" /\ pc'[r] \notin Working /\ pc'[r] # "rejected"
                 /\ made' = made /\ store' = store
    BY <1>3 DEF MakeDirFails, Goto, Working, CaptureTypeOK
  <1>4. ASSUME Crash(r)
        PROVE  Frame /\ pc[r] \in Working \cup {"start", "mkdir"} /\ pc'[r] = "dead"
                 /\ made' = made /\ store' = store
    BY <1>4 DEF Crash, Goto, CaptureTypeOK
  <1>5. ASSUME StartMtk(r) \/ MtkExits(r) \/ ValidatePass1(r) \/ ValidatePass2(r)
        PROVE  Frame /\ pc[r] \in Working /\ made' = made
    BY <1>5 DEF StartMtk, MtkExits, ValidatePass1, ValidatePass2, ValidatePass, Goto,
                Working, CaptureTypeOK
  <1>6. ASSUME Compare(r)
        PROVE  Frame /\ pc[r] \in Working /\ made' = made
    BY <1>6 DEF Compare, Goto, Working, CaptureTypeOK
  <1>7. ASSUME OpenSums(r) \/ WriteSums(r)
        PROVE  Frame /\ pc[r] \in Working /\ made' = made
    <2>1. \A d \in Dirs : d # dir[r] => store'[d] = store[d]
      BY <1>0, <1>7, WriteFileFacts, FileFacts DEF OpenSums, WriteSums
    <2>2. QED
      BY <1>7, <2>1 DEF OpenSums, WriteSums, Goto, Working, CaptureTypeOK
  <1>8. ASSUME OpenManifest(r) \/ WriteManifest(r)
        PROVE  Frame /\ pc[r] \in Working /\ made' = made
    <2>1. \A d \in Dirs : d # dir[r] => store'[d] = store[d]
      BY <1>0, <1>8, WriteFileFacts, FileFacts DEF OpenManifest, WriteManifest
    <2>2. QED
      BY <1>8, <2>1 DEF OpenManifest, WriteManifest, Goto, Working, CaptureTypeOK
  <1>9. ASSUME MtkCommand(r)
        PROVE  Frame /\ pc[r] \in Working /\ made' = made
    <2>1. \A d \in Dirs : d # dir[r] => store'[d] = store[d]
      BY <1>9, CommandFacts DEF MtkCommand
    <2>2. QED
      BY <1>9, <2>1 DEF MtkCommand, Working
  <1>10. ASSUME MtkStray(r)
         PROVE  Frame /\ pc[r] \in Working /\ made' = made
    <2>1. \A p \in Passes \X Stray : p \in Files
      BY FileFacts
    <2>2. \A d \in Dirs : d # dir[r] => store'[d] = store[d]
      BY <1>0, <1>10, <2>1, WriteFileFacts DEF MtkStray
    <2>3. QED
      BY <1>10, <2>2 DEF MtkStray, Working
  <1>11. ASSUME MtkFails(r)
         PROVE  Frame /\ pc[r] \in Working /\ made' = made
    <2>1. \A d \in Dirs : d # dir[r] => store'[d] = store[d]
      BY <1>11, CommandFacts DEF MtkFails
    <2>2. QED
      BY <1>11, <2>1 DEF MtkFails, Goto, Working, CaptureTypeOK
  <1>12. "dead" \notin Working
    BY DEF Working
  <1> HIDE DEF Frame
  <1>13. Frame /\ \/ /\ pc[r] \in Working
                     /\ made' = made
                  \/ /\ pc[r] = "mkdir" /\ pc'[r] = "setup"
                     /\ dir[r] \notin made /\ made' = made \cup {dir[r]}
                     /\ store' = store
                  \/ /\ pc[r] \in {"start", "mkdir"}
                     /\ pc'[r] \notin Working /\ pc'[r] # "rejected"
                     /\ made' = made
                     /\ store' = store
    BY <1>1, <1>2, <1>3, <1>4, <1>5, <1>6, <1>7, <1>8, <1>9, <1>10, <1>11, <1>12
      DEF StepOf, ScriptStep, MtkStep
  <1>14. QED
    BY <1>13 DEF Frame
-----------------------------------------------------------------------------
(***************************************************************************)
(* What a step does to the run that takes it and to its directory.         *)
(***************************************************************************)

SoundIfVerified(d) == Verified(d) => Sound(d) /\ MetadataDescribes(d)

Effect(r, d) ==
    /\ CaptureTypeOK'
    /\ StageOK(r)'
    /\ SoundIfVerified(d)'
    /\ pc'[r] = "rejected" => pc[r] \in Working /\ ~Sound(d)'

\* Steps that leave the files alone and end, or only start, a run's work.
LEMMA PlainEffect ==
    ASSUME CaptureInv, NEW r \in Runs, NEW d \in Dirs, d = dir[r],
           CheckInputs(r) \/ MakeDir(r) \/ MakeDirFails(r) \/ StartMtk(r) \/ MtkExits(r) \/ Crash(r)
    PROVE  Effect(r, d)
  <1>1. store' = store /\ dir' = dir /\ cursor' = cursor /\ digests' = digests
    BY DEF CheckInputs, MakeDir, MakeDirFails, StartMtk, MtkExits, Crash
  <1>2. CaptureTypeOK /\ StageOK(r) /\ SoundIfVerified(d) /\ UnmadeIsEmpty
    BY DEF CaptureInv, VerifiedIsSound, SoundIfVerified
  <1>3. made' \in SUBSET Dirs /\ made \subseteq made'
    BY <1>2 DEF CheckInputs, MakeDir, MakeDirFails, StartMtk, MtkExits, Crash,
                CaptureTypeOK, StoreTypeOK, IsStore
  <1>4. CaptureTypeOK'
    <2>1. pc' \in [Runs -> ControlPoints]
      BY <1>2 DEF CheckInputs, MakeDir, MakeDirFails, StartMtk, MtkExits, Crash, Goto,
                  CaptureTypeOK, ControlPoints, Working, Finished
    <2>2. QED
      BY <1>1, <1>2, <1>3, <2>1 DEF CaptureTypeOK, StoreTypeOK, IsStore, ControlPoints
  <1>5. SoundIfVerified(d)'
    BY <1>1, <1>2 DEF SoundIfVerified, Verified, Sound, MetadataDescribes
  <1>6. CASE pc'[r] \notin Working
    <2>1. pc'[r] # "rejected"
      BY <1>2 DEF CheckInputs, MakeDir, MakeDirFails, StartMtk, MtkExits, Crash, Goto,
                  CaptureTypeOK
    <2>2. StageOK(r)'
      BY <1>6 DEF StageOK, Working, PastPass1, PastPass2, PastCompare
    <2>3. QED
      BY <1>4, <1>5, <2>1, <2>2 DEF Effect
  <1>7. CASE pc'[r] \in Working
    <2>1. \/ MakeDir(r) /\ pc'[r] = "setup"
          \/ pc[r] \in {"setup", "read"} /\ pc'[r] \in {"read", "pass1"}
      BY <1>2, <1>7 DEF CheckInputs, MakeDir, MakeDirFails, StartMtk, MtkExits, Crash, Goto,
                        CaptureTypeOK, Working
    <2>2. dir[r] \in made'
      BY <1>2, <1>3, <2>1 DEF MakeDir, StageOK, Working
    <2>3. store[d][ManifestFile] = Absent
      <3>1. CASE MakeDir(r)
        <4>1. store[d] = NoFiles
          BY <1>2, <3>1 DEF MakeDir, MayCreate, UnmadeIsEmpty
        <4>2. QED
          BY <4>1, FileFacts DEF NoFiles
      <3>2. CASE pc[r] \in {"setup", "read"}
        BY <1>2, <3>2 DEF StageOK, Working
      <3>3. QED
        BY <2>1, <3>1, <3>2
    <2>4. StageOK(r)'
      BY <1>1, <2>1, <2>2, <2>3 DEF StageOK, Working, PastPass1, PastPass2, PastCompare
    <2>5. QED
      BY <1>4, <1>5, <2>1, <2>4 DEF Effect
  <1>8. QED
    BY <1>6, <1>7

\* Whatever mtkclient writes: there is no manifest yet, and nothing is known.
LEMMA MtkEffect ==
    ASSUME CaptureInv, NEW r \in Runs, NEW d \in Dirs, d = dir[r],
           MtkCommand(r) \/ MtkStray(r) \/ MtkFails(r)
    PROVE  Effect(r, d)
  <1>1. CaptureTypeOK /\ StageOK(r) /\ StoreTypeOK
    BY DEF CaptureInv, CaptureTypeOK
  <1>2. /\ pc[r] = "read" /\ pc'[r] \in {"read", "failed"}
        /\ made' = made /\ dir' = dir /\ digests' = digests
        /\ cursor' \in [Runs -> Nat]
        /\ pc' \in [Runs -> ControlPoints]
    BY <1>1 DEF MtkCommand, MtkStray, MtkFails, Goto, CaptureTypeOK, ControlPoints, Finished
  <1>3. StoreTypeOK' /\ store'[d][ManifestFile] = store[d][ManifestFile]
    <2>1. ManifestFile \in MetadataFiles /\ made' \in SUBSET Dirs /\ dir[r] \in Dirs
      BY <1>1, <1>2 DEF MetadataFiles, CaptureTypeOK, StoreTypeOK, IsStore
    <2>2. CASE MtkCommand(r)
      BY <1>1, <2>1, <2>2, CommandFacts DEF MtkCommand
    <2>3. CASE MtkStray(r)
      <3>1. PICK p \in Passes \X Stray, b \in Bytes : WriteFile(r, p, b)
        BY <2>3 DEF MtkStray
      <3>2. p \in Paths /\ p \in Files /\ p # ManifestFile
        BY FileFacts DEF Paths
      <3>3. StoreTypeOK'
        BY <1>1, <2>1, <3>1, <3>2, WriteFileType
      <3>4. store'[d][ManifestFile] = store[d][ManifestFile]
        BY <1>1, <2>1, <3>1, <3>2, WriteFileFacts, FileFacts
      <3>5. QED
        BY <3>3, <3>4
    <2>4. CASE MtkFails(r) /\ store' = store
      BY <1>1, <1>2, <2>4 DEF StoreTypeOK, IsStore
    <2>5. CASE MtkFails(r) /\ store' # store
      <3>1. /\ cursor[r] \in DOMAIN Plan
            /\ \E contents \in [Plan[cursor[r]].outputs -> Bytes \cup {Absent}] :
                  WriteOutputs(r, Plan[cursor[r]], contents)
        BY <2>5 DEF MtkFails
      <3>2. QED
        BY <1>1, <1>2, <2>1, <3>1, CommandFacts
    <2>6. QED
      BY <2>2, <2>3, <2>4, <2>5
  <1>4. store[d][ManifestFile] = Absent /\ dir[r] \in made
    BY <1>1, <1>2 DEF StageOK, Working
  <1>5. CaptureTypeOK'
    BY <1>1, <1>2, <1>3 DEF CaptureTypeOK, ControlPoints
  <1>6. StageOK(r)'
    BY <1>2, <1>3, <1>4 DEF StageOK, Working, PastPass1, PastPass2, PastCompare
  <1>7. SoundIfVerified(d)'
    BY <1>3, <1>4 DEF SoundIfVerified, Verified, Complete
  <1>8. QED
    BY <1>2, <1>5, <1>6, <1>7 DEF Effect

\* The three checks: a run goes on only with what it has checked, and rejects
\* only what is not sound.
LEMMA CheckEffect ==
    ASSUME CaptureInv, NEW r \in Runs, NEW d \in Dirs, d = dir[r],
           ValidatePass1(r) \/ ValidatePass2(r) \/ Compare(r)
    PROVE  Effect(r, d)
  <1>1. CaptureTypeOK /\ StageOK(r) /\ StoreTypeOK /\ SoundIfVerified(d)
    BY DEF CaptureInv, CaptureTypeOK, VerifiedIsSound, SoundIfVerified
  <1>2. /\ pc[r] \in {"pass1", "pass2", "compare"}
        /\ made' = made /\ store' = store /\ dir' = dir /\ cursor' = cursor
    BY DEF ValidatePass1, ValidatePass2, ValidatePass, Compare
  <1>3. SoundIfVerified(d)'
    BY <1>1, <1>2 DEF SoundIfVerified, Verified, Sound, MetadataDescribes
  <1>4. /\ \A pass \in Passes : PassIsValid(d, pass)' <=> PassIsValid(d, pass)
        /\ ReadsAgree(d)' <=> ReadsAgree(d)
        /\ ListingOf(d)' = ListingOf(d)
        /\ Sound(d)' <=> Sound(d)
    BY <1>2, SamePaths
  <1>5. store[d][ManifestFile] = Absent /\ d \in made
    BY <1>1, <1>2 DEF StageOK, Working
  <1>6. /\ pc' \in [Runs -> ControlPoints]
        /\ pc'[r] \in {"pass2", "compare", "sums", "rejected"}
    BY <1>1 DEF ValidatePass1, ValidatePass2, ValidatePass, Compare, Goto, CaptureTypeOK,
                ControlPoints, Working, Finished
  <1>7. /\ pc'[r] \in PastPass1 => PassIsValid(d, "pass1")
        /\ pc'[r] \in PastPass2 => PassIsValid(d, "pass2")
        /\ pc'[r] = "sums" => ReadsAgree(d) /\ digests' = [digests EXCEPT ![r] = ListingOf(d)]
        /\ pc'[r] # "sums" => digests' = digests
    BY <1>1, <1>2 DEF ValidatePass1, ValidatePass2, ValidatePass, Compare, Goto, CaptureTypeOK,
                      StageOK, PastPass1, PastPass2
  <1>8. digests' \in [Runs -> Listings] /\ (pc'[r] = "sums" => digests'[r] = ListingOf(d))
    <2>1. digests \in [Runs -> Listings]
      BY <1>1 DEF CaptureTypeOK
    <2>2. CASE pc'[r] = "sums"
      <3>1. PassIsValid(d, "pass1") /\ PassIsValid(d, "pass2")
        BY <1>7, <2>2 DEF PastPass1, PastPass2
      <3>2. ListingOf(d) \in Listings
        BY <1>1, <3>1, ListingFacts
      <3>3. QED
        BY <1>7, <2>1, <2>2, <3>2
    <2>3. CASE pc'[r] # "sums"
      BY <1>7, <2>1, <2>3
    <2>4. QED
      BY <2>2, <2>3
  <1>9. CaptureTypeOK'
    BY <1>1, <1>2, <1>6, <1>8 DEF CaptureTypeOK, StoreTypeOK, IsStore, ControlPoints
  <1>10. StageOK(r)'
    BY <1>2, <1>4, <1>5, <1>6, <1>7, <1>8, FileFacts
      DEF StageOK, Working, PastPass1, PastPass2, PastCompare
  <1>11. pc'[r] = "rejected" => ~Sound(d)
    <2>1. pc'[r] = "rejected" =>
            \/ ~PassIsValid(d, "pass1")
            \/ ~PassIsValid(d, "pass2")
            \/ GptOf(d, "pass1") # GptOf(d, "pass2")
            \/ ~ReadsAgree(d)
      BY <1>1 DEF ValidatePass1, ValidatePass2, ValidatePass, Compare, Goto, CaptureTypeOK
    <2>2. QED
      BY <2>1, SoundPassesChecks
  <1>12. pc[r] \in Working
    BY <1>2 DEF Working
  <1>13. QED
    BY <1>3, <1>4, <1>9, <1>10, <1>11, <1>12 DEF Effect
\* Writing the metadata leaves the artifacts alone, and what the manifest is
\* written over has been checked.
LEMMA MetadataEffect ==
    ASSUME CaptureInv, NEW r \in Runs, NEW d \in Dirs, d = dir[r],
           OpenSums(r) \/ WriteSums(r) \/ OpenManifest(r) \/ WriteManifest(r)
    PROVE  Effect(r, d)
  <1>1. CaptureTypeOK /\ StageOK(r) /\ StoreTypeOK /\ dir[r] \in Dirs
    BY DEF CaptureInv, CaptureTypeOK
  <1>2. /\ pc[r] \in PastCompare /\ pc[r] \in PastPass1 /\ pc[r] \in PastPass2
        /\ pc[r] \in Working
        /\ made' = made /\ dir' = dir /\ cursor' = cursor /\ digests' = digests
    BY DEF OpenSums, WriteSums, OpenManifest, WriteManifest, PastCompare, PastPass2, PastPass1,
           Working
  <1>3. /\ d \in made
        /\ PassIsValid(d, "pass1") /\ PassIsValid(d, "pass2") /\ ReadsAgree(d)
        /\ digests[r] = ListingOf(d) /\ digests[r] \in Listings
    BY <1>1, <1>2 DEF StageOK, CaptureTypeOK
  <1>4. made' \in SUBSET Dirs
    BY <1>1, <1>2 DEF StoreTypeOK, IsStore
  <1>5. /\ pc' \in [Runs -> ControlPoints]
        /\ \/ OpenSums(r) /\ pc'[r] = "sumsOpen"
           \/ WriteSums(r) /\ pc'[r] = "manifest"
           \/ OpenManifest(r) /\ pc'[r] = "manifestOpen"
           \/ WriteManifest(r) /\ pc'[r] = "verified"
    BY <1>1 DEF OpenSums, WriteSums, OpenManifest, WriteManifest, Goto, CaptureTypeOK,
                ControlPoints, Working, Finished
  <1>6. ManifestOf(d) \in Manifests
    <2>1. \A a \in Expected : store[d][<<"pass1", a>>] \in Bytes
      BY <1>1, <1>3, ValidPassFacts, FileFacts
    <2>2. ManifestOf(d) \in [Expected -> Bytes]
      BY <2>1 DEF ManifestOf
    <2>3. QED
      BY <2>2, FileFacts DEF Manifests
  <1>7. /\ StoreTypeOK'
        /\ \A p \in Paths : store'[d][p] = store[d][p]
        /\ OpenSums(r) => store'[d][ManifestFile] = store[d][ManifestFile]
        /\ WriteSums(r) => /\ store'[d][ManifestFile] = store[d][ManifestFile]
                           /\ store'[d][SumsFile] = digests[r]
        /\ OpenManifest(r) => /\ store'[d][ManifestFile] = Partial
                              /\ store'[d][SumsFile] = store[d][SumsFile]
        /\ WriteManifest(r) => /\ store'[d][ManifestFile] = ManifestOf(d)
                               /\ store'[d][SumsFile] = store[d][SumsFile]
    <2>1. ASSUME NEW file \in MetadataFiles, NEW contents, WriteFile(r, file, contents)
          PROVE  /\ store'[d][file] = contents
                 /\ \A f \in Files : f # file => store'[d][f] = store[d][f]
                 /\ \A p \in Paths : store'[d][p] = store[d][p]
      <3>1. file \in Files /\ \A p \in Paths : p \in Files /\ p # file
        BY FileFacts DEF MetadataFiles
      <3>2. QED
        BY <1>1, <2>1, <3>1, WriteFileFacts
    <2>2. CASE OpenSums(r)
      <3>1. WriteFile(r, SumsFile, Partial) /\ pc[r] = "sums"
        BY <2>2 DEF OpenSums
      <3>2. StoreTypeOK'
        BY <1>1, <1>4, <3>1, WriteFileType, FileFacts
      <3>3. QED
        BY <2>1, <3>1, <3>2, FileFacts DEF MetadataFiles, WriteSums, OpenManifest, WriteManifest
    <2>3. CASE WriteSums(r)
      <3>1. WriteFile(r, SumsFile, digests[r]) /\ pc[r] = "sumsOpen"
        BY <2>3 DEF WriteSums
      <3>2. StoreTypeOK'
        BY <1>1, <1>3, <1>4, <3>1, WriteFileType, FileFacts
      <3>3. QED
        BY <2>1, <3>1, <3>2, FileFacts DEF MetadataFiles, OpenSums, OpenManifest, WriteManifest
    <2>4. CASE OpenManifest(r)
      <3>1. WriteFile(r, ManifestFile, Partial) /\ pc[r] = "manifest"
        BY <2>4 DEF OpenManifest
      <3>2. StoreTypeOK'
        BY <1>1, <1>4, <3>1, WriteFileType, FileFacts
      <3>3. QED
        BY <2>1, <3>1, <3>2, FileFacts DEF MetadataFiles, OpenSums, WriteSums, WriteManifest
    <2>5. CASE WriteManifest(r)
      <3>1. WriteFile(r, ManifestFile, ManifestOf(d)) /\ pc[r] = "manifestOpen"
        BY <2>5 DEF WriteManifest
      <3>2. StoreTypeOK'
        BY <1>1, <1>4, <1>6, <3>1, WriteFileType, FileFacts
      <3>3. QED
        BY <2>1, <3>1, <3>2, FileFacts DEF MetadataFiles, OpenSums, WriteSums, OpenManifest
    <2>6. QED
      BY <2>2, <2>3, <2>4, <2>5
  <1>8. CaptureTypeOK'
    BY <1>1, <1>2, <1>5, <1>7 DEF CaptureTypeOK, ControlPoints
  <1>9. /\ \A pass \in Passes : PassIsValid(d, pass)' <=> PassIsValid(d, pass)
        /\ ReadsAgree(d)' <=> ReadsAgree(d)
        /\ ListingOf(d)' = ListingOf(d)
        /\ Sound(d)' <=> Sound(d)
    BY <1>7, SamePaths
  <1>10. CASE WriteManifest(r)
    <2>1. pc[r] = "manifestOpen" /\ pc'[r] = "verified"
      BY <1>5, <1>10 DEF WriteManifest, OpenSums, WriteSums, OpenManifest
    <2>2. StageOK(r)'
      BY <2>1 DEF StageOK, Working, PastPass1, PastPass2, PastCompare
    <2>3. Sound(d)'
      BY <1>1, <1>3, <1>9, ValidAndEqualIsSound
    <2>4. store'[d][SumsFile] = ListingOf(d) /\ store'[d][ManifestFile] = ManifestOf(d)
      BY <1>1, <1>3, <1>7, <1>10, <2>1 DEF StageOK
    <2>5. MetadataDescribes(d)'
      <3>1. DOMAIN store'[d][ManifestFile] = Expected
        BY <2>4 DEF ManifestOf
      <3>2. \A a \in Expected : store'[d][ManifestFile][a] = store'[d][<<"pass2", a>>]
        BY <1>3, <1>7, <2>4, FileFacts DEF ManifestOf, ReadsAgree
      <3>3. /\ Complete(store'[d][SumsFile])
            /\ Len(store'[d][SumsFile]) = Len(LineOrder)
        BY <1>1, <1>3, <2>4, ListingFacts, FilesAssumption DEF Complete
      <3>4. \A p \in ExpectedPaths : store'[d][p] = store[d][p]
        BY <1>7, FileFacts DEF ExpectedPaths
      <3>5. \A p \in ExpectedPaths :
              \E i \in DOMAIN store'[d][SumsFile] :
                 store'[d][SumsFile][i] = [path |-> p, hash |-> store'[d][p]]
        BY <1>1, <1>3, <2>4, <3>4, ListingFacts
      <3>6. QED
        BY <3>1, <3>2, <3>3, <3>5 DEF MetadataDescribes, Complete
    <2>6. QED
      BY <1>8, <2>1, <2>2, <2>3, <2>5 DEF Effect, SoundIfVerified
  <1>11. CASE ~WriteManifest(r)
    <2>1. store[d][ManifestFile] = Absent
      BY <1>1, <1>11 DEF StageOK, Working, OpenSums, WriteSums, OpenManifest
    <2>2. \/ pc'[r] \in {"sumsOpen", "manifest"} /\ store'[d][ManifestFile] = Absent
          \/ pc'[r] = "manifestOpen" /\ store'[d][ManifestFile] = Partial
      BY <1>5, <1>7, <1>11, <2>1
    <2>3. pc'[r] \in {"manifest", "manifestOpen"} => store'[d][SumsFile] = digests[r]
      BY <1>1, <1>5, <1>7, <1>11 DEF StageOK, OpenManifest
    <2>4. StageOK(r)'
      BY <1>2, <1>3, <1>9, <2>2, <2>3, FileFacts
        DEF StageOK, Working, PastPass1, PastPass2, PastCompare
    <2>5. SoundIfVerified(d)'
      BY <2>2 DEF SoundIfVerified, Verified, Complete
    <2>6. QED
      BY <1>8, <2>2, <2>4, <2>5 DEF Effect
  <1>12. QED
    BY <1>10, <1>11

LEMMA StepEffect ==
    ASSUME CaptureInv, NEW r \in Runs, NEW d \in Dirs, d = dir[r], StepOf(r)
    PROVE  Effect(r, d)
  BY PlainEffect, MtkEffect, CheckEffect, MetadataEffect DEF StepOf, ScriptStep, MtkStep
-----------------------------------------------------------------------------
(***************************************************************************)
(* The invariant.                                                          *)
(***************************************************************************)

LEMMA CaptureInvInit == CaptureInit => CaptureInv
  <1> SUFFICES ASSUME CaptureInit PROVE CaptureInv
    OBVIOUS
  <1>1. \A f \in Files : NoFiles[f] = Absent
    BY DEF NoFiles
  <1>2. StoreTypeOK
    <2>1. NoFiles \in Trees
      BY DEF NoFiles, Trees
    <2>2. \A d \in Dirs : store[d] = NoFiles
      BY DEF CaptureInit
    <2>3. QED
      BY <1>1, <2>1, <2>2, FileFacts DEF CaptureInit, StoreTypeOK, IsStore
  <1>3. <<>> \in Listings
    BY DEF Listings
  <1>4. CaptureTypeOK
    BY <1>2, <1>3 DEF CaptureInit, CaptureTypeOK
  <1>5. \A r \in Runs : pc[r] = "start" /\ pc[r] \notin Working
    BY DEF CaptureInit, Working
  <1>6. ExclusiveOwner
    BY <1>5 DEF ExclusiveOwner, Owns
  <1>7. UnmadeIsEmpty
    BY DEF CaptureInit, UnmadeIsEmpty
  <1>8. \A r \in Runs : StageOK(r)
    BY <1>5 DEF StageOK, Working, PastPass1, PastPass2, PastCompare
  <1>9. VerifiedIsSound
    BY <1>1, FileFacts DEF CaptureInit, VerifiedIsSound, Verified, Complete
  <1>10. RejectionStands
    BY <1>5 DEF RejectionStands
  <1>11. QED
    BY <1>4, <1>6, <1>7, <1>8, <1>9, <1>10 DEF CaptureInv

\* Another run keeps what it knows: its directory is not the one that changed.
LEMMA OtherRunsKnow ==
    ASSUME CaptureInv, NEW r \in Runs, StepOf(r), NEW s \in Runs, s # r
    PROVE  StageOK(s)'
  <1>1. CaptureTypeOK /\ StageOK(s) /\ ExclusiveOwner
    BY DEF CaptureInv
  <1>2. /\ dir' = dir /\ pc'[s] = pc[s] /\ digests'[s] = digests[s]
        /\ made \subseteq made'
        /\ pc[r] \notin Working => store' = store
        /\ \A d \in Dirs : d # dir[r] => store'[d] = store[d]
    BY <1>1, StepFrame
  <1>3. dir[s] \in Dirs /\ dir[r] \in Dirs
    BY <1>1 DEF CaptureTypeOK
  <1>4. CASE pc[s] \in Working
    <2>1. pc[r] \in Working => dir[s] # dir[r]
      BY <1>1, <1>3, <1>4 DEF ExclusiveOwner, Owns
    <2>2. store'[dir[s]] = store[dir[s]]
      BY <1>2, <1>3, <2>1
    <2>3. /\ \A pass \in Passes : PassIsValid(dir[s], pass)' <=> PassIsValid(dir[s], pass)
          /\ ReadsAgree(dir[s])' <=> ReadsAgree(dir[s])
          /\ ListingOf(dir[s])' = ListingOf(dir[s])
      <3>1. SUFFICES ASSUME NEW d \in Dirs, d = dir[s]
                     PROVE  /\ \A pass \in Passes : PassIsValid(d, pass)' <=> PassIsValid(d, pass)
                            /\ ReadsAgree(d)' <=> ReadsAgree(d)
                            /\ ListingOf(d)' = ListingOf(d)
        BY <1>2, <1>3
      <3>2. QED
        BY <2>2, <3>1, SamePaths
    <2>4. QED
      BY <1>1, <1>2, <2>2, <2>3, FileFacts DEF StageOK
  <1>5. CASE pc[s] \notin Working
    BY <1>2, <1>5 DEF StageOK, Working, PastPass1, PastPass2, PastCompare
  <1>6. QED
    BY <1>4, <1>5

LEMMA CaptureInvStep == CaptureInv /\ [CaptureNext]_captureVars => CaptureInv'
  <1> SUFFICES ASSUME CaptureInv, [CaptureNext]_captureVars
               PROVE  CaptureInv'
    OBVIOUS
  <1>1. ASSUME NEW r \in Runs, StepOf(r)
        PROVE  CaptureInv'
    <2>1. CaptureTypeOK /\ ExclusiveOwner /\ UnmadeIsEmpty /\ VerifiedIsSound /\ RejectionStands
          /\ \A s \in Runs : StageOK(s)
      BY DEF CaptureInv
    <2>2. /\ dir' = dir
          /\ \A s \in Runs : s # r => pc'[s] = pc[s]
          /\ \A d \in Dirs : d # dir[r] => store'[d] = store[d]
          /\ \/ /\ pc[r] \in Working
                /\ made' = made
             \/ /\ pc[r] = "mkdir" /\ pc'[r] = "setup"
                /\ dir[r] \notin made /\ made' = made \cup {dir[r]}
                /\ store' = store
             \/ /\ pc[r] \in {"start", "mkdir"}
                /\ pc'[r] \notin Working /\ pc'[r] # "rejected"
                /\ made' = made
                /\ store' = store
      BY <1>1, <2>1, StepFrame
    <2>3. dir[r] \in Dirs
      BY <2>1 DEF CaptureTypeOK
    <2>4. PICK D \in Dirs : D = dir[r]
      BY <2>3
    <2>5. Effect(r, D)
      BY <1>1, <2>4, StepEffect
    <2>6. \A s \in Runs : StageOK(s)'
      BY <1>1, <2>5, OtherRunsKnow DEF Effect
    <2>7. ExclusiveOwner'
      <3> SUFFICES ASSUME NEW d \in Dirs, NEW s \in Runs, NEW t \in Runs,
                          dir[s] = d, dir[t] = d, pc'[s] \in Working, pc'[t] \in Working
                   PROVE  s = t
        BY <2>2 DEF ExclusiveOwner, Owns
      <3>1. \A q \in Runs : pc[q] \in Working => dir[q] \in made
        BY <2>1 DEF StageOK
      <3>2. CASE pc[r] \in Working \/ pc'[r] \notin Working
        BY <2>1, <2>2, <3>2 DEF ExclusiveOwner, Owns
      <3>3. CASE pc[r] = "mkdir" /\ dir[r] \notin made
        BY <2>1, <2>2, <3>1, <3>3 DEF ExclusiveOwner, Owns
      <3>4. QED
        BY <2>2, <3>2, <3>3
    <2>8. UnmadeIsEmpty'
      <3>1. pc[r] \in Working => dir[r] \in made
        BY <2>1 DEF StageOK
      <3>2. QED
        BY <2>1, <2>2, <3>1 DEF UnmadeIsEmpty
    <2>9. VerifiedIsSound'
      <3> SUFFICES ASSUME NEW d \in Dirs
                   PROVE  SoundIfVerified(d)'
        BY DEF VerifiedIsSound, SoundIfVerified
      <3>1. CASE d = D
        BY <2>5, <3>1 DEF Effect
      <3>2. CASE d # D
        <4>1. SoundIfVerified(d) /\ store'[d] = store[d]
          BY <2>1, <2>2, <2>4, <3>2 DEF VerifiedIsSound, SoundIfVerified
        <4>2. QED
          BY <4>1 DEF SoundIfVerified, Verified, Sound, MetadataDescribes
      <3>3. QED
        BY <3>1, <3>2
    <2>10. RejectionStands'
      <3> SUFFICES ASSUME NEW s \in Runs, pc'[s] = "rejected"
                   PROVE  /\ dir[s] \in made'
                          /\ \A t \in Runs : ~(dir[t] = dir[s] /\ pc'[t] \in Working)
                          /\ ~Sound(dir[s])'
        BY <2>2 DEF RejectionStands, Owns
      <3>1. CASE s = r
        <4>1. pc[r] \in Working /\ ~Sound(D)' /\ pc'[r] \notin Working
          BY <2>5, <3>1 DEF Effect, Working
        <4>2. dir[r] \in made'
          BY <2>1, <2>2, <4>1 DEF StageOK
        <4>3. \A t \in Runs : ~(dir[t] = dir[s] /\ pc'[t] \in Working)
          BY <2>1, <2>2, <2>3, <3>1, <4>1 DEF ExclusiveOwner, Owns
        <4>4. QED
          BY <2>2, <2>4, <3>1, <4>1, <4>2, <4>3
      <3>2. CASE s # r
        <4>1. /\ pc[s] = "rejected" /\ dir[s] \in made /\ ~Sound(dir[s])
              /\ \A t \in Runs : ~(dir[t] = dir[s] /\ pc[t] \in Working)
          BY <2>1, <2>2, <3>2 DEF RejectionStands, Owns
        <4>2. dir[s] \in made'
          BY <2>2, <4>1
        <4>3. \A t \in Runs : ~(dir[t] = dir[s] /\ pc'[t] \in Working)
          BY <2>2, <4>1
        <4>4. store'[dir[s]] = store[dir[s]]
          <5>1. dir[s] \in Dirs
            BY <2>1 DEF CaptureTypeOK
          <5>2. QED
            BY <2>2, <4>1, <5>1
        <4>5. ~Sound(dir[s])'
          BY <2>2, <4>1, <4>4 DEF Sound
        <4>6. QED
          BY <4>2, <4>3, <4>5
      <3>3. QED
        BY <3>1, <3>2
    <2>11. QED
      BY <2>5, <2>6, <2>7, <2>8, <2>9, <2>10 DEF CaptureInv, Effect
  <1>2. CASE UNCHANGED captureVars
    <2>1. /\ made' = made /\ store' = store /\ pc' = pc /\ dir' = dir
          /\ cursor' = cursor /\ digests' = digests
      BY <1>2 DEF captureVars
    <2>2. CaptureTypeOK' /\ ExclusiveOwner' /\ UnmadeIsEmpty'
      BY <2>1 DEF CaptureInv, CaptureTypeOK, StoreTypeOK, IsStore, ExclusiveOwner, Owns, UnmadeIsEmpty
    <2>3. VerifiedIsSound' /\ RejectionStands'
      BY <2>1 DEF CaptureInv, VerifiedIsSound, Verified, Sound, MetadataDescribes,
                  RejectionStands, Owns
    <2>4. \A r \in Runs : StageOK(r)'
      BY <2>1 DEF CaptureInv, StageOK, PassIsValid, MissingArtifacts, UnexpectedArtifacts,
                  IllFormedArtifacts, GptOf, ReadsAgree, ListingOf
    <2>5. QED
      BY <2>2, <2>3, <2>4 DEF CaptureInv
  <1>3. QED
    BY <1>1, <1>2 DEF CaptureNext, StepOf

THEOREM CaptureInvHolds == CaptureSpec => []CaptureInv
  BY CaptureInvInit, CaptureInvStep, PTL DEF CaptureSpec
-----------------------------------------------------------------------------
\* Every variable keeps its type; in particular the listing and the manifest
\* are only ever computed over artifacts that are there.
THEOREM CaptureTyping == CaptureSpec => []CaptureTypeOK
  <1>1. CaptureInv => CaptureTypeOK
    BY DEF CaptureInv
  <1>2. QED
    BY <1>1, CaptureInvHolds, PTL

\* No two runs ever work in the same directory (capture-recovery-baseline.py:527).
THEOREM OwnersAreExclusive == CaptureSpec => []ExclusiveOwner
  <1>1. CaptureInv => ExclusiveOwner
    BY DEF CaptureInv
  <1>2. QED
    BY <1>1, CaptureInvHolds, PTL

\* A complete capture-manifest.json is only ever found over two identical,
\* checked passes that it and the listing describe.
THEOREM VerifiedCapturesAreSound == CaptureSpec => []VerifiedIsSound
  <1>1. CaptureInv => VerifiedIsSound
    BY DEF CaptureInv
  <1>2. QED
    BY <1>1, CaptureInvHolds, PTL

\* A rejected capture has something wrong with it, now and ever after.
THEOREM RejectionsHaveACause == CaptureSpec => []RejectedForCause
  <1>1. CaptureInv => RejectedForCause
    BY DEF CaptureInv, RejectionStands, RejectedForCause
  <1>2. QED
    BY <1>1, CaptureInvHolds, PTL

\* No step of a run touches a directory that was left.
LEMMA CaptureLeavesLeft ==
    ASSUME CaptureInv, CaptureNext, NEW d \in Dirs, Left(d)
    PROVE  Left(d)' /\ store'[d] = store[d]
  <1>1. PICK r \in Runs : StepOf(r)
    BY DEF CaptureNext, StepOf
  <1>2. CaptureTypeOK
    BY DEF CaptureInv
  <1>3. /\ dir' = dir
        /\ \A s \in Runs : s # r => pc'[s] = pc[s]
        /\ \A x \in Dirs : x # dir[r] => store'[x] = store[x]
        /\ \/ pc[r] \in Working /\ made' = made
           \/ dir[r] \notin made /\ made' = made \cup {dir[r]} /\ store' = store
           \/ pc'[r] \notin Working /\ made' = made /\ store' = store
    BY <1>1, <1>2, StepFrame
  <1>4. d \in made /\ \A s \in Runs : ~(dir[s] = d /\ pc[s] \in Working)
    BY DEF Left, Owns
  <1>5. store'[d] = store[d]
    BY <1>3, <1>4
  <1>6. d \in made' /\ \A s \in Runs : ~(dir[s] = d /\ pc'[s] \in Working)
    BY <1>3, <1>4
  <1>7. QED
    BY <1>3, <1>5, <1>6 DEF Left, Owns

\* A directory that no run works in any more is never touched again.
THEOREM LeftCapturesStay == CaptureSpec => LeftStaysAsLeft
  <1>1. CaptureInv /\ [CaptureNext]_captureVars
          => [\A d \in Dirs : Left(d) => Left(d)' /\ store'[d] = store[d]]_captureVars
    BY CaptureLeavesLeft
  <1>2. QED
    BY <1>1, CaptureInvHolds, PTL DEF CaptureSpec, LeftStaysAsLeft
=============================================================================
