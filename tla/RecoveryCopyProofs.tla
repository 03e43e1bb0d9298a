------------------------ MODULE RecoveryCopyProofs ------------------------
(***************************************************************************)
(* Proofs about RecoveryCopy, for any artifacts, listings, copiers, roots  *)
(* and drift.                                                              *)
(*                                                                         *)
(* The verification loop looks at one line at a time; that it has missed   *)
(* no artifact follows from a count: the lines verified so far name as     *)
(* many different expected paths as there are lines, and the listing has   *)
(* as many lines as there are expected paths.  That the published copy is  *)
(* what was compared needs, besides, that a staging directory has one      *)
(* writer.                                                                 *)
(***************************************************************************)
EXTENDS RecoveryCopy, FiniteSetTheorems, SequenceTheorems, TLAPS

BeforeLines == {"begin", "manifest", "listing"}

PastManifest == {"listing", "verify"} \cup PastVerification

PastListing == {"verify"} \cup PastVerification

\* The listing and the lines of it copier c has been through.
LinesOK(c) ==
    /\ cpc[c] \in BeforeLines => next[c] = 1 /\ seen[c] = {}
    /\ cpc[c] \in PastListing => Len(lines[c]) = Cardinality(ExpectedKeys(c))
    /\ cpc[c] = "verify" =>
         /\ next[c] \in 1 .. Len(lines[c])
         /\ seen[c] \subseteq ExpectedKeys(c)
         /\ Cardinality(seen[c]) = next[c] - 1
    /\ cpc[c] \in PastVerification => seen[c] = ExpectedKeys(c)

\* The source directory as copier c has found it.
SourceOK(c) ==
    /\ cpc[c] \in PastManifest => Source(c)[ManifestFile] = expected[c]
    /\ cpc[c] \in PastListing => Source(c)[SumsFile] = lines[c]
    /\ cpc[c] \in PastListing =>
         \A p \in seen[c] : Source(c)[p] = expected[c][p[2]] \/ <<src[c], p>> \in drifted

\* The files compared so far are copies of the source, but for drift.
ComparedOK(c) ==
    cpc[c] = "compare" =>
        \A f \in Present(Source(c)) \ todo[c] :
            staging[Target(c)][f] = Source(c)[f] \/ <<src[c], f>> \in drifted

CopyInv ==
    /\ CopyTypeOK
    /\ OneStagingWriter
    /\ \A c \in Copiers : LinesOK(c) /\ SourceOK(c) /\ ComparedOK(c)
    /\ PublishedProvesItself

\* A step of copier c, whoever takes it.
CopierMove(c) == CopierStep(c) \/ CopierDies(c)
-----------------------------------------------------------------------------
(***************************************************************************)
(* Files, keys and types.                                                  *)
(***************************************************************************)

LEMMA CopyFileFacts ==
    /\ \A p \in Paths : p \in Files /\ p # SumsFile /\ p # ManifestFile
    /\ SumsFile \in Files /\ ManifestFile \in Files
    /\ SumsFile # ManifestFile
    /\ \A f \in Files : f \in Paths \/ f = SumsFile \/ f = ManifestFile
    /\ NoFiles \in Trees /\ NoFiles # Absent
  <1>1. \A p \in Paths : p[1] \in Passes
    BY DEF Paths
  <1>2. SumsFile[1] \notin Passes /\ ManifestFile[1] \notin Passes
    BY DEF SumsFile, ManifestFile, Passes
  <1>3. SumsFile # ManifestFile
    BY DEF SumsFile, ManifestFile
  <1>4. NoFiles \in Trees /\ NoFiles # Absent
    BY CopyAssumption DEF NoFiles, Trees
  <1>5. QED
    BY <1>1, <1>2, <1>3, <1>4 DEF Files, MetadataFiles

\* The expected keys are finitely many paths.
LEMMA KeysAreFinite ==
    ASSUME NEW c \in Copiers, expected[c] \in Manifests
    PROVE  /\ IsFiniteSet(ExpectedKeys(c))
           /\ ExpectedKeys(c) \subseteq Paths
           /\ \A p \in ExpectedKeys(c) : expected[c][p[2]] \in Bytes
  <1>1. PICK names \in SUBSET Artifacts : expected[c] \in [names -> Bytes]
    BY DEF Manifests
  <1>2. IsFiniteSet(Artifacts)
    BY FilesAssumption, FS_Union DEF Artifacts
  <1>3. IsFiniteSet(names)
    BY <1>1, <1>2, FS_Subset
  <1>4. IsFiniteSet(Passes)
    <2>1. IsFiniteSet({"pass1"})
      BY FS_Singleton
    <2>2. IsFiniteSet({"pass1"} \cup {"pass2"})
      BY <2>1, FS_AddElement
    <2>3. Passes = {"pass1"} \cup {"pass2"}
      BY DEF Passes
    <2>4. QED
      BY <2>2, <2>3
  <1>5. DOMAIN expected[c] = names
    BY <1>1
  <1>6. IsFiniteSet(Passes \X names)
    BY <1>3, <1>4, FS_Product
  <1>7. QED
    BY <1>1, <1>5, <1>6 DEF ExpectedKeys, Paths

\* The empty function is a manifest of nothing.
LEMMA EmptyManifest == <<>> \in Manifests /\ <<>> \in Listings
  <1>1. <<>> \in [1 .. 0 -> Bytes]
    OBVIOUS
  <1>2. 1 .. 0 = {} /\ {} \in SUBSET Artifacts
    OBVIOUS
  <1>3. <<>> \in [{} -> Bytes]
    BY <1>1, <1>2
  <1>4. QED
    BY <1>2, <1>3 DEF Manifests, Listings

\* What the files of a source directory are.
LEMMA SourceFacts ==
    ASSUME CopyTypeOK, NEW c \in Copiers
    PROVE  /\ src[c] \in Dirs /\ root[c] \in Roots /\ Target(c) \in Targets
           /\ Source(c) \in Trees
           /\ \A p \in Paths : Source(c)[p] \in Bytes \cup {Absent}
           /\ Complete(Source(c)[SumsFile]) => Source(c)[SumsFile] \in Listings
           /\ Complete(Source(c)[ManifestFile]) => Source(c)[ManifestFile] \in Manifests
  BY DEF CopyTypeOK, StoreTypeOK, IsStore, Source, Target, Targets, Complete

\* A copied file, damaged or not, has contents a file can have.
LEMMA WrittenFacts ==
    ASSUME CopyTypeOK, NEW c \in Copiers, NEW f \in Files,
           NEW contents \in Written(f, Source(c)[f])
    PROVE  contents \in Bytes \cup {Absent, Partial} \cup Manifests \cup Listings
  <1>1. Source(c)[f] \in Bytes \cup {Absent, Partial} \cup Manifests \cup Listings
    BY SourceFacts DEF Trees
  <1>2. QED
    BY <1>1 DEF Written
-----------------------------------------------------------------------------
(***************************************************************************)
(* What a step of one copier leaves alone.                                 *)
(***************************************************************************)

\* Whether copier b is where it was, with all it knows.
Untouched(b) ==
    /\ cpc'[b] = cpc[b] /\ expected'[b] = expected[b] /\ lines'[b] = lines[b]
    /\ next'[b] = next[b] /\ seen'[b] = seen[b] /\ todo'[b] = todo[b]

\* How a step of copier c treats its own staging directory.
StagingMove(c) ==
    \/ /\ staging' = staging
       /\ cpc'[c] \in {"copying", "compare"} => Staging(c)
    \/ /\ cpc[c] = "stage" /\ cpc'[c] = "copying"
       /\ staging[Target(c)] = Absent
       /\ staging'[Target(c)] = NoFiles
    \/ /\ Staging(c)
       /\ cpc'[c] \in {"copying", "compare"} => staging'[Target(c)] # Absent

LEMMA CopierFrame ==
    ASSUME CopyTypeOK, OneStagingWriter, NEW c \in Copiers, CopierMove(c)
    PROVE  /\ UNCHANGED <<made, store, drifted, src, root>>
           /\ \A b \in Copiers : b # c => Untouched(b)
           /\ \A t \in Targets : t # Target(c) =>
                staging'[t] = staging[t] /\ final'[t] = final[t] /\ inner'[t] = inner[t]
           /\ StagingMove(c)
  <1>1. /\ DOMAIN cpc = Copiers /\ DOMAIN expected = Copiers /\ DOMAIN lines = Copiers
        /\ DOMAIN next = Copiers /\ DOMAIN seen = Copiers /\ DOMAIN todo = Copiers
        /\ DOMAIN staging = Targets /\ DOMAIN final = Targets /\ DOMAIN inner = Targets
        /\ Target(c) \in Targets
    BY SourceFacts DEF CopyTypeOK
  <1> USE DEF sourceVars, copierVars, targetVars, Untouched, StagingMove, CopyGoto, Staging
  <1>2. CASE BeginCopy(c) \/ ReadManifest(c) \/ ReadListing(c)
    BY <1>1, <1>2 DEF BeginCopy, ReadManifest, ReadListing
  <1>3. CASE VerifyLine(c) \/ CheckTargets(c) \/ CopierDies(c)
    BY <1>1, <1>3 DEF VerifyLine, CheckTargets, CopierDies
  <1>4. CASE MakeStaging(c)
    BY <1>1, <1>4 DEF MakeStaging, MayStage
  <1>5. CASE CopyFile(c)
    <2>0. PICK f \in Files : \E contents \in Written(f, Source(c)[f]) :
            staging' = [staging EXCEPT ![Target(c)] = [@ EXCEPT ![f] = contents]]
      BY <1>5 DEF CopyFile, Present
    <2>1. PICK contents \in Written(f, Source(c)[f]) :
            staging' = [staging EXCEPT ![Target(c)] = [@ EXCEPT ![f] = contents]]
      BY <2>0
    <2>2. staging[Target(c)] # Absent /\ staging[Target(c)] \in Trees
      BY <1>1, <1>5 DEF CopyFile, OneStagingWriter, CopyTypeOK
    <2>3. staging'[Target(c)] = [staging[Target(c)] EXCEPT ![f] = contents]
      BY <1>1, <2>1
    <2>4. staging'[Target(c)] # Absent
      <3>1. contents \in Bytes \cup {Absent, Partial} \cup Manifests \cup Listings
        BY WrittenFacts
      <3>2. QED
        BY <2>2, <2>3, <3>1, CopyAssumption DEF Trees
    <2>5. QED
      BY <1>1, <1>5, <2>1, <2>4 DEF CopyFile
  <1>6. CASE EnumerateFiles(c) \/ CompareFile(c) \/ PublishFails(c)
    BY <1>1, <1>6 DEF EnumerateFiles, CompareFile, PublishFails
  <1>7. CASE Publish(c)
    BY <1>1, <1>7 DEF Publish, MoveItem
  <1>8. QED
    BY <1>2, <1>3, <1>4, <1>5, <1>6, <1>7 DEF CopierMove, CopierStep
-----------------------------------------------------------------------------
(***************************************************************************)
(* Verification of the listing.                                            *)
(***************************************************************************)

\* One more line verified: one more expected path seen.
LEMMA LineAdds ==
    ASSUME CopyInv, NEW c \in Copiers, cpc[c] = "verify",
           LineIsGood(c, lines[c][next[c]])
    PROVE  LET now == SeenWith(c, lines[c][next[c]]) IN
           /\ now \subseteq ExpectedKeys(c)
           /\ now \in SUBSET Paths
           /\ Cardinality(now) = next[c]
           /\ next[c] = Len(lines[c]) => now = ExpectedKeys(c)
           /\ \A p \in now : Source(c)[p] = expected[c][p[2]] \/ <<src[c], p>> \in drifted
  <1> DEFINE p == lines[c][next[c]].path
  <1>1. /\ CopyTypeOK
        /\ expected[c] \in Manifests
        /\ next[c] \in 1 .. Len(lines[c])
        /\ Len(lines[c]) \in Nat
        /\ seen[c] \subseteq ExpectedKeys(c)
        /\ Cardinality(seen[c]) = next[c] - 1
        /\ Len(lines[c]) = Cardinality(ExpectedKeys(c))
    <2>1. CopyTypeOK /\ LinesOK(c)
      BY DEF CopyInv
    <2>2. lines[c] \in Seq(Lines)
      BY <2>1 DEF CopyTypeOK, Listings
    <2>3. QED
      BY <2>1, <2>2, LenProperties DEF LinesOK, PastListing, CopyTypeOK
  <1>2. /\ IsFiniteSet(ExpectedKeys(c))
        /\ ExpectedKeys(c) \subseteq Paths
    BY <1>1, KeysAreFinite
  <1>3. p \in ExpectedKeys(c) /\ p \notin seen[c]
    BY DEF LineIsGood
  <1>4. IsFiniteSet(seen[c])
    BY <1>1, <1>2, FS_Subset
  <1>5. Cardinality(seen[c] \cup {p}) = Cardinality(seen[c]) + 1
    BY <1>3, <1>4, FS_AddElement
  <1>6. seen[c] \cup {p} \subseteq ExpectedKeys(c)
    BY <1>1, <1>3
  <1>7. next[c] = Len(lines[c]) => seen[c] \cup {p} = ExpectedKeys(c)
    <2> HIDE DEF p
    <2> QED BY <1>1, <1>2, <1>5, <1>6, FS_Subset
  <1>8. \A q \in seen[c] \cup {p} :
           Source(c)[q] = expected[c][q[2]] \/ <<src[c], q>> \in drifted
    <2>1. \A q \in seen[c] : Source(c)[q] = expected[c][q[2]] \/ <<src[c], q>> \in drifted
      BY DEF CopyInv, SourceOK, PastListing
    <2>2. Source(c)[p] = expected[c][p[2]]
      BY DEF LineIsGood
    <2>3. QED
      BY <2>1, <2>2
  <1>9. SeenWith(c, lines[c][next[c]]) = seen[c] \cup {p}
    BY DEF SeenWith
  <1>10. Cardinality(seen[c] \cup {p}) = next[c]
    BY <1>1, <1>5
  <1>11. seen[c] \cup {p} \subseteq Paths
    BY <1>2, <1>6
  <1>12. QED
    BY <1>6, <1>7, <1>8, <1>9, <1>10, <1>11
-----------------------------------------------------------------------------
(***************************************************************************)
(* What a step does to the copier that takes it.                           *)
(***************************************************************************)

CopierEffect(c) ==
    /\ CopyTypeOK'
    /\ LinesOK(c)'
    /\ SourceOK(c)'
    /\ ComparedOK(c)'

\* The steps up to the end of the verification.
LEMMA VerificationEffect ==
    ASSUME CopyInv, NEW c \in Copiers,
           BeginCopy(c) \/ ReadManifest(c) \/ ReadListing(c) \/ VerifyLine(c)
    PROVE  CopierEffect(c)
  <1>1. CopyTypeOK /\ LinesOK(c) /\ SourceOK(c)
    BY DEF CopyInv
  <1>2. /\ UNCHANGED <<made, store, drifted, src, root, todo, staging, final, inner>>
        /\ cpc'[c] # "compare"
    BY <1>1 DEF BeginCopy, ReadManifest, ReadListing, VerifyLine, CopyGoto, sourceVars,
                targetVars, CopyTypeOK
  <1>3. ComparedOK(c)'
    BY <1>2 DEF ComparedOK
  <1>4. CASE BeginCopy(c)
    <2>1. /\ cpc[c] = "begin" /\ cpc'[c] \in {"manifest", "refused"}
          /\ cpc' \in [Copiers -> CopyActive \cup CopyFinished]
          /\ UNCHANGED <<expected, lines, next, seen>>
      BY <1>1, <1>4 DEF BeginCopy, CopyGoto, CopyTypeOK, CopyActive, CopyFinished
    <2>2. CopyTypeOK'
      BY <1>1, <1>2, <2>1 DEF CopyTypeOK, StoreTypeOK, IsStore
    <2>3. LinesOK(c)' /\ SourceOK(c)'
      BY <1>1, <2>1 DEF LinesOK, SourceOK, BeforeLines, PastListing, PastManifest,
                        PastVerification
    <2>4. QED
      BY <1>3, <2>2, <2>3 DEF CopierEffect
  <1>5. CASE ReadManifest(c)
    <2>1. /\ cpc[c] = "manifest" /\ cpc'[c] \in {"listing", "refused"}
          /\ cpc' \in [Copiers -> CopyActive \cup CopyFinished]
          /\ UNCHANGED <<lines, next, seen>>
          /\ expected' \in [Copiers -> Manifests]
          /\ cpc'[c] = "listing" => expected'[c] = Source(c)[ManifestFile]
      BY <1>1, <1>5, SourceFacts
        DEF ReadManifest, CopyGoto, CopyTypeOK, CopyActive, CopyFinished
    <2>2. CopyTypeOK'
      BY <1>1, <1>2, <2>1 DEF CopyTypeOK, StoreTypeOK, IsStore
    <2>3. LinesOK(c)' /\ SourceOK(c)'
      BY <1>1, <1>2, <2>1 DEF LinesOK, SourceOK, BeforeLines, PastListing, PastManifest,
                              PastVerification, Source
    <2>4. QED
      BY <1>3, <2>2, <2>3 DEF CopierEffect
  <1>6. CASE ReadListing(c)
    <2>1. /\ cpc[c] = "listing" /\ cpc'[c] \in {"verify", "targets", "refused"}
          /\ cpc' \in [Copiers -> CopyActive \cup CopyFinished]
          /\ UNCHANGED <<expected, next, seen>>
          /\ lines' \in [Copiers -> Listings]
          /\ cpc'[c] # "refused" =>
               /\ lines'[c] = Source(c)[SumsFile]
               /\ Len(lines'[c]) = Cardinality(ExpectedKeys(c))
               /\ cpc'[c] = "targets" <=> lines'[c] = <<>>
      BY <1>1, <1>6, SourceFacts
        DEF ReadListing, CountMatches, CopyGoto, CopyTypeOK, CopyActive, CopyFinished
    <2>2. CopyTypeOK'
      BY <1>1, <1>2, <2>1 DEF CopyTypeOK, StoreTypeOK, IsStore
    <2>3. next[c] = 1 /\ seen[c] = {} /\ Source(c)[ManifestFile] = expected[c]
      BY <1>1, <2>1 DEF LinesOK, SourceOK, BeforeLines, PastManifest
    <2>4. Cardinality({}) = 0 /\ IsFiniteSet(ExpectedKeys(c))
      BY <1>1, FS_EmptySet, KeysAreFinite DEF CopyTypeOK
    <2>5. lines'[c] \in Seq(Lines)
      BY <2>1 DEF Listings
    <2>6. CASE cpc'[c] = "verify"
      <3>1. 1 \in 1 .. Len(lines'[c])
        BY <2>1, <2>5, <2>6, EmptySeq, LenProperties
      <3>2. LinesOK(c)'
        BY <2>1, <2>3, <2>4, <2>6, <3>1 DEF LinesOK, BeforeLines, PastListing, PastVerification,
                                            ExpectedKeys
      <3>3. SourceOK(c)'
        BY <1>2, <2>1, <2>3, <2>6 DEF SourceOK, PastManifest, PastListing, Source
      <3>4. QED
        BY <1>3, <2>2, <3>2, <3>3 DEF CopierEffect
    <2>7. CASE cpc'[c] = "targets"
      <3>1. Cardinality(ExpectedKeys(c)) = 0
        BY <2>1, <2>7, EmptySeq
      <3>2. ExpectedKeys(c) = {}
        BY <2>4, <3>1, FS_EmptySet
      <3>3. LinesOK(c)'
        BY <2>1, <2>3, <2>7, <3>2 DEF LinesOK, BeforeLines, PastListing, PastVerification,
                                      ExpectedKeys
      <3>4. SourceOK(c)'
        BY <1>2, <2>1, <2>3, <2>7 DEF SourceOK, PastManifest, PastListing, Source
      <3>5. QED
        BY <1>3, <2>2, <3>3, <3>4 DEF CopierEffect
    <2>8. CASE cpc'[c] = "refused"
      BY <1>3, <2>2, <2>8 DEF CopierEffect, LinesOK, SourceOK, BeforeLines, PastManifest,
                              PastListing, PastVerification
    <2>9. QED
      BY <2>1, <2>6, <2>7, <2>8
  <1>7. CASE VerifyLine(c)
    <2>1. /\ cpc[c] = "verify" /\ cpc'[c] \in {"verify", "targets", "refused"}
          /\ cpc' \in [Copiers -> CopyActive \cup CopyFinished]
          /\ UNCHANGED <<expected, lines>>
      BY <1>1, <1>7 DEF VerifyLine, CopyGoto, CopyTypeOK, CopyActive, CopyFinished
    <2>2. CASE LineIsGood(c, lines[c][next[c]])
      <3> DEFINE now == SeenWith(c, lines[c][next[c]])
      <3>1. /\ now \subseteq ExpectedKeys(c)
            /\ now \in SUBSET Paths
            /\ Cardinality(now) = next[c]
            /\ next[c] = Len(lines[c]) => now = ExpectedKeys(c)
            /\ \A p \in now : Source(c)[p] = expected[c][p[2]] \/ <<src[c], p>> \in drifted
        BY <2>1, <2>2, LineAdds
      <3>2. /\ seen' = [seen EXCEPT ![c] = now]
            /\ next' = [next EXCEPT ![c] = @ + 1]
            /\ cpc'[c] = IF next[c] < Len(lines[c]) THEN "verify" ELSE "targets"
        BY <1>1, <1>7, <2>2 DEF VerifyLine, CopyGoto, CopyTypeOK
      <3> HIDE DEF now
      <3>3. /\ seen'[c] = now /\ seen' \in [Copiers -> SUBSET Paths]
            /\ next'[c] = next[c] + 1 /\ next' \in [Copiers -> Nat]
        BY <1>1, <3>1, <3>2 DEF CopyTypeOK
      <3>4. CopyTypeOK'
        BY <1>1, <1>2, <2>1, <3>3 DEF CopyTypeOK, StoreTypeOK, IsStore
      <3>5. /\ next[c] \in 1 .. Len(lines[c]) /\ Len(lines[c]) \in Nat
            /\ Len(lines[c]) = Cardinality(ExpectedKeys(c))
        <4>1. lines[c] \in Seq(Lines)
          BY <1>1 DEF CopyTypeOK, Listings
        <4>2. QED
          BY <1>1, <2>1, <4>1, LenProperties DEF LinesOK, PastListing
      <3>6. LinesOK(c)'
        BY <2>1, <3>1, <3>2, <3>3, <3>5 DEF LinesOK, BeforeLines, PastListing,
                                            PastVerification, ExpectedKeys
      <3>7. SourceOK(c)'
        BY <1>1, <1>2, <2>1, <3>1, <3>2, <3>3 DEF SourceOK, PastManifest, PastListing,
                                                  PastVerification, Source
      <3>8. QED
        BY <1>3, <3>4, <3>6, <3>7 DEF CopierEffect
    <2>3. CASE ~LineIsGood(c, lines[c][next[c]])
      <3>1. cpc'[c] = "refused" /\ UNCHANGED <<seen, next>>
        BY <1>1, <1>7, <2>3 DEF VerifyLine, CopyGoto, CopyTypeOK
      <3>2. CopyTypeOK'
        BY <1>1, <1>2, <2>1, <3>1 DEF CopyTypeOK, StoreTypeOK, IsStore
      <3>3. QED
        BY <1>3, <3>1, <3>2 DEF CopierEffect, LinesOK, SourceOK, BeforeLines, PastManifest,
                                PastListing, PastVerification
    <2>4. QED
      BY <2>2, <2>3
  <1>8. QED
    BY <1>4, <1>5, <1>6, <1>7

\* After the verification a copier keeps what it knows, or gives up.
LEMMA LaterKeeps ==
    ASSUME CopyInv, NEW c \in Copiers,
           UNCHANGED <<store, drifted, src, root, expected, lines, next, seen>>,
           \/ cpc[c] \in PastVerification /\ cpc'[c] \in PastVerification
           \/ cpc'[c] \in {"refused", "failed", "dead"}
    PROVE  LinesOK(c)' /\ SourceOK(c)'
  BY DEF CopyInv, LinesOK, SourceOK, BeforeLines, PastManifest, PastListing, PastVerification,
         Source, ExpectedKeys

\* The steps from the target checks to the end that write nothing.
LEMMA QuietEffect ==
    ASSUME CopyInv, NEW c \in Copiers,
           CheckTargets(c) \/ EnumerateFiles(c) \/ CompareFile(c) \/ PublishFails(c) \/ CopierDies(c)
    PROVE  CopierEffect(c)
  <1>1. CopyTypeOK /\ ComparedOK(c)
    BY DEF CopyInv
  <1>2. UNCHANGED <<made, store, drifted, src, root, expected, lines, next, seen,
                    staging, final, inner>>
    BY DEF CheckTargets, EnumerateFiles, CompareFile, PublishFails, CopierDies, sourceVars,
           targetVars
  <1>3. /\ cpc' \in [Copiers -> CopyActive \cup CopyFinished]
        /\ \/ cpc[c] \in PastVerification /\ cpc'[c] \in PastVerification
           \/ cpc'[c] \in {"refused", "failed", "dead"}
    BY <1>1 DEF CheckTargets, EnumerateFiles, CompareFile, PublishFails, CopierDies, CopyGoto,
                CopyTypeOK, CopyActive, CopyFinished, PastVerification
  <1>4. LinesOK(c)' /\ SourceOK(c)'
    BY <1>2, <1>3, LaterKeeps
  <1>5. todo' \in [Copiers -> SUBSET Files]
    BY <1>1 DEF CheckTargets, EnumerateFiles, CompareFile, PublishFails, CopierDies, CopyTypeOK,
                Present
  <1>6. CopyTypeOK'
    BY <1>1, <1>2, <1>3, <1>5 DEF CopyTypeOK, StoreTypeOK, IsStore
  <1>7. ComparedOK(c)'
    <2>1. Source(c)' = Source(c) /\ Target(c)' = Target(c)
      BY <1>2 DEF Source, Target
    <2>2. CASE EnumerateFiles(c)
      BY <1>1, <1>2, <2>1, <2>2 DEF EnumerateFiles, ComparedOK, CopyTypeOK, Present
    <2>3. CASE CompareFile(c)
      <3>1. PICK f \in todo[c] :
              \/ /\ CopyMatches(c, f)
                 /\ todo' = [todo EXCEPT ![c] = @ \ {f}]
              \/ cpc'[c] = "failed"
        BY <1>1, <2>3 DEF CompareFile, CopyGoto, CopyTypeOK
      <3>2. cpc[c] = "compare"
        BY <2>3 DEF CompareFile
      <3>3. CASE cpc'[c] = "failed"
        BY <3>3 DEF ComparedOK
      <3>4. CASE CopyMatches(c, f) /\ todo' = [todo EXCEPT ![c] = @ \ {f}]
        <4>1. todo'[c] = todo[c] \ {f} /\ staging[Target(c)][f] = Source(c)[f]
          BY <1>1, <3>4 DEF CopyTypeOK, CopyMatches
        <4>2. QED
          BY <1>1, <1>2, <2>1, <3>2, <4>1 DEF ComparedOK, Present
      <3>5. QED
        BY <3>1, <3>3, <3>4
    <2>4. CASE CheckTargets(c) \/ PublishFails(c) \/ CopierDies(c)
      <3>1. cpc'[c] # "compare"
        BY <1>1, <2>4 DEF CheckTargets, PublishFails, CopierDies, CopyGoto, CopyTypeOK
      <3>2. QED
        BY <3>1 DEF ComparedOK
    <2>5. QED
      BY <2>2, <2>3, <2>4
  <1>8. QED
    BY <1>4, <1>6, <1>7 DEF CopierEffect

\* The steps that write to the destination.
LEMMA WritingEffect ==
    ASSUME CopyInv, NEW c \in Copiers,
           MakeStaging(c) \/ CopyFile(c) \/ Publish(c)
    PROVE  CopierEffect(c)
  <1>1. CopyTypeOK /\ OneStagingWriter /\ Target(c) \in Targets
    BY SourceFacts DEF CopyInv
  <1>2. UNCHANGED <<made, store, drifted, src, root, expected, lines, next, seen, todo>>
    BY DEF MakeStaging, CopyFile, Publish, sourceVars, copierVars
  <1>3. /\ cpc' \in [Copiers -> CopyActive \cup CopyFinished]
        /\ \/ cpc[c] \in PastVerification /\ cpc'[c] \in PastVerification
           \/ cpc'[c] \in {"refused", "failed", "dead"}
        /\ cpc'[c] # "compare"
    BY <1>1 DEF MakeStaging, CopyFile, Publish, CopyGoto, copierVars, CopyTypeOK, CopyActive,
                CopyFinished, PastVerification
  <1>4. LinesOK(c)' /\ SourceOK(c)'
    BY <1>2, <1>3, LaterKeeps
  <1>5. /\ staging' \in [Targets -> {Absent} \cup Trees]
        /\ final' \in [Targets -> {Absent} \cup Trees]
        /\ inner' \in [Targets -> {Absent} \cup Trees]
    <2>1. /\ staging \in [Targets -> {Absent} \cup Trees]
          /\ final \in [Targets -> {Absent} \cup Trees]
          /\ inner \in [Targets -> {Absent} \cup Trees]
      BY <1>1 DEF CopyTypeOK
    <2>2. CASE MakeStaging(c)
      BY <1>1, <2>1, <2>2, CopyFileFacts DEF MakeStaging
    <2>3. CASE CopyFile(c)
      <3>1. PICK f \in Files : \E contents \in Written(f, Source(c)[f]) :
              staging' = [staging EXCEPT ![Target(c)] = [@ EXCEPT ![f] = contents]]
        BY <2>3 DEF CopyFile, Present
      <3>2. PICK contents \in Written(f, Source(c)[f]) :
              staging' = [staging EXCEPT ![Target(c)] = [@ EXCEPT ![f] = contents]]
        BY <3>1
      <3>3. contents \in Bytes \cup {Absent, Partial} \cup Manifests \cup Listings
        BY <1>1, WrittenFacts
      <3>4. staging[Target(c)] \in Trees
        BY <1>1, <2>3 DEF CopyFile, OneStagingWriter, Staging, CopyTypeOK
      <3>5. [staging[Target(c)] EXCEPT ![f] = contents] \in Trees
        BY <3>3, <3>4 DEF Trees
      <3>6. staging' \in [Targets -> {Absent} \cup Trees]
        BY <2>1, <3>2, <3>5
      <3>7. QED
        BY <2>1, <2>3, <3>6 DEF CopyFile
    <2>4. CASE Publish(c)
      BY <1>1, <2>1, <2>4 DEF Publish, MoveItem
    <2>5. QED
      BY <2>2, <2>3, <2>4
  <1>6. CopyTypeOK'
    BY <1>1, <1>2, <1>3, <1>5 DEF CopyTypeOK, StoreTypeOK, IsStore
  <1>7. ComparedOK(c)'
    BY <1>3 DEF ComparedOK
  <1>8. QED
    BY <1>4, <1>6, <1>7 DEF CopierEffect

LEMMA MoveEffect ==
    ASSUME CopyInv, NEW c \in Copiers, CopierMove(c)
    PROVE  CopierEffect(c)
  BY VerificationEffect, QuietEffect, WritingEffect DEF CopierMove, CopierStep
-----------------------------------------------------------------------------
(***************************************************************************)
(* What is published.                                                      *)
(***************************************************************************)

\* A source that was verified, and all of whose files have been compared with
\* their copies, makes a copy that proves itself.
LEMMA ComparedProvesItself ==
    ASSUME CopyInv, NEW c \in Copiers, cpc[c] = "compare", todo[c] = {}
    PROVE  LET copy == staging[Target(c)] IN
           /\ Complete(copy[ManifestFile])
           /\ Complete(copy[SumsFile])
           /\ \A p \in Passes \X DOMAIN copy[ManifestFile] :
                copy[p] = copy[ManifestFile][p[2]] \/ <<src[c], p>> \in drifted
  <1>1. /\ CopyTypeOK
        /\ expected[c] \in Manifests /\ lines[c] \in Listings
        /\ drifted \subseteq Dirs \X Paths
    BY DEF CopyInv, CopyTypeOK
  <1>2. /\ Source(c)[ManifestFile] = expected[c]
        /\ Source(c)[SumsFile] = lines[c]
        /\ \A p \in ExpectedKeys(c) :
             Source(c)[p] = expected[c][p[2]] \/ <<src[c], p>> \in drifted
        /\ \A f \in Present(Source(c)) :
             staging[Target(c)][f] = Source(c)[f] \/ <<src[c], f>> \in drifted
    BY DEF CopyInv, LinesOK, SourceOK, ComparedOK, PastManifest, PastListing, PastVerification
  <1>3. \A f \in {SumsFile, ManifestFile} : f \in Files /\ <<src[c], f>> \notin drifted
    BY <1>1, CopyFileFacts
  <1>4. /\ expected[c] # Absent /\ expected[c] # Partial
        /\ lines[c] # Absent /\ lines[c] # Partial
    BY <1>1, FilesAssumption
  <1>5. /\ staging[Target(c)][ManifestFile] = expected[c]
        /\ staging[Target(c)][SumsFile] = lines[c]
    BY <1>2, <1>3, <1>4 DEF Present
  <1>6. ASSUME NEW p \in ExpectedKeys(c), <<src[c], p>> \notin drifted
        PROVE  staging[Target(c)][p] = expected[c][p[2]]
    <2>1. Source(c)[p] = expected[c][p[2]] /\ p \in Paths /\ expected[c][p[2]] \in Bytes
      BY <1>1, <1>2, <1>6, KeysAreFinite
    <2>2. p \in Present(Source(c))
      BY <2>1, CopyFileFacts, FilesAssumption DEF Present
    <2>3. QED
      BY <1>2, <1>6, <2>1, <2>2
  <1>7. QED
    BY <1>4, <1>5, <1>6 DEF Complete, ExpectedKeys

\* Publication is the only step that changes a final directory, and it only
\* fills one that did not exist.
LEMMA FinalFacts ==
    ASSUME CopyTypeOK, NEW c \in Copiers, CopierMove(c), NEW t \in Targets
    PROVE  \/ final'[t] = final[t]
           \/ /\ Publish(c) /\ t = Target(c)
              /\ final[t] = Absent /\ final'[t] = staging[t]
  <1>1. DOMAIN final = Targets /\ Target(c) \in Targets
    BY SourceFacts DEF CopyTypeOK
  <1>2. CASE Publish(c)
    BY <1>1, <1>2 DEF Publish, MoveItem
  <1>3. CASE ~Publish(c)
    BY <1>3 DEF CopierMove, CopierStep, BeginCopy, ReadManifest, ReadListing, VerifyLine,
                CheckTargets, MakeStaging, CopyFile, EnumerateFiles, CompareFile, PublishFails,
                CopierDies, targetVars
  <1>4. QED
    BY <1>2, <1>3
-----------------------------------------------------------------------------
(***************************************************************************)
(* The other copiers, and drift.                                           *)
(***************************************************************************)

\* A step of one copier leaves the staging directory of another one alone.
LEMMA StagingUndisturbed ==
    ASSUME CopyTypeOK, OneStagingWriter, NEW c \in Copiers, CopierMove(c),
           NEW b \in Copiers, b # c, Staging(b)
    PROVE  staging'[Target(b)] = staging[Target(b)]
  <1>1. Target(b) \in Targets
    BY SourceFacts
  <1>2. /\ \A t \in Targets : t # Target(c) => staging'[t] = staging[t]
        /\ StagingMove(c)
    BY CopierFrame
  <1>3. staging[Target(b)] # Absent /\ (Staging(c) => Target(b) # Target(c))
    BY DEF OneStagingWriter
  <1>4. QED
    BY <1>1, <1>2, <1>3 DEF StagingMove

LEMMA OthersKnow ==
    ASSUME CopyInv, NEW c \in Copiers, CopierMove(c), NEW b \in Copiers, b # c
    PROVE  LinesOK(b)' /\ SourceOK(b)' /\ ComparedOK(b)'
  <1>1. CopyTypeOK /\ OneStagingWriter /\ LinesOK(b) /\ SourceOK(b) /\ ComparedOK(b)
    BY DEF CopyInv
  <1>2. UNCHANGED <<made, store, drifted, src, root>> /\ Untouched(b)
    BY <1>1, CopierFrame
  <1>3. /\ ExpectedKeys(b)' = ExpectedKeys(b) /\ Source(b)' = Source(b)
        /\ Target(b)' = Target(b)
    BY <1>2 DEF Untouched, ExpectedKeys, Source, Target
  <1>4. LinesOK(b)'
    BY <1>1, <1>2, <1>3 DEF LinesOK, Untouched
  <1>5. SourceOK(b)'
    BY <1>1, <1>2, <1>3 DEF SourceOK, Untouched
  <1>6. ComparedOK(b)'
    <2>1. cpc[b] = "compare" => staging'[Target(b)] = staging[Target(b)]
      BY <1>1, StagingUndisturbed DEF Staging
    <2>2. QED
      BY <1>1, <1>2, <1>3, <2>1 DEF ComparedOK, Untouched, Present
  <1>7. QED
    BY <1>4, <1>5, <1>6

\* Drift changes one artifact that is there, and is remembered by whom it concerns.
LEMMA DriftFacts ==
    ASSUME CopyTypeOK, Drift
    PROVE  /\ CopyTypeOK'
           /\ drifted \subseteq drifted'
           /\ \A d \in Dirs, f \in Files : store'[d][f] = Absent <=> store[d][f] = Absent
           /\ \A c \in Copiers, f \in Files :
                f \in seen[c] \/ cpc[c] \in PastVerification =>
                  store'[src[c]][f] = store[src[c]][f] \/ <<src[c], f>> \in drifted'
           /\ \A d \in Dirs, f \in MetadataFiles : store'[d][f] = store[d][f]
  <1>1. PICK d \in Dirs, p \in Paths : \E b \in Bytes :
          /\ store[d][p] \notin {Absent, b}
          /\ store' = [store EXCEPT ![d] = [@ EXCEPT ![p] = b]]
          /\ drifted' = IF ReliedUpon(d, p) THEN drifted \cup {<<d, p>>} ELSE drifted
    BY DEF Drift
  <1>2. PICK b \in Bytes :
          /\ store[d][p] \notin {Absent, b}
          /\ store' = [store EXCEPT ![d] = [@ EXCEPT ![p] = b]]
          /\ drifted' = IF ReliedUpon(d, p) THEN drifted \cup {<<d, p>>} ELSE drifted
    BY <1>1
  <1> DEFINE new == [store[d] EXCEPT ![p] = b]
  <1>3. store \in [Dirs -> Trees] /\ store[d] \in Trees
    BY DEF CopyTypeOK, StoreTypeOK, IsStore
  <1>4. p \in Files /\ p \notin MetadataFiles /\ MetadataFiles \subseteq Files
    BY CopyFileFacts DEF MetadataFiles
  <1>5. new \in Trees
    BY <1>3, <1>4 DEF Trees
  <1>6. new[p] = b /\ \A f \in Files : f # p => new[f] = store[d][f]
    BY <1>3, <1>4 DEF Trees
  <1>7. /\ store' \in [Dirs -> Trees]
        /\ store'[d] = new /\ \A x \in Dirs : x # d => store'[x] = store[x]
    <2> HIDE DEF new
    <2>1. store' = [store EXCEPT ![d] = new]
      BY <1>2 DEF new
    <2>2. QED
      BY <1>3, <1>5, <2>1
  <1> HIDE DEF new
  <1>8. \A x \in Dirs, f \in Files :
          store'[x][f] = IF x = d /\ f = p THEN b ELSE store[x][f]
    BY <1>6, <1>7
  <1>9. b # Absent
    BY FilesAssumption
  <1>10. IsStore(store)'
    <2>1. \A x \in Dirs : /\ \A q \in Paths : store'[x][q] \in Bytes \cup {Absent}
                           /\ store'[x][SumsFile] = store[x][SumsFile]
                           /\ store'[x][ManifestFile] = store[x][ManifestFile]
      BY <1>8, CopyFileFacts DEF CopyTypeOK, StoreTypeOK, IsStore
    <2>2. QED
      BY <1>7, <2>1 DEF CopyTypeOK, StoreTypeOK, IsStore
  <1>11. CopyTypeOK'
    BY <1>2, <1>10 DEF Drift, copierVars, targetVars, CopyTypeOK, StoreTypeOK
  <1>12. /\ drifted \subseteq drifted'
         /\ \A x \in Dirs, f \in Files : store'[x][f] = Absent <=> store[x][f] = Absent
    BY <1>2, <1>8, <1>9
  <1>14. ASSUME NEW c \in Copiers, NEW f \in Files, f \in seen[c] \/ cpc[c] \in PastVerification
         PROVE  store'[src[c]][f] = store[src[c]][f] \/ <<src[c], f>> \in drifted'
    <2>1. src[c] \in Dirs
      BY DEF CopyTypeOK
    <2>2. CASE src[c] = d /\ f = p
      <3>1. ReliedUpon(d, p)
        BY <1>14, <2>2 DEF ReliedUpon
      <3>2. QED
        BY <1>2, <2>2, <3>1
    <2>3. CASE ~(src[c] = d /\ f = p)
      BY <1>8, <2>1, <2>3
    <2>4. QED
      BY <2>2, <2>3
  <1>13. \A x \in Dirs, f \in MetadataFiles : store'[x][f] = store[x][f]
    BY <1>4, <1>8
  <1>15. QED
    BY <1>11, <1>12, <1>13, <1>14

LEMMA DriftStep == CopyInv /\ Drift => CopyInv'
  <1> SUFFICES ASSUME CopyInv, Drift PROVE CopyInv'
    OBVIOUS
  <1>1. CopyTypeOK /\ UNCHANGED <<copierVars, targetVars>>
    BY DEF CopyInv, Drift
  <1>2. /\ UNCHANGED <<cpc, src, root, expected, lines, next, seen, todo>>
        /\ UNCHANGED <<staging, final, inner>>
    BY <1>1 DEF copierVars, targetVars
  <1>3. /\ CopyTypeOK'
        /\ drifted \subseteq drifted'
        /\ \A d \in Dirs, f \in Files : store'[d][f] = Absent <=> store[d][f] = Absent
        /\ \A c \in Copiers, f \in Files :
             f \in seen[c] \/ cpc[c] \in PastVerification =>
               store'[src[c]][f] = store[src[c]][f] \/ <<src[c], f>> \in drifted'
        /\ \A d \in Dirs, f \in MetadataFiles : store'[d][f] = store[d][f]
    BY <1>1, DriftFacts
  <1>4. OneStagingWriter'
    BY <1>2 DEF CopyInv, OneStagingWriter, Staging, Target
  <1>5. PublishedProvesItself'
    BY <1>2, <1>3 DEF CopyInv, PublishedProvesItself
  <1>6. ASSUME NEW c \in Copiers
        PROVE  LinesOK(c)' /\ SourceOK(c)' /\ ComparedOK(c)'
    <2>1. /\ LinesOK(c) /\ SourceOK(c) /\ ComparedOK(c) /\ src[c] \in Dirs
          /\ expected[c] \in Manifests /\ seen[c] \subseteq Paths
      BY DEF CopyInv, CopyTypeOK
    <2>2. LinesOK(c)'
      BY <1>2, <2>1 DEF LinesOK, ExpectedKeys
    <2>3. SourceOK(c)'
      <3>1. SumsFile \in MetadataFiles /\ ManifestFile \in MetadataFiles
        BY DEF MetadataFiles
      <3>2. \A p \in seen[c] : p \in Files
        BY <2>1, CopyFileFacts
      <3>3. QED
        BY <1>2, <1>3, <2>1, <3>1, <3>2 DEF SourceOK, Source
    <2>4. ComparedOK(c)'
      <3>1. Present(Source(c))' = Present(Source(c))
        BY <1>2, <1>3, <2>1 DEF Present, Source
      <3>2. \A f \in Present(Source(c)) : f \in Files
        BY DEF Present
      <3>3. QED
        BY <1>2, <1>3, <2>1, <3>1, <3>2 DEF ComparedOK, Source, Target, PastVerification
    <2>5. QED
      BY <2>2, <2>3, <2>4
  <1>7. QED
    BY <1>3, <1>4, <1>5, <1>6 DEF CopyInv
-----------------------------------------------------------------------------
(***************************************************************************)
(* The invariant.                                                          *)
(***************************************************************************)

\* Copiers that have not begun, over any store.
LEMMA CopierInvInit == StoreTypeOK /\ CopierInit => CopyInv
  <1> SUFFICES ASSUME StoreTypeOK, CopierInit PROVE CopyInv
    OBVIOUS
  <1> USE DEF CopierInit
  <1>1. CopyTypeOK
    <2>1. cpc \in [Copiers -> CopyActive \cup CopyFinished]
      BY DEF CopyActive
    <2>2. expected \in [Copiers -> Manifests] /\ lines \in [Copiers -> Listings]
      BY EmptyManifest
    <2>3. QED
      BY <2>1, <2>2 DEF CopyTypeOK
  <1>2. OneStagingWriter
    BY DEF OneStagingWriter, Staging
  <1>3. ASSUME NEW c \in Copiers
        PROVE  LinesOK(c) /\ SourceOK(c) /\ ComparedOK(c)
    <2>1. cpc[c] = "begin" /\ next[c] = 1 /\ seen[c] = {}
      OBVIOUS
    <2>2. QED
      BY <2>1 DEF LinesOK, SourceOK, ComparedOK, PastManifest, PastListing, PastVerification
  <1>4. PublishedProvesItself
    BY DEF PublishedProvesItself
  <1>5. QED
    BY <1>1, <1>2, <1>3, <1>4 DEF CopyInv

LEMMA CopyInvInit == CopyInit => CopyInv
  <1>1. CopyInit => StoreTypeOK
    BY CopyAssumption DEF CopyInit, StoreTypeOK
  <1>2. QED
    BY <1>1, CopierInvInit DEF CopyInit

\* A copier's step keeps the staging directories to one writer each.
LEMMA WritersStay ==
    ASSUME CopyInv, NEW c \in Copiers, CopierMove(c)
    PROVE  OneStagingWriter'
  <1>1. CopyTypeOK /\ OneStagingWriter
    BY DEF CopyInv
  <1>2. /\ UNCHANGED <<src, root>>
        /\ \A b \in Copiers : b # c => cpc'[b] = cpc[b]
        /\ StagingMove(c)
    BY <1>1, CopierFrame DEF Untouched
  <1>3. \A b \in Copiers : Target(b)' = Target(b)
    BY <1>2 DEF Target
  <1>4. \A b \in Copiers : b # c => (Staging(b)' <=> Staging(b))
    BY <1>2 DEF Staging
  <1>5. ASSUME NEW b \in Copiers, Staging(b)'
        PROVE  staging'[Target(b)] # Absent
    <2>1. CASE b = c
      BY <1>1, <1>2, <1>5, <2>1, CopyFileFacts DEF StagingMove, OneStagingWriter, Staging
    <2>2. CASE b # c
      BY <1>1, <1>4, <1>5, <2>2, StagingUndisturbed DEF OneStagingWriter
    <2>3. QED
      BY <2>1, <2>2
  <1>6. ASSUME NEW b \in Copiers, b # c, Staging(b)', Staging(c)'
        PROVE  Target(b) # Target(c)
    <2>1. Staging(b) /\ staging[Target(b)] # Absent
      BY <1>1, <1>4, <1>6 DEF OneStagingWriter
    <2>2. Staging(c) \/ staging[Target(c)] = Absent
      BY <1>2, <1>6 DEF StagingMove, Staging
    <2>3. QED
      BY <1>1, <1>6, <2>1, <2>2 DEF OneStagingWriter
  <1>7. ASSUME NEW a \in Copiers, NEW b \in Copiers, Staging(a)', Staging(b)',
               Target(a) = Target(b)
        PROVE  a = b
    <2>1. CASE a # c /\ b # c
      BY <1>1, <1>4, <1>7, <2>1 DEF OneStagingWriter
    <2>2. CASE a = c \/ b = c
      BY <1>6, <1>7, <2>2
    <2>3. QED
      BY <2>1, <2>2
  <1>8. QED
    BY <1>3, <1>5, <1>7 DEF OneStagingWriter

\* A copier's step publishes nothing but a copy that proves itself.
LEMMA PublicationProves ==
    ASSUME CopyInv, NEW c \in Copiers, CopierMove(c)
    PROVE  PublishedProvesItself'
  <1>1. CopyTypeOK /\ OneStagingWriter /\ PublishedProvesItself
    BY DEF CopyInv
  <1>2. drifted' = drifted
    BY <1>1, CopierFrame
  <1>3. ASSUME NEW t \in Targets, final'[t] # Absent
        PROVE  /\ Complete(final'[t][ManifestFile])
               /\ Complete(final'[t][SumsFile])
               /\ \A p \in Passes \X DOMAIN final'[t][ManifestFile] :
                    \/ final'[t][p] = final'[t][ManifestFile][p[2]]
                    \/ <<t[2], p>> \in drifted
    <2>1. CASE final'[t] = final[t]
      BY <1>1, <1>3, <2>1 DEF PublishedProvesItself
    <2>2. CASE Publish(c) /\ t = Target(c) /\ final'[t] = staging[t]
      <3>1. cpc[c] = "compare" /\ todo[c] = {} /\ t[2] = src[c]
        BY <2>2 DEF Publish, Target
      <3>2. QED
        BY <2>2, <3>1, ComparedProvesItself
    <2>3. QED
      BY <1>1, <2>1, <2>2, FinalFacts
  <1>4. QED
    BY <1>2, <1>3 DEF PublishedProvesItself

LEMMA CopyInvStep == CopyInv /\ [CopyNext]_copyVars => CopyInv'
  <1> SUFFICES ASSUME CopyInv, [CopyNext]_copyVars PROVE CopyInv'
    OBVIOUS
  <1>1. ASSUME NEW c \in Copiers, CopierMove(c) PROVE CopyInv'
    <2>1. CopyTypeOK' /\ LinesOK(c)' /\ SourceOK(c)' /\ ComparedOK(c)'
      BY <1>1, MoveEffect DEF CopierEffect
    <2>2. \A b \in Copiers : b # c => LinesOK(b)' /\ SourceOK(b)' /\ ComparedOK(b)'
      BY <1>1, OthersKnow
    <2>3. \A b \in Copiers : LinesOK(b)' /\ SourceOK(b)' /\ ComparedOK(b)'
      BY <2>1, <2>2
    <2>4. OneStagingWriter' /\ PublishedProvesItself'
      BY <1>1, WritersStay, PublicationProves
    <2>5. QED
      BY <2>1, <2>3, <2>4 DEF CopyInv
  <1>2. CASE Drift
    BY <1>2, DriftStep
  <1>3. CASE UNCHANGED copyVars
    <2>1. /\ UNCHANGED <<made, store, drifted>>
          /\ UNCHANGED <<cpc, src, root, expected, lines, next, seen, todo>>
          /\ UNCHANGED <<staging, final, inner>>
      BY <1>3 DEF copyVars, sourceVars, copierVars, targetVars
    <2>2. CopyTypeOK' /\ OneStagingWriter' /\ PublishedProvesItself'
      BY <2>1 DEF CopyInv, CopyTypeOK, StoreTypeOK, IsStore, OneStagingWriter, Staging, Target,
                  PublishedProvesItself
    <2>3. ASSUME NEW c \in Copiers
          PROVE  LinesOK(c)' /\ SourceOK(c)' /\ ComparedOK(c)'
      BY <2>1 DEF CopyInv, LinesOK, SourceOK, ComparedOK, ExpectedKeys, Source, Target, Present
    <2>4. QED
      BY <2>2, <2>3 DEF CopyInv
  <1>4. QED
    BY <1>1, <1>2, <1>3 DEF CopyNext, CopierMove
-----------------------------------------------------------------------------
(***************************************************************************)
(* Theorems.                                                               *)
(***************************************************************************)

\* The invariant holds throughout: types, one writer per staging directory,
\* the arithmetic of the verification loop, what a copier knows of its source
\* and of its copy, and the soundness of what is published.
THEOREM CopyInvHolds == CopySpec => []CopyInv
  <1>1. QED
    BY CopyInvInit, CopyInvStep, PTL DEF CopySpec

\* Type correctness of the copy script's model.
THEOREM CopyTyping == CopySpec => []CopyTypeOK
  <1>1. CopyInv => CopyTypeOK
    BY DEF CopyInv
  <1>2. QED
    BY <1>1, CopyInvHolds, PTL

\* Past the loop over SHA256SUMS.txt every artifact of the manifest has been
\* hashed in both passes: no count, order or repetition of lines leaves one
\* out (the loop and the count check of copy-verified-recovery.ps1).
THEOREM VerificationMissesNothing == CopySpec => []VerificationIsComplete
  <1>1. CopyInv => VerificationIsComplete
    <2> SUFFICES ASSUME CopyInv, NEW c \in Copiers, cpc[c] \in PastVerification,
                        NEW p \in ExpectedKeys(c)
                 PROVE  Source(c)[p] = expected[c][p[2]] \/ <<src[c], p>> \in drifted
      BY DEF VerificationIsComplete
    <2>1. LinesOK(c) /\ SourceOK(c)
      BY DEF CopyInv
    <2>2. p \in seen[c]
      BY <2>1 DEF LinesOK
    <2>3. QED
      BY <2>1, <2>2 DEF SourceOK, PastListing
  <1>2. QED
    BY <1>1, CopyInvHolds, PTL

\* However copiers overlap and die, between New-Item and Move-Item a staging
\* directory belongs to one of them and does not disappear under it.
THEOREM StagingHasOneWriter == CopySpec => []OneStagingWriter
  <1>1. CopyInv => OneStagingWriter
    BY DEF CopyInv
  <1>2. QED
    BY <1>1, CopyInvHolds, PTL

\* Whatever the destination disk, other copiers and the source disk do, a
\* published directory holds a manifest, a listing and the recorded artifacts,
\* twice, but for those that changed on the source disk meanwhile.
THEOREM PublishedCopiesProveThemselves == CopySpec => []PublishedProvesItself
  <1>1. CopyInv => PublishedProvesItself
    BY DEF CopyInv
  <1>2. QED
    BY <1>1, CopyInvHolds, PTL

\* Once published, the files of a copy stay as they are: Move-Item only ever
\* renames onto a path that does not exist.
THEOREM PublishedFilesAreNeverChanged == CopySpec => PublishedFilesStay
  <1>1. CopyTypeOK /\ [CopyNext]_copyVars
          => [\A t \in Targets : final[t] # Absent => final'[t] = final[t]]_copyVars
    <2> SUFFICES ASSUME CopyTypeOK, CopyNext, NEW t \in Targets, final[t] # Absent
                 PROVE  final'[t] = final[t]
      OBVIOUS
    <2>1. ASSUME NEW c \in Copiers, CopierMove(c) PROVE final'[t] = final[t]
      BY <2>1, FinalFacts
    <2>2. CASE Drift
      BY <2>2 DEF Drift, targetVars
    <2>3. QED
      BY <2>1, <2>2 DEF CopyNext, CopierMove
  <1>2. QED
    BY <1>1, CopyTyping, PTL DEF CopySpec, PublishedFilesStay

\* A staging directory only goes away by becoming, whole, a published one:
\* no death and no refusal removes what was copied so far.
THEOREM StagingIsLeftForInspection == CopySpec => StagingIsLeft
  <1>1. CopyInv /\ [CopyNext]_copyVars
          => [\A t \in Targets : staging[t] # Absent /\ staging'[t] = Absent
                => staging[t] \in {final'[t], inner'[t]}]_copyVars
    <2> SUFFICES ASSUME CopyInv, CopyNext, NEW t \in Targets,
                        staging[t] # Absent, staging'[t] = Absent
                 PROVE  staging[t] \in {final'[t], inner'[t]}
      OBVIOUS
    <2>1. CopyTypeOK /\ OneStagingWriter
      BY DEF CopyInv
    <2>2. ASSUME NEW c \in Copiers, CopierMove(c)
          PROVE  staging[t] \in {final'[t], inner'[t]}
      <3>1. t = Target(c) /\ DOMAIN final = Targets /\ DOMAIN inner = Targets
        BY <2>1, <2>2, CopierFrame DEF CopyTypeOK
      <3>2. CASE Publish(c)
        BY <3>1, <3>2 DEF Publish, MoveItem
      <3>3. CASE MakeStaging(c)
        BY <2>1, <3>1, <3>3, CopyFileFacts DEF MakeStaging, MayStage, CopyTypeOK
      <3>4. CASE CopyFile(c)
        <4>1. Staging(c)'
          BY <3>4 DEF CopyFile, copierVars, Staging
        <4>2. Target(c)' = Target(c)
          BY <2>1, <2>2, CopierFrame DEF Target
        <4>3. staging'[Target(c)] # Absent
          BY <2>2, <4>1, <4>2, WritersStay DEF OneStagingWriter
        <4>4. QED
          BY <3>1, <4>3
      <3>5. CASE /\ ~Publish(c)
                 /\ ~MakeStaging(c)
                 /\ ~CopyFile(c)
        BY <2>2, <3>5 DEF CopierMove, CopierStep, BeginCopy, ReadManifest, ReadListing, VerifyLine,
                          CheckTargets, EnumerateFiles, CompareFile, PublishFails, CopierDies,
                          targetVars
      <3>6. QED
        BY <3>2, <3>3, <3>4, <3>5
    <2>3. CASE Drift
      BY <2>3 DEF Drift, targetVars
    <2>4. QED
      BY <2>2, <2>3 DEF CopyNext, CopierMove
  <1>2. QED
    BY <1>1, CopyInvHolds, PTL DEF CopySpec, StagingIsLeft
=============================================================================
