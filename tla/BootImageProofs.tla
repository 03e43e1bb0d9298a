-------------------------- MODULE BootImageProofs --------------------------
(***************************************************************************)
(* Proofs about the assembly of a boot image, for any kernels, ramdisks    *)
(* and options and any number of runs, builds and published files.         *)
(*                                                                         *)
(* What a run has compared stays true of its own copy of the parts; what   *)
(* it has hashed for the manifest agrees with that copy as long as no      *)
(* input has changed since; and what it writes goes where nothing was.     *)
(***************************************************************************)
EXTENDS BootImage, TLAPS

\* In write_idempotent.
WritingStages == {"check", "open", "fill", "replace"}

\* One run at a time; the manifest is only ever in the hands of a run.
OneRuns ==
    /\ \A a, b \in Assemblies : pc[a] \in Active /\ pc[b] \in Active => a = b
    /\ writing = "manifest" => \E a \in Assemblies : pc[a] \in WritingStages

\* The shape of what ImageTypeOK looks into.
ShapeOK ==
    /\ options \in [Assemblies -> Options]
    /\ DOMAIN final = Kinds
    /\ DOMAIN temp = Kinds

\* The files published so far are of the build that is publishing them, and a
\* complete list names one build.
BuildsOK ==
    /\ building # Absent =>
         \A i \in DOMAIN ArtifactOrder : i < step => published[ArtifactOrder[i]] = building
    /\ sums \notin {Absent, Partial} => \A f, g \in Artifacts : sums[f] = sums[g]

\* The ramdisks that run a may pack.
RamdisksFor(a) == IF options[a].personalized THEN Personal \cup {Partial} ELSE {Stock}

\* Inputs exist from their check on.
InputsOK(a) ==
    pc[a] \in Active =>
        /\ published["Image.gz"] # Absent
        /\ options[a].personalized => ramdisk # Absent

\* What the comparisons of run a have established.
ComparedOK(a) ==
    /\ pc[a] \in Active \ {"roundtrip", "pack"} => custom \in Images
    /\ pc[a] \in KernelCompared =>
         /\ custom.cmdline = options[a].cmdline
         /\ custom.kernel \in Kernels \cup {Partial}
         /\ writing = "image" /\ a \notin stale => custom.kernel = published["Image.gz"]
    /\ pc[a] \in Compared =>
         /\ custom.dtb = Stock
         /\ custom.ramdisk \in RamdisksFor(a)
         /\ Fits(custom)
    /\ pc[a] = "note" /\ a \notin stale => custom.ramdisk = Inputs(a).ramdisk

\* The manifest of an image.
Describing(image) ==
    [kernel |-> image.kernel, ramdisk |-> image.ramdisk, cmdline |-> image.cmdline, image |-> image]

\* What run a has put into its manifest.
NotedOK(a) ==
    /\ pc[a] \in WritingStages \cup {"hash"} /\ writing = "image" =>
         /\ manifest.ramdisk \in RamdisksFor(a)
         /\ a \notin stale => manifest.ramdisk = custom.ramdisk
    /\ pc[a] = "hash" => writing = "image" /\ final["image"] = custom
    /\ pc[a] \in WritingStages /\ writing = "manifest" =>
         /\ manifest \in Manifests
         /\ manifest.image = custom
         /\ final["image"] = custom
         /\ a \notin stale => manifest = Describing(custom)

\* Where run a writes there was nothing, and it moves there what it has written.
WritingOK(a) ==
    /\ pc[a] \in {"open", "fill", "replace"} => final[writing] = Absent
    /\ pc[a] = "replace" => temp[writing] = Content

\* A manifest is next to its image.
PairOK == final["manifest"] # Absent => final["manifest"].image = final["image"]

\* What ReportedIsRequested says of an image and run a.
Requested(a, image) ==
    /\ image.cmdline = options[a].cmdline /\ image.dtb = Stock
    /\ image.ramdisk # Stock <=> options[a].personalized
    /\ Damaged \notin {image[part] : part \in Parts}
    /\ Fits(image)

ReportedOK(a) ==
    pc[a] = "reported" =>
        /\ final["image"] # Absent /\ final["manifest"] # Absent
        /\ Requested(a, final["image"])
        /\ a \notin stale => final["manifest"] = Describing(final["image"])

RunOK(a) == InputsOK(a) /\ ComparedOK(a) /\ NotedOK(a) /\ WritingOK(a)

ImageInv ==
    /\ ImageTypeOK
    /\ ShapeOK
    /\ OneRuns
    /\ BuildsOK
    /\ PairOK
    /\ \A a \in Assemblies : RunOK(a) /\ ReportedOK(a)
-----------------------------------------------------------------------------
LEMMA ContentFacts ==
    /\ \A k \in Kernels \cup Personal \cup {Stock} \cup CommandLines :
         k # Absent /\ k # Partial /\ k # Damaged
    /\ Absent # Partial /\ Absent # Damaged /\ Partial # Damaged
    /\ Stock \notin Personal
    /\ TooLarge \subseteq Kernels
    /\ \A o \in Options : o.personalized \in BOOLEAN /\ o.cmdline \in CommandLines
  BY BootImageAssumption DEF CommandLines

LEMMA FileFacts ==
    /\ Absent \notin Images /\ Absent \notin Manifests
    /\ Partial \notin Images /\ Partial \notin Manifests
    /\ \A m \in Manifests : m.image \in Images
    /\ Kinds = {"image", "manifest"}
  BY ContentsAssumption DEF Manifests, Kinds

\* The ramdisk of a run, while it is there, is one the run may pack.
LEMMA RamdiskIsOneFor ==
    ASSUME ImageInv, NEW a \in Assemblies, pc[a] \in Active
    PROVE  /\ Inputs(a).ramdisk \in RamdisksFor(a)
           /\ RamdisksFor(a) \subseteq Personal \cup {Stock, Partial}
           /\ options[a].personalized \in BOOLEAN
           /\ options[a].cmdline \in CommandLines
  <1>1. options[a] \in Options /\ ramdisk \in RamdiskFiles
    BY DEF ImageInv, ShapeOK, ImageTypeOK
  <1>2. options[a].personalized => ramdisk # Absent
    BY DEF ImageInv, RunOK, InputsOK
  <1>3. Inputs(a).ramdisk = IF options[a].personalized THEN ramdisk ELSE Stock
    BY DEF Inputs
  <1>4. QED
    BY <1>1, <1>2, <1>3, ContentFacts DEF RamdisksFor, RamdiskFiles

THEOREM ImageInvInit == ImageInit => ImageInv
  <1> SUFFICES ASSUME ImageInit PROVE ImageInv
    OBVIOUS
  <1>1. published \in [Artifacts -> KernelFiles] /\ sums \in [Artifacts -> Kernels] \cup {Absent, Partial}
    BY DEF ImageInit, KernelFiles
  <1>2. \A a \in Assemblies : pc[a] = "start"
    BY DEF ImageInit
  <1>3. ImageTypeOK
    <2>1. 1 \in 1 .. Len(ArtifactOrder) + 1 /\ 0 \in 0 .. MaxBuilds
      BY BootImageAssumption
    <2>2. QED
      BY <1>1, <2>1 DEF ImageInit, ImageTypeOK, RamdiskFiles, Kinds
  <1>4. sums \notin {Absent, Partial} => \A f, g \in Artifacts : sums[f] = sums[g]
    BY DEF ImageInit
  <1>5. /\ ShapeOK /\ PairOK /\ BuildsOK
        /\ writing = "image"
    BY <1>4 DEF ImageInit, ShapeOK, PairOK, BuildsOK, Kinds
  <1>6. \A a \in Assemblies : RunOK(a) /\ ReportedOK(a)
    BY <1>2 DEF RunOK, InputsOK, ComparedOK, NotedOK, WritingOK, ReportedOK, Active, KernelCompared,
                Compared, WritingStages
  <1>7. QED
    BY <1>2, <1>3, <1>5, <1>6 DEF ImageInv, OneRuns, Active, KernelCompared, Compared
-----------------------------------------------------------------------------
(***************************************************************************)
(* The scripts that make the inputs.                                       *)
(***************************************************************************)

\* An input may change under a run, if only it stays there and the run counts
\* as stale where it relies on it.
LEMMA InputsMayChange ==
    ASSUME ImageInv, UNCHANGED <<optionVars, assemblyVars, fileVars>>,
           stale \subseteq stale',
           published["Image.gz"] # Absent => published'["Image.gz"] # Absent,
           ramdisk # Absent => ramdisk' # Absent,
           published'["Image.gz"] # published["Image.gz"] =>
             \A a \in Assemblies : pc[a] \in KernelCompared /\ writing = "image" => a \in stale',
           ramdisk' # ramdisk =>
             \A a \in Assemblies : pc[a] = "note" /\ options[a].personalized => a \in stale'
    PROVE  /\ ShapeOK' /\ OneRuns' /\ PairOK'
           /\ \A a \in Assemblies : RunOK(a)' /\ ReportedOK(a)'
  <1>1. UNCHANGED <<options, pc, custom, manifest, writing, final, temp>>
    BY DEF optionVars, assemblyVars, localVars, fileVars
  <1>2. ShapeOK' /\ OneRuns' /\ PairOK'
    BY <1>1 DEF ImageInv, ShapeOK, OneRuns, PairOK
  <1>3. ASSUME NEW a \in Assemblies PROVE RunOK(a)' /\ ReportedOK(a)'
    <2>1. RunOK(a) /\ ReportedOK(a)
      BY DEF ImageInv
    <2>2. InputsOK(a)'
      BY <1>1, <2>1 DEF RunOK, InputsOK
    <2>3. ComparedOK(a)'
      <3>1. Inputs(a).ramdisk = IF options[a].personalized THEN ramdisk ELSE Stock
        BY DEF Inputs
      <3>2. Inputs(a)'.ramdisk = IF options[a].personalized THEN ramdisk' ELSE Stock
        BY <1>1 DEF Inputs
      <3>3. pc[a] = "note" /\ a \notin stale' => custom.ramdisk = Inputs(a)'.ramdisk
        BY <2>1, <3>1, <3>2 DEF RunOK, ComparedOK
      <3>4. QED
        BY <1>1, <2>1, <3>3 DEF RunOK, ComparedOK, RamdisksFor
    <2>4. NotedOK(a)' /\ WritingOK(a)' /\ ReportedOK(a)'
      BY <1>1, <2>1 DEF RunOK, NotedOK, WritingOK, ReportedOK, RamdisksFor, Content, Requested
    <2>5. QED
      BY <2>2, <2>3, <2>4 DEF RunOK
  <1>4. QED
    BY <1>2, <1>3

LEMMA KernelStepsKeep ==
    ASSUME ImageInv, StartPublishing \/ PublishArtifact \/ PublishSums \/ BuildDies
    PROVE  ImageInv'
  <1> USE DEF ImageInv
  <1>1. UNCHANGED <<ramdiskVars, optionVars, assemblyVars, fileVars>>
    BY DEF StartPublishing, PublishArtifact, PublishSums, BuildDies
  <1>2. CASE StartPublishing \/ PublishSums \/ BuildDies
    <2>1. UNCHANGED <<published, ramdisk, stale>>
      BY <1>1, <1>2 DEF StartPublishing, PublishSums, BuildDies, ramdiskVars
    <2>2. ShapeOK' /\ OneRuns' /\ PairOK' /\ \A a \in Assemblies : RunOK(a)' /\ ReportedOK(a)'
      BY <1>1, <2>1, InputsMayChange
    <2>3. ImageTypeOK' /\ BuildsOK'
      <3>1. CASE StartPublishing
        <4>1. 1 \in 1 .. Len(ArtifactOrder) + 1 /\ \A i \in DOMAIN ArtifactOrder : ~(i < 1)
          BY BootImageAssumption
        <4>2. builds + 1 \in 0 .. MaxBuilds
          BY <3>1, BootImageAssumption DEF StartPublishing, ImageTypeOK
        <4>3. QED
          BY <1>1, <3>1, <4>1, <4>2
             DEF StartPublishing, ImageTypeOK, BuildsOK, ramdiskVars, optionVars, assemblyVars,
                 localVars, fileVars
      <3>2. CASE PublishSums
        <4>1. CASE sums' = Partial /\ UNCHANGED <<building, published, step, builds, stale>>
          BY <1>1, <4>1 DEF ImageTypeOK, BuildsOK, ramdiskVars, optionVars, assemblyVars,
                            localVars, fileVars
        <4>2. CASE sums' = published /\ building' = Absent /\ UNCHANGED <<published, step, builds, stale>>
          <5>1. step > Len(ArtifactOrder) /\ building # Absent
            BY <3>2 DEF PublishSums, SumsAreDue
          <5>2. \A i \in DOMAIN ArtifactOrder : i < step
            BY <5>1, BootImageAssumption DEF ImageTypeOK
          <5>3. \A f \in Artifacts : published[f] = building
            BY <5>1, <5>2 DEF BuildsOK, Artifacts
          <5>4. published \in [Artifacts -> Kernels]
            BY <5>1, <5>3 DEF ImageTypeOK
          <5>5. QED
            BY <1>1, <4>2, <5>3, <5>4
               DEF ImageTypeOK, BuildsOK, ramdiskVars, optionVars, assemblyVars, localVars, fileVars
        <4>3. QED
          BY <3>2, <4>1, <4>2 DEF PublishSums
      <3>3. CASE BuildDies
        BY <1>1, <3>3 DEF BuildDies, ImageTypeOK, BuildsOK, ramdiskVars, optionVars, assemblyVars,
                          localVars, fileVars
      <3>4. QED
        BY <1>2, <3>1, <3>2, <3>3
    <2>4. QED
      BY <2>2, <2>3
  <1>3. CASE PublishArtifact
    <2> DEFINE f == ArtifactOrder[step]
    <2>1. /\ building # Absent /\ step \in DOMAIN ArtifactOrder /\ f \in Artifacts
          /\ \/ published' = [published EXCEPT ![f] = Partial] /\ UNCHANGED step
             \/ published' = [published EXCEPT ![f] = building] /\ step' = step + 1
          /\ UNCHANGED <<sums, building, builds>>
          /\ stale' = IF f = "Image.gz" THEN stale \cup KernelAwaits ELSE stale
      BY <1>3 DEF PublishArtifact, Artifacts
    <2>2. building \in Kernels
      BY <2>1 DEF ImageTypeOK
    <2>3. published' \in [Artifacts -> KernelFiles]
      BY <2>1, <2>2 DEF ImageTypeOK, KernelFiles
    <2>4. step' \in 1 .. Len(ArtifactOrder) + 1
      BY <2>1, BootImageAssumption DEF ImageTypeOK
    <2>5. published["Image.gz"] # Absent => published'["Image.gz"] # Absent
      BY <2>1, <2>2, BootImageAssumption, ContentFacts DEF ImageTypeOK
    <2>6. ShapeOK' /\ OneRuns' /\ PairOK' /\ \A a \in Assemblies : RunOK(a)' /\ ReportedOK(a)'
      <3>1. published'["Image.gz"] # published["Image.gz"] => f = "Image.gz"
        BY <2>1, BootImageAssumption DEF ImageTypeOK
      <3>2. stale \subseteq stale' /\ stale' \subseteq Assemblies
        BY <2>1 DEF KernelAwaits, ImageTypeOK
      <3>3. published'["Image.gz"] # published["Image.gz"] =>
              \A a \in Assemblies : pc[a] \in KernelCompared /\ writing = "image" => a \in stale'
        BY <2>1, <3>1 DEF KernelAwaits
      <3>4. UNCHANGED ramdisk
        BY <1>1 DEF ramdiskVars
      <3>5. QED
        BY <1>1, <2>5, <3>2, <3>3, <3>4, InputsMayChange
    <2>7. BuildsOK'
      <3>1. ASSUME NEW i \in DOMAIN ArtifactOrder, i < step'
            PROVE  published'[ArtifactOrder[i]] = building
        <4>1. ArtifactOrder[i] \in DOMAIN published /\ f \in DOMAIN published
          BY <2>1 DEF ImageTypeOK, Artifacts
        <4>2. CASE i = step
          <5>1. step' # step
            BY <3>1, <4>2 DEF ImageTypeOK
          <5>2. QED
            BY <2>1, <4>1, <4>2, <5>1
        <4>3. CASE i # step
          <5>1. i < step
            BY <2>1, <3>1, <4>3, BootImageAssumption DEF ImageTypeOK
          <5>2. ArtifactOrder[i] # f
            BY <2>1, <4>3, BootImageAssumption
          <5>3. QED
            BY <2>1, <4>1, <5>1, <5>2 DEF BuildsOK
        <4>4. QED
          BY <4>2, <4>3
      <3>2. QED
        BY <2>1, <3>1 DEF BuildsOK
    <2>8. ImageTypeOK'
      BY <1>1, <2>1, <2>3, <2>4
         DEF ImageTypeOK, KernelAwaits, ramdiskVars, optionVars, assemblyVars, localVars, fileVars
    <2>9. QED
      BY <2>6, <2>7, <2>8
  <1>4. QED
    BY <1>2, <1>3

LEMMA RamdiskStepsKeep ==
    ASSUME ImageInv, MoveRamdisk \/ MoveDies
    PROVE  ImageInv'
  <1> USE DEF ImageInv
  <1>1. UNCHANGED <<kernelVars, optionVars, assemblyVars, fileVars>>
    BY DEF MoveRamdisk, MoveDies
  <1>2. /\ ramdisk' \in RamdiskFiles /\ moving' \in Personal \cup {Absent}
        /\ ramdisk' # ramdisk => stale' = stale \cup RamdiskAwaits
        /\ stale \subseteq stale' /\ stale' \subseteq Assemblies
        /\ ramdisk # Absent => ramdisk' # Absent
    BY ContentFacts DEF MoveRamdisk, MoveDies, RamdiskAwaits, ImageTypeOK, RamdiskFiles
  <1>3. ShapeOK' /\ OneRuns' /\ PairOK' /\ \A a \in Assemblies : RunOK(a)' /\ ReportedOK(a)'
    BY <1>1, <1>2, InputsMayChange DEF kernelVars, RamdiskAwaits
  <1>4. ImageTypeOK' /\ BuildsOK'
    BY <1>1, <1>2 DEF ImageTypeOK, BuildsOK, kernelVars, optionVars, assemblyVars, localVars, fileVars
  <1>5. QED
    BY <1>3, <1>4
-----------------------------------------------------------------------------
(***************************************************************************)
(* The assembly.                                                           *)
(***************************************************************************)

\* What a step of one run has to show for itself; the other runs are idle, and
\* what they have reported stays, since no file that exists is touched.
LEMMA OneRunMoves ==
    ASSUME ImageInv, NEW a \in Assemblies, NEW to \in Active \cup Over, Goto(a, to),
           pc[a] \in Active \/ \A x \in Assemblies : pc[x] \notin Active,
           UNCHANGED Aside,
           \A k \in Kinds : final[k] # Absent => final'[k] = final[k],
           DOMAIN final' = Kinds, DOMAIN temp' = Kinds,
           custom' \in Images \cup {Absent}, writing' \in Kinds,
           final'["image"] \in Images \cup {Absent},
           final'["manifest"] \in Manifests \cup {Absent},
           temp'["image"] \in Images \cup {Absent, Partial},
           temp'["manifest"] \in Manifests \cup {Absent, Partial},
           writing' = "manifest" => to \in WritingStages,
           PairOK', RunOK(a)', ReportedOK(a)'
    PROVE  ImageInv'
  <1>1. pc' = [pc EXCEPT ![a] = to]
    BY DEF Goto
  <1>2. UNCHANGED <<published, sums, building, step, builds, ramdisk, moving, options, toolsGood, stale>>
    BY DEF Aside, kernelVars, ramdiskVars, optionVars
  <1>3. pc \in [Assemblies -> Active \cup Over \cup {"start"}]
    BY DEF ImageInv, ImageTypeOK
  <1>4. pc'[a] = to /\ \A b \in Assemblies : b # a => pc'[b] = pc[b] /\ pc[b] \notin Active
    BY <1>1, <1>3 DEF ImageInv, OneRuns
  <1>5. ImageTypeOK'
    <2>1. pc' \in [Assemblies -> Active \cup Over \cup {"start"}]
      BY <1>1, <1>3
    <2>2. QED
      BY <1>2, <2>1 DEF ImageInv, ImageTypeOK
  <1>6. ShapeOK' /\ BuildsOK'
    BY <1>2 DEF ImageInv, ShapeOK, BuildsOK
  <1>7. OneRuns'
    BY <1>4 DEF OneRuns
  <1>8. ASSUME NEW b \in Assemblies, b # a PROVE RunOK(b)' /\ ReportedOK(b)'
    <2>1. pc'[b] \notin Active
      BY <1>4, <1>8
    <2>2. RunOK(b)'
      BY <2>1 DEF RunOK, InputsOK, ComparedOK, NotedOK, WritingOK, Active, KernelCompared, Compared,
                  WritingStages
    <2>3. ReportedOK(b)'
      <3>1. ReportedOK(b)
        BY DEF ImageInv
      <3>2. SUFFICES ASSUME pc'[b] = "reported"
                     PROVE  /\ final'["image"] # Absent /\ final'["manifest"] # Absent
                            /\ Requested(b, final["image"])'
                            /\ b \notin stale' => final'["manifest"] = Describing(final'["image"])
        BY DEF ReportedOK, Describing, Requested
      <3>3. pc[b] = "reported"
        BY <1>4, <1>8, <3>2
      <3>4. final'["image"] = final["image"] /\ final'["manifest"] = final["manifest"]
        BY <3>1, <3>3, FileFacts DEF ReportedOK
      <3>5. QED
        BY <1>2, <3>1, <3>3, <3>4 DEF ReportedOK, Requested
    <2>4. QED
      BY <2>2, <2>3
  <1>9. QED
    BY <1>5, <1>6, <1>7, <1>8 DEF ImageInv

\* A run that stops without a report leaves what is there.
LEMMA StoppingKeeps ==
    ASSUME ImageInv, NEW a \in Assemblies, NEW verdict \in {"refused", "failed", "dead"},
           Finish(a, verdict), pc[a] \in Active, UNCHANGED Aside, UNCHANGED fileVars
    PROVE  ImageInv'
  <1>1. /\ Goto(a, verdict) /\ custom' = Absent /\ writing' = "image"
        /\ UNCHANGED <<final, temp>>
    BY DEF Finish, fileVars
  <1>2. pc'[a] = verdict
    BY <1>1 DEF Goto, ImageInv, ImageTypeOK
  <1>3. RunOK(a)' /\ ReportedOK(a)'
    BY <1>2 DEF RunOK, InputsOK, ComparedOK, NotedOK, WritingOK, ReportedOK, Active, KernelCompared,
                Compared, WritingStages
  <1>4. PairOK'
    BY <1>1 DEF ImageInv, PairOK
  <1>5. QED
    BY <1>1, <1>3, <1>4, OneRunMoves DEF ImageInv, ImageTypeOK, ShapeOK, Over, Kinds

\* Up to the comparisons.
LEMMA EarlyStepsKeep ==
    ASSUME ImageInv, NEW a \in Assemblies, UNCHANGED Aside,
           CheckInputs(a) \/ RoundTrip(a) \/ Pack(a)
    PROVE  ImageInv'
  <1>1. UNCHANGED <<published, ramdisk, options, stale, final, temp, writing>>
        \/ (RoundTrip(a) /\ Finish(a, "failed"))
    BY DEF CheckInputs, RoundTrip, Pack, localVars, fileVars, Aside, kernelVars, ramdiskVars, optionVars
  <1>2. pc \in [Assemblies -> Active \cup Over \cup {"start"}]
    BY DEF ImageInv, ImageTypeOK
  <1>3. CASE CheckInputs(a)
    <2>1. PICK to \in {"roundtrip", "refused"} :
            /\ Goto(a, to)
            /\ to = "roundtrip" => \A part \in Parts : Inputs(a)[part] # Absent
      BY <1>3 DEF CheckInputs
    <2>2. pc'[a] = to /\ UNCHANGED <<localVars, fileVars>>
      BY <1>2, <1>3, <2>1 DEF CheckInputs, Goto
    <2>3. writing = "image"
      BY <1>3 DEF CheckInputs, ImageInv, ImageTypeOK, OneRuns, WritingStages, Active, KernelCompared,
                  Compared, Kinds
    <2>4. InputsOK(a)'
      <3>1. to = "roundtrip" => Inputs(a)["kernel"] # Absent /\ Inputs(a)["ramdisk"] # Absent
        BY <2>1 DEF Parts
      <3>2. QED
        BY <1>1, <2>2, <3>1, <1>3
           DEF InputsOK, Inputs, Active, KernelCompared, Compared, Aside, kernelVars, ramdiskVars,
               optionVars
    <2>5. RunOK(a)' /\ ReportedOK(a)'
      BY <2>2, <2>4 DEF RunOK, ComparedOK, NotedOK, WritingOK, ReportedOK, Active, KernelCompared,
                        Compared, WritingStages
    <2>6. PairOK'
      BY <2>2 DEF ImageInv, PairOK, fileVars
    <2>7. QED
      BY <1>3, <2>1, <2>2, <2>3, <2>5, <2>6, OneRunMoves
         DEF CheckInputs, ImageInv, ImageTypeOK, ShapeOK, Active, Over, fileVars, localVars
  <1>4. CASE RoundTrip(a)
    <2>1. CASE Finish(a, "failed")
      BY <1>4, <2>1, StoppingKeeps DEF RoundTrip, Active
    <2>2. CASE Goto(a, "pack") /\ UNCHANGED localVars
      <3>1. pc[a] = "roundtrip" /\ pc'[a] = "pack" /\ UNCHANGED <<final, temp, writing, custom>>
        BY <1>2, <1>4, <2>2 DEF RoundTrip, Goto, fileVars, localVars
      <3>2. InputsOK(a)'
        BY <3>1 DEF ImageInv, RunOK, InputsOK, Aside, kernelVars, ramdiskVars, optionVars, Active
      <3>3. RunOK(a)' /\ ReportedOK(a)' /\ PairOK'
        BY <3>1, <3>2 DEF ImageInv, RunOK, ComparedOK, NotedOK, WritingOK, ReportedOK, PairOK, Active,
                          KernelCompared, Compared, WritingStages
      <3>4. writing' # "manifest"
        BY <3>1 DEF ImageInv, OneRuns, Active, KernelCompared, Compared, WritingStages
      <3>5. QED
        BY <2>2, <3>1, <3>3, <3>4, OneRunMoves DEF ImageInv, ImageTypeOK, ShapeOK, Active
    <2>3. QED
      BY <1>4, <2>1, <2>2 DEF RoundTrip
  <1>5. CASE Pack(a)
    <2>1. /\ pc[a] = "pack" /\ pc'[a] = "compare" /\ Goto(a, "compare")
          /\ UNCHANGED <<final, temp, writing>>
      BY <1>2, <1>5 DEF Pack, Goto, fileVars
    <2>2. InputsOK(a)'
      BY <2>1 DEF ImageInv, RunOK, InputsOK, Aside, kernelVars, ramdiskVars, optionVars, Active
    <2>3. custom' \in Images
      <3>1. published["Image.gz"] \in Kernels \cup {Partial}
        <4>1. published["Image.gz"] \in KernelFiles /\ published["Image.gz"] # Absent
          BY <2>1, BootImageAssumption DEF ImageInv, ImageTypeOK, RunOK, InputsOK, Active
        <4>2. QED
          BY <4>1 DEF KernelFiles
      <3>2. Inputs(a).ramdisk \in Personal \cup {Stock, Partial} /\ options[a].cmdline \in CommandLines
        BY <2>1, RamdiskIsOneFor DEF Active
      <3>3. Inputs(a) \in Images
        BY <3>1, <3>2 DEF Inputs, Images
      <3>4. \A part \in Parts : [Inputs(a) EXCEPT ![part] = Damaged] \in Images
        BY <3>3 DEF Inputs, Images, Parts
      <3>5. QED
        BY <1>5, <3>3, <3>4 DEF Pack
    <2>4. RunOK(a)' /\ ReportedOK(a)' /\ PairOK'
      BY <2>1, <2>2, <2>3 DEF ImageInv, RunOK, ComparedOK, NotedOK, WritingOK, ReportedOK, PairOK,
                              Active, KernelCompared, Compared, WritingStages
    <2>5. writing' # "manifest"
      BY <2>1 DEF ImageInv, OneRuns, Active, KernelCompared, Compared, WritingStages
    <2>6. QED
      BY <2>1, <2>3, <2>4, <2>5, OneRunMoves DEF ImageInv, ImageTypeOK, ShapeOK, Active
  <1>6. QED
    BY <1>3, <1>4, <1>5

\* The comparisons and the two hashing steps change no file.
LEMMA ComparisonsKeep ==
    ASSUME ImageInv, NEW a \in Assemblies, UNCHANGED Aside,
           CompareKernel(a) \/ CompareRest(a)
    PROVE  ImageInv'
  <1> USE DEF ImageInv
  <1>1. pc[a] \in {"compare", "compare rest"} /\ UNCHANGED <<published, ramdisk, options, stale, final, temp>>
    BY DEF CompareKernel, CompareRest, fileVars, Aside, kernelVars, ramdiskVars, optionVars
  <1>2. pc[a] \in Active /\ pc[a] \notin {"roundtrip", "pack"}
    BY <1>1 DEF Active, KernelCompared
  <1>3. RunOK(a) /\ custom \in Images
    BY <1>2 DEF RunOK, ComparedOK
  <1>4. writing = "image"
    BY <1>1, <1>2 DEF ImageTypeOK, OneRuns, WritingStages, Active, KernelCompared, Compared, Kinds
  <1>5. CASE Finish(a, "failed")
    BY <1>2, <1>5, StoppingKeeps DEF CompareKernel, CompareRest
  <1>6. CASE \E to \in {"compare rest", "note"} : Goto(a, to) /\ UNCHANGED localVars
    <2>1. PICK to \in {"compare rest", "note"} : Goto(a, to) /\ UNCHANGED localVars
      BY <1>6
    <2>2. pc'[a] = to /\ UNCHANGED <<custom, manifest, writing>>
      BY <2>1 DEF Goto, ImageTypeOK, localVars
    <2>3. InputsOK(a)'
      BY <1>1, <1>2, <1>3, <2>2 DEF RunOK, InputsOK
    <2>4. NotedOK(a)' /\ WritingOK(a)' /\ ReportedOK(a)' /\ PairOK'
      BY <1>1, <2>2 DEF NotedOK, WritingOK, ReportedOK, PairOK, WritingStages
    <2>5. ComparedOK(a)'
      <3>1. CASE to = "compare rest"
        <4>1. pc[a] = "compare" /\ MayEqual(a, {"cmdline", "kernel"})
          BY <2>2, <3>1, <1>5 DEF CompareKernel, CompareRest, Finish, Goto, ImageTypeOK
        <4>2. custom.cmdline = Inputs(a).cmdline /\ custom.kernel = Inputs(a).kernel
          BY <4>1 DEF MayEqual
        <4>3. custom.cmdline = options[a].cmdline /\ custom.kernel = published["Image.gz"]
          BY <4>2 DEF Inputs
        <4>4. published["Image.gz"] \in Kernels \cup {Partial}
          BY <1>2, <1>3, BootImageAssumption DEF RunOK, InputsOK, ImageTypeOK, KernelFiles
        <4>5. QED
          BY <1>1, <1>3, <2>2, <3>1, <4>3, <4>4 DEF ComparedOK, Compared
      <3>2. CASE to = "note"
        <4>1. pc[a] = "compare rest" /\ MayEqual(a, {"ramdisk", "dtb"}) /\ Fits(custom)
          BY <2>2, <3>2, <1>5 DEF CompareKernel, CompareRest, Finish, Goto, ImageTypeOK
        <4>2. custom.ramdisk = Inputs(a).ramdisk /\ custom.dtb = Stock
          BY <4>1 DEF MayEqual, Inputs
        <4>3. custom.ramdisk \in RamdisksFor(a)
          BY <1>2, <4>2, RamdiskIsOneFor
        <4>4. /\ custom.cmdline = options[a].cmdline
              /\ custom.kernel \in Kernels \cup {Partial}
              /\ a \notin stale => custom.kernel = published["Image.gz"]
          BY <1>3, <1>4, <4>1 DEF RunOK, ComparedOK, KernelCompared
        <4>5. Inputs(a)' = Inputs(a) /\ RamdisksFor(a)' = RamdisksFor(a) /\ Fits(custom)'
          BY <1>1, <2>2, <4>1 DEF Inputs, RamdisksFor, Fits
        <4>6. QED
          BY <1>1, <1>3, <2>2, <3>2, <4>2, <4>3, <4>4, <4>5 DEF ComparedOK, Fits
      <3>3. QED
        BY <3>1, <3>2
    <2>6. to \in Active /\ RunOK(a)'
      BY <2>3, <2>4, <2>5 DEF RunOK, Active, KernelCompared, Compared
    <2>7. QED
      BY <1>1, <1>2, <1>4, <2>1, <2>2, <2>4, <2>6, OneRunMoves DEF ImageTypeOK, ShapeOK, Kinds
  <1>7. QED
    BY <1>5, <1>6 DEF CompareKernel, CompareRest

\* Past the comparisons: what holds of the packed image from there on.
LEMMA ComparedImage ==
    ASSUME ImageInv, NEW a \in Assemblies, pc[a] \in Compared
    PROVE  /\ pc[a] \in Active /\ pc[a] \in KernelCompared
           /\ custom \in Images
           /\ custom.cmdline = options[a].cmdline /\ custom.cmdline \in CommandLines
           /\ custom.kernel \in Kernels \cup {Partial}
           /\ custom.ramdisk \in RamdisksFor(a)
           /\ Requested(a, custom)
  <1>1. pc[a] \in Active /\ pc[a] \in KernelCompared /\ pc[a] \in Active \ {"roundtrip", "pack"}
    BY DEF Active, KernelCompared, Compared
  <1>2. ComparedOK(a)
    BY DEF ImageInv, RunOK
  <1>3. options[a].cmdline \in CommandLines /\ options[a].personalized \in BOOLEAN
    BY <1>1, RamdiskIsOneFor
  <1>4. custom.ramdisk \in IF options[a].personalized THEN Personal \cup {Partial} ELSE {Stock}
    BY <1>2 DEF ComparedOK, RamdisksFor
  <1>5. custom.ramdisk # Stock <=> options[a].personalized
    BY <1>4, ContentFacts
  <1>6. \A part \in Parts : custom[part] # Damaged
    BY <1>1, <1>2, <1>3, <1>4, ContentFacts DEF ComparedOK, Parts
  <1>7. QED
    BY <1>1, <1>2, <1>3, <1>5, <1>6 DEF ComparedOK, Requested

LEMMA HashesKeep ==
    ASSUME ImageInv, NEW a \in Assemblies, UNCHANGED Aside,
           NoteRamdisk(a) \/ HashInputs(a)
    PROVE  ImageInv'
  <1> USE DEF ImageInv
  <1>1. /\ pc[a] \in {"note", "hash"} /\ Goto(a, "check") /\ pc'[a] = "check"
        /\ UNCHANGED <<published, ramdisk, options, stale, final, temp, custom>>
    BY DEF NoteRamdisk, HashInputs, Goto, ImageTypeOK, fileVars, Aside, kernelVars, ramdiskVars, optionVars
  <1>2. pc[a] \in Compared
    BY <1>1 DEF Compared
  <1>3. /\ pc[a] \in Active /\ RunOK(a) /\ custom \in Images
        /\ custom.cmdline \in CommandLines
    BY <1>2, ComparedImage
  <1>4. Inputs(a)' = Inputs(a) /\ RamdisksFor(a)' = RamdisksFor(a)
    BY <1>1 DEF Inputs, RamdisksFor
  <1>5. writing = "image"
    BY <1>1, <1>3 DEF ImageTypeOK, OneRuns, WritingStages, Active, KernelCompared, Compared, Kinds
  <1>6. /\ a \notin stale => custom.kernel = published["Image.gz"]
        /\ pc[a] = "note" /\ a \notin stale => custom.ramdisk = Inputs(a).ramdisk
        /\ Inputs(a).ramdisk \in RamdisksFor(a)
        /\ RamdisksFor(a) \subseteq Personal \cup {Stock, Partial}
    BY <1>2, <1>3, <1>5, ComparedImage, RamdiskIsOneFor DEF RunOK, ComparedOK
  <1>7. InputsOK(a)' /\ ComparedOK(a)'
    <2>1. InputsOK(a)'
      BY <1>1, <1>3 DEF RunOK, InputsOK
    <2>2. Fits(custom)' = Fits(custom)
      BY <1>1 DEF Fits
    <2>3. /\ custom.cmdline = options[a].cmdline /\ custom.kernel \in Kernels \cup {Partial}
          /\ custom.dtb = Stock /\ custom.ramdisk \in RamdisksFor(a) /\ Fits(custom)
      BY <1>2, <1>3, ComparedImage DEF RunOK, ComparedOK
    <2>4. QED
      BY <1>1, <1>3, <1>4, <1>6, <2>1, <2>3 DEF ComparedOK, Fits
  <1>8. WritingOK(a)' /\ ReportedOK(a)' /\ PairOK'
    BY <1>1 DEF WritingOK, ReportedOK, PairOK
  <1>9. NotedOK(a)'
    <2>1. CASE NoteRamdisk(a)
      <3>1. manifest' = [ramdisk |-> Inputs(a).ramdisk] /\ writing' = "image"
        BY <2>1 DEF NoteRamdisk
      <3>2. manifest'.ramdisk = Inputs(a).ramdisk
        BY <3>1
      <3>3. QED
        BY <1>1, <1>4, <1>6, <2>1, <3>1, <3>2 DEF NotedOK, NoteRamdisk
    <2>2. CASE HashInputs(a)
      <3>1. /\ manifest' = [kernel |-> Inputs(a).kernel, ramdisk |-> manifest.ramdisk,
                            cmdline |-> custom.cmdline, image |-> final["image"]]
            /\ writing' = "manifest" /\ pc[a] = "hash"
        BY <2>2 DEF HashInputs
      <3>2. /\ manifest.ramdisk \in RamdisksFor(a)
            /\ a \notin stale => manifest.ramdisk = custom.ramdisk
            /\ final["image"] = custom
        BY <1>3, <1>5, <3>1 DEF RunOK, NotedOK
      <3>3. Inputs(a).kernel = published["Image.gz"] /\ published["Image.gz"] \in KernelFiles
        BY BootImageAssumption DEF Inputs, ImageTypeOK
      <3>4. manifest.ramdisk \in RamdiskFiles \cup {Stock}
        BY <1>6, <3>2 DEF RamdiskFiles
      <3>5. manifest' \in Manifests /\ manifest'.image = custom
        BY <1>3, <3>1, <3>2, <3>3, <3>4 DEF Manifests
      <3>6. a \notin stale => manifest' = Describing(custom)
        BY <1>6, <3>1, <3>2, <3>3 DEF Describing
      <3>7. QED
        BY <1>1, <3>1, <3>2, <3>5, <3>6 DEF NotedOK, Describing
    <2>3. QED
      BY <2>1, <2>2
  <1>10. "check" \in Active /\ "check" \in WritingStages /\ RunOK(a)' /\ writing' \in Kinds
    BY <1>7, <1>8, <1>9 DEF RunOK, Active, KernelCompared, Compared, WritingStages, NoteRamdisk,
                            HashInputs, Kinds
  <1>11. QED
    BY <1>1, <1>3, <1>8, <1>10, OneRunMoves DEF ImageTypeOK, ShapeOK

\* Writing the temporary file, with nothing under the final name.
LEMMA TemporaryStepsKeep ==
    ASSUME ImageInv, NEW a \in Assemblies, UNCHANGED Aside,
           OpenTemporary(a) \/ FillTemporary(a)
           \/ (CheckExisting(a) /\ ~MayKeep /\ MayWrite /\ Goto(a, "open") /\ UNCHANGED localVars)
    PROVE  ImageInv'
  <1> USE DEF ImageInv
  <1>1. /\ pc[a] \in {"check", "open", "fill"}
        /\ UNCHANGED <<published, ramdisk, options, stale, final, custom, manifest, writing>>
    BY DEF OpenTemporary, FillTemporary, CheckExisting, OpenFile, fileVars, localVars, Aside,
           kernelVars, ramdiskVars, optionVars
  <1>2. pc[a] \in Compared /\ pc[a] \in WritingStages
    BY <1>1 DEF Compared, WritingStages
  <1>3. PICK to \in {"open", "fill", "replace"} : Goto(a, to)
    BY DEF OpenTemporary, FillTemporary
  <1>4. pc'[a] = to
    BY <1>3 DEF Goto, ImageTypeOK
  <1>5. to \in Active /\ to \in KernelCompared /\ to \in Compared /\ to \in WritingStages /\ to # "hash"
    BY <1>3 DEF Active, KernelCompared, Compared, WritingStages
  <1>6. /\ pc[a] \in Active /\ RunOK(a) /\ custom \in Images /\ pc[a] \in KernelCompared
    BY <1>2, ComparedImage
  <1>7. Inputs(a)' = Inputs(a) /\ RamdisksFor(a)' = RamdisksFor(a) /\ Content' = Content
    BY <1>1 DEF Inputs, RamdisksFor, Content
  <1>8. InputsOK(a)' /\ ComparedOK(a)' /\ NotedOK(a)'
    <2>1. InputsOK(a)'
      BY <1>1, <1>6 DEF RunOK, InputsOK
    <2>2. ComparedOK(a)'
      <3>1. /\ custom.cmdline = options[a].cmdline
            /\ custom.kernel \in Kernels \cup {Partial}
            /\ writing = "image" /\ a \notin stale => custom.kernel = published["Image.gz"]
            /\ custom.dtb = Stock
            /\ custom.ramdisk \in RamdisksFor(a)
            /\ Fits(custom)
        BY <1>2, <1>6 DEF RunOK, ComparedOK
      <3>2. QED
        BY <1>1, <1>3, <1>4, <1>6, <1>7, <3>1 DEF ComparedOK, Fits
    <2>3. NotedOK(a)'
      BY <1>1, <1>2, <1>4, <1>5, <1>6, <1>7 DEF RunOK, NotedOK, Describing
    <2>4. QED
      BY <2>1, <2>2, <2>3
  <1>9. final[writing] = Absent /\ writing \in Kinds
    BY <1>1, <1>6 DEF RunOK, WritingOK, MayWrite, ImageTypeOK, CheckExisting, OpenTemporary, FillTemporary
  <1>10. Content \in IF writing = "image" THEN Images ELSE Manifests
    BY <1>2, <1>6, <1>9 DEF RunOK, NotedOK, Content, Kinds
  <1>11. /\ DOMAIN temp' = Kinds
         /\ temp'["image"] \in Images \cup {Absent, Partial}
         /\ temp'["manifest"] \in Manifests \cup {Absent, Partial}
         /\ to = "replace" => temp'[writing] = Content
    <2>1. \/ UNCHANGED temp /\ to = "open"
          \/ temp' = [temp EXCEPT ![writing] = Partial] /\ to = "fill"
          \/ temp' = [temp EXCEPT ![writing] = Content] /\ to = "replace"
      BY <1>3, <1>4 DEF OpenTemporary, FillTemporary, OpenFile, Goto, ImageTypeOK, CheckExisting, fileVars
    <2>2. QED
      BY <1>9, <1>10, <2>1 DEF ImageTypeOK, ShapeOK, Kinds
  <1>12. WritingOK(a)' /\ ReportedOK(a)' /\ PairOK'
    BY <1>1, <1>4, <1>5, <1>7, <1>9, <1>11 DEF WritingOK, ReportedOK, PairOK
  <1>13. RunOK(a)'
    BY <1>8, <1>12 DEF RunOK
  <1>14. QED
    BY <1>1, <1>3, <1>5, <1>6, <1>11, <1>12, <1>13, OneRunMoves DEF ImageTypeOK, ShapeOK

\* The file is there, written by this run or found with the same contents.
LEMMA WrittenKeeps ==
    ASSUME ImageInv, NEW a \in Assemblies, UNCHANGED Aside,
           pc[a] \in {"check", "replace"}, Written(a),
           final'[writing] = Content,
           \A k \in Kinds : k # writing => final'[k] = final[k],
           final[writing] \in {Absent, Content},
           DOMAIN final' = Kinds, DOMAIN temp' = Kinds,
           temp'["image"] \in Images \cup {Absent, Partial},
           temp'["manifest"] \in Manifests \cup {Absent, Partial}
    PROVE  ImageInv'
  <1> USE DEF ImageInv
  <1>1. UNCHANGED <<published, ramdisk, options, stale>>
    BY DEF Aside, kernelVars, ramdiskVars, optionVars
  <1>2. pc[a] \in Compared /\ pc[a] \in WritingStages /\ writing \in Kinds
    BY DEF Compared, WritingStages, ImageTypeOK
  <1>3. /\ pc[a] \in Active /\ pc[a] \in KernelCompared /\ RunOK(a) /\ custom \in Images
        /\ Requested(a, custom)
    BY <1>2, ComparedImage
  <1>4. \A k \in Kinds : final[k] # Absent => final'[k] = final[k]
    BY <1>2
  <1>5. CASE writing = "image"
    <2>1. Goto(a, "hash") /\ UNCHANGED <<custom, manifest, writing>> /\ pc'[a] = "hash"
      BY <1>5 DEF Written, localVars, Goto, ImageTypeOK
    <2>2. final'["image"] = custom /\ final'["manifest"] = final["manifest"]
      BY <1>5 DEF Content, Kinds
    <2>3. PairOK'
      <3>1. SUFFICES ASSUME final["manifest"] # Absent
                     PROVE  final["manifest"].image = final'["image"]
        BY <2>2 DEF PairOK
      <3>2. final["manifest"].image = final["image"] /\ final["image"] # Absent
        BY <3>1, FileFacts DEF PairOK, ImageTypeOK
      <3>3. QED
        BY <1>4, <3>2, FileFacts
    <2>4. Inputs(a)' = Inputs(a) /\ RamdisksFor(a)' = RamdisksFor(a)
      BY <1>1 DEF Inputs, RamdisksFor
    <2>5. ComparedOK(a)'
      <3>1. /\ custom.cmdline = options[a].cmdline
            /\ custom.kernel \in Kernels \cup {Partial}
            /\ a \notin stale => custom.kernel = published["Image.gz"]
            /\ custom.dtb = Stock
            /\ custom.ramdisk \in RamdisksFor(a)
            /\ Fits(custom)
        BY <1>2, <1>3, <1>5 DEF RunOK, ComparedOK
      <3>2. QED
        BY <1>1, <1>3, <2>1, <2>4, <3>1 DEF ComparedOK, Fits
    <2>6. InputsOK(a)' /\ WritingOK(a)' /\ ReportedOK(a)'
      BY <1>1, <1>3, <2>1 DEF RunOK, InputsOK, WritingOK, ReportedOK
    <2>7. NotedOK(a)'
      BY <1>1, <1>2, <1>3, <1>5, <2>1, <2>2, <2>4 DEF RunOK, NotedOK, WritingStages
    <2>8. "hash" \in Active /\ RunOK(a)'
      BY <2>5, <2>6, <2>7 DEF RunOK, Active, KernelCompared, Compared
    <2>9. QED
      BY <1>3, <1>4, <1>5, <2>1, <2>2, <2>3, <2>6, <2>8, OneRunMoves DEF ImageTypeOK, Kinds
  <1>6. CASE writing = "manifest"
    <2>1. /\ Goto(a, "reported") /\ custom' = Absent /\ writing' = "image" /\ pc'[a] = "reported"
      BY <1>6 DEF Written, Finish, Goto, ImageTypeOK
    <2>2. /\ manifest \in Manifests /\ manifest.image = custom /\ final["image"] = custom
          /\ a \notin stale => manifest = Describing(custom)
      BY <1>2, <1>3, <1>6 DEF RunOK, NotedOK
    <2>3. final'["manifest"] = manifest /\ final'["image"] = custom
      BY <1>6, <2>2 DEF Content, Kinds
    <2>4. PairOK'
      BY <2>2, <2>3 DEF PairOK
    <2>5. RunOK(a)'
      BY <2>1 DEF RunOK, InputsOK, ComparedOK, NotedOK, WritingOK, Active, KernelCompared, Compared,
                  WritingStages
    <2>6. ReportedOK(a)'
      <3>1. Requested(a, final["image"])'
        BY <1>1, <1>3, <2>3 DEF Requested, Fits
      <3>2. QED
        BY <1>1, <1>3, <2>2, <2>3, <3>1, FileFacts DEF ReportedOK, Describing
    <2>7. QED
      BY <1>3, <1>4, <2>1, <2>2, <2>3, <2>4, <2>5, <2>6, OneRunMoves DEF Over, Kinds
  <1>7. QED
    BY <1>2, <1>5, <1>6 DEF Kinds

THEOREM ImageInvStep == ImageInv /\ [ImageNext]_imageVars => ImageInv'
  <1> SUFFICES ASSUME ImageInv, [ImageNext]_imageVars PROVE ImageInv'
    OBVIOUS
  <1>1. ASSUME NEW a \in Assemblies, AssemblyStep(a) PROVE ImageInv'
    <2>1. UNCHANGED Aside
      BY <1>1 DEF AssemblyStep
    <2>2. CASE CheckExisting(a)
      <3>1. pc[a] = "check" /\ UNCHANGED <<final, temp>>
        BY <2>2 DEF CheckExisting, fileVars
      <3>2. CASE MayKeep /\ Written(a)
        BY <2>1, <3>1, <3>2, WrittenKeeps DEF MayKeep, ImageInv, ImageTypeOK, ShapeOK
      <3>3. CASE Finish(a, "failed")
        BY <2>1, <2>2, <3>1, <3>3, StoppingKeeps
           DEF CheckExisting, Active, KernelCompared, Compared
      <3>4. CASE ~MayKeep /\ MayWrite /\ Goto(a, "open") /\ UNCHANGED localVars
        BY <2>1, <2>2, <3>4, TemporaryStepsKeep
      <3>5. QED
        BY <2>2, <3>2, <3>3, <3>4 DEF CheckExisting
    <2>3. CASE Replace(a)
      <3>1. /\ pc[a] = "replace" /\ Written(a)
            /\ final' = [final EXCEPT ![writing] = temp[writing]]
            /\ temp' = [temp EXCEPT ![writing] = Absent]
        BY <2>3 DEF Replace
      <3>2. final[writing] = Absent /\ temp[writing] = Content /\ writing \in Kinds
        BY <3>1 DEF ImageInv, RunOK, WritingOK, ImageTypeOK
      <3>3. /\ DOMAIN final' = Kinds /\ DOMAIN temp' = Kinds
            /\ final'[writing] = Content
            /\ \A k \in Kinds : k # writing => final'[k] = final[k]
            /\ temp'["image"] \in Images \cup {Absent, Partial}
            /\ temp'["manifest"] \in Manifests \cup {Absent, Partial}
        BY <3>1, <3>2 DEF ImageInv, ShapeOK, ImageTypeOK, Kinds
      <3>4. QED
        BY <2>1, <3>1, <3>2, <3>3, WrittenKeeps
    <2>4. QED
      BY <1>1, <2>1, <2>2, <2>3, EarlyStepsKeep, ComparisonsKeep, HashesKeep, TemporaryStepsKeep
         DEF AssemblyStep, AssemblyMove
  <1>2. ASSUME NEW a \in Assemblies, AssemblyDies(a), UNCHANGED Aside PROVE ImageInv'
    BY <1>2, StoppingKeeps DEF AssemblyDies
  <1>3. CASE UNCHANGED imageVars
    <2>1. UNCHANGED <<optionVars, assemblyVars, fileVars, kernelVars, ramdiskVars, stale>>
      BY <1>3 DEF imageVars
    <2>2. ShapeOK' /\ OneRuns' /\ PairOK' /\ \A a \in Assemblies : RunOK(a)' /\ ReportedOK(a)'
      BY <2>1, InputsMayChange DEF kernelVars, ramdiskVars
    <2>3. ImageTypeOK' /\ BuildsOK'
      BY <2>1 DEF ImageInv, ImageTypeOK, BuildsOK, kernelVars, ramdiskVars, optionVars, assemblyVars,
                  localVars, fileVars
    <2>4. QED
      BY <2>2, <2>3 DEF ImageInv
  <1>4. QED
    BY <1>1, <1>2, <1>3, KernelStepsKeep, RamdiskStepsKeep DEF ImageNext

THEOREM ImageInvHolds == ImageSpec => []ImageInv
  BY ImageInvInit, ImageInvStep, PTL DEF ImageSpec
-----------------------------------------------------------------------------
(***************************************************************************)
(* What follows.                                                           *)
(***************************************************************************)

\* Every file is absent, half written or of its type.
THEOREM ImageTypes == ImageSpec => []ImageTypeOK
  BY ImageInvHolds, PTL DEF ImageInv

\* A checksum list that fits the files in the artifact directory was made by
\* the build that made all of them.
THEOREM SumsAreOfOneBuild == ImageSpec => []SumsMeanOneBuild
  <1>1. ImageInv => SumsMeanOneBuild
    <2> SUFFICES ASSUME ImageInv, sums = published PROVE \A f, g \in Artifacts : published[f] = published[g]
      BY DEF SumsMeanOneBuild
    <2>1. sums \notin {Absent, Partial}
      BY ContentsAssumption DEF ImageInv, ImageTypeOK
    <2>2. QED
      BY <2>1 DEF ImageInv, BuildsOK
  <1>2. QED
    BY <1>1, ImageInvHolds, PTL

\* The manifest next to an image is about that image, wherever runs have died.
THEOREM PairStaysConsistent == ImageSpec => []PairIsConsistent
  <1>1. ImageInv => PairIsConsistent
    BY FileFacts, ContentFacts DEF ImageInv, ImageTypeOK, PairOK, PairIsConsistent
  <1>2. QED
    BY <1>1, ImageInvHolds, PTL

\* What was reported is what was asked for, and stays so; the manifest says so
\* unless an input changed after it was compared.
THEOREM ReportsAreHonest == ImageSpec => []ReportedIsRequested
  <1>1. ImageInv => ReportedIsRequested
    BY DEF ImageInv, ReportedOK, Requested, Describing, ReportedIsRequested
  <1>2. QED
    BY <1>1, ImageInvHolds, PTL

\* No run, whatever its options and wherever it dies, replaces or removes an
\* image or a manifest.
THEOREM PublishedStays == ImageSpec => PublishedImageStays
  <1>1. ImageInv /\ [ImageNext]_imageVars
          => [\A k \in Kinds : final[k] # Absent => final'[k] = final[k]]_imageVars
    <2> SUFFICES ASSUME ImageInv, ImageNext, NEW k \in Kinds, final[k] # Absent
                 PROVE  final'[k] = final[k]
      OBVIOUS
    <2>1. CASE final' = final
      BY <2>1
    <2>2. ASSUME NEW a \in Assemblies, Replace(a) PROVE final'[k] = final[k]
      <3>1. final[writing] = Absent
        BY <2>2 DEF Replace, ImageInv, RunOK, WritingOK
      <3>2. QED
        BY <2>2, <3>1 DEF Replace
    <2>3. QED
      BY <2>1, <2>2
         DEF ImageNext, AssemblyStep, AssemblyMove, AssemblyDies, CheckInputs, RoundTrip, Pack,
             CompareKernel, CompareRest, NoteRamdisk, HashInputs, CheckExisting, OpenTemporary,
             OpenFile, FillTemporary, StartPublishing, PublishArtifact, PublishSums, BuildDies,
             MoveRamdisk, MoveDies, fileVars
  <1>2. QED
    BY <1>1, ImageInvHolds, PTL DEF ImageSpec, PublishedImageStays
=============================================================================
