----------------------------- MODULE BootImage -----------------------------
(***************************************************************************)
(* scripts/build-test-boot-image.py: assembling an unsigned boot image and *)
(* its manifest from a stock boot image, the kernel that build-kernel.sh   *)
(* publishes and, if asked for, the ramdisk that                           *)
(* prepare-recovery-ramdisk.sh personalizes.                               *)
(*                                                                         *)
(* Runs of the assembly follow each other.  They may die anywhere and are  *)
(* repeated with the same or other options, while kernel builds and the    *)
(* preparation of the ramdisk go on in other containers over the same work *)
(* directory, and may die there as well.                                   *)
(***************************************************************************)
EXTENDS Naturals, Sequences

CONSTANTS
    Assemblies,      \* runs of build-test-boot-image.py
    Kernels,         \* what kernel builds can make
    TooLarge,        \* kernels that make the payload exceed the stock payload
    Personal,        \* personalized ramdisks
    Options,         \* option sets: [personalized: --ramdisk given, cmdline: with --append-cmdline]
    ArtifactOrder,   \* the files build-kernel.sh publishes, in order
    MaxBuilds,       \* bound: how many kernel builds there are
    Absent, Partial, \* no file; a file that is not completely written
    Stock,           \* a component of the stock image
    Damaged          \* a component mkbootimg.py did not pack as it is

Artifacts == {ArtifactOrder[i] : i \in DOMAIN ArtifactOrder}

Parts == {"kernel", "ramdisk", "dtb", "cmdline"}

Kinds == {"image", "manifest"}

ASSUME BootImageAssumption ==
    /\ ArtifactOrder \in Seq(STRING)
    /\ \A i, j \in DOMAIN ArtifactOrder : ArtifactOrder[i] = ArtifactOrder[j] => i = j
    /\ "Image.gz" \in Artifacts
    /\ MaxBuilds \in Nat
    /\ TooLarge \subseteq Kernels
    /\ Absent # Partial
    /\ Damaged \notin {Absent, Partial}
    /\ Stock \notin Personal
    /\ \A o \in Options : o.personalized \in BOOLEAN
    /\ {Absent, Partial, Damaged} \cap (Kernels \cup Personal \cup {o.cmdline : o \in Options} \cup {Stock}) = {}

VARIABLES
    \* build-kernel.sh
    published,   \* the files in the artifact directory
    sums,        \* its SHA256SUMS: artifact |-> hash
    building,    \* the kernel being published, or Absent
    step,        \* the artifact it publishes next, counted from 1
    builds,      \* kernel builds so far
    \* prepare-recovery-ramdisk.sh
    ramdisk,     \* its output
    moving,      \* the ramdisk being moved there, or Absent
    \* build-test-boot-image.py
    pc,          \* what each run does next
    options,     \* the options of each run
    toolsGood,   \* whether the pinned tools work
    custom,      \* custom_temporary of the run in progress: part |-> contents
    manifest,    \* what it has put into its manifest so far
    writing,     \* "image" or "manifest": what it is to write
    final, temp, \* output, output.json and their temporary files
    stale        \* history: runs whose kernel or ramdisk file changed after its comparison and
                 \* before its hash

kernelVars == <<published, sums, building, step, builds>>

ramdiskVars == <<ramdisk, moving>>

optionVars == <<options, toolsGood>>

localVars == <<custom, manifest, writing>>

assemblyVars == <<pc, localVars>>

fileVars == <<final, temp>>

imageVars == <<kernelVars, ramdiskVars, optionVars, assemblyVars, fileVars, stale>>

\* Past the comparison of the packed parts with the inputs.
Compared == {"note", "check", "open", "fill", "replace", "hash"}

\* Past the comparison of the kernel, which comes first.
KernelCompared == {"compare rest"} \cup Compared

Active == {"roundtrip", "pack", "compare"} \cup KernelCompared

Over == {"refused", "failed", "dead", "reported"}

ImageInit ==
    /\ \/ /\ published = [f \in Artifacts |-> Absent]
          /\ sums = Absent
       \/ /\ \E k \in Kernels : published = [f \in Artifacts |-> k]
          /\ sums = published
    /\ building = Absent
    /\ step = 1
    /\ builds = 0
    /\ ramdisk = Absent
    /\ moving = Absent
    /\ pc = [a \in Assemblies |-> "start"]
    /\ options \in [Assemblies -> Options]
    /\ toolsGood \in BOOLEAN
    /\ custom = Absent
    /\ manifest = Absent
    /\ writing = "image"
    /\ final = [k \in Kinds |-> Absent]
    /\ temp = [k \in Kinds |-> Absent]
    /\ stale = {}
-----------------------------------------------------------------------------
\* build-kernel.sh: a kernel has been made and is published file by file.

\* The runs that have compared the kernel and have still to hash it, ...
KernelAwaits == {a \in Assemblies : pc[a] \in KernelCompared /\ writing = "image"}

\* ... and those that have compared their ramdisk and have still to hash it.
RamdiskAwaits == {a \in Assemblies : pc[a] = "note" /\ options[a].personalized}

StartPublishing ==
    /\ building = Absent
    /\ builds < MaxBuilds
    /\ building' \in Kernels
    /\ builds' = builds + 1
    /\ step' = 1
    /\ UNCHANGED <<published, sums, ramdiskVars, optionVars, assemblyVars, fileVars, stale>>

\* cp, or gzip with a redirection, truncates the file and then fills it.
PublishArtifact ==
    /\ building # Absent
    /\ step \in DOMAIN ArtifactOrder
    /\ LET f == ArtifactOrder[step] IN
         /\ \/ /\ published[f] # Partial
               /\ published' = [published EXCEPT ![f] = Partial]
               /\ UNCHANGED step
            \/ /\ published[f] = Partial
               /\ published' = [published EXCEPT ![f] = building]
               /\ step' = step + 1
         /\ stale' = IF f = "Image.gz" THEN stale \cup KernelAwaits ELSE stale
    /\ UNCHANGED <<sums, building, builds, ramdiskVars, optionVars, assemblyVars, fileVars>>

\* Slip: the checksums are written before the last file is.
SumsAreDueMutant == step >= Len(ArtifactOrder)

SumsAreDue == step > Len(ArtifactOrder)

\* sha256sum ... > SHA256SUMS
PublishSums ==
    /\ building # Absent
    /\ SumsAreDue
    /\ \/ /\ sums # Partial
          /\ sums' = Partial
          /\ UNCHANGED building
       \/ /\ sums = Partial
          /\ sums' = published
          /\ building' = Absent
    /\ UNCHANGED <<published, step, builds, ramdiskVars, optionVars, assemblyVars, fileVars, stale>>

BuildDies ==
    /\ building # Absent
    /\ building' = Absent
    /\ UNCHANGED <<published, sums, step, builds, ramdiskVars, optionVars, assemblyVars, fileVars, stale>>
-----------------------------------------------------------------------------
\* prepare-recovery-ramdisk.sh: an output that exists is compared with the
\* candidate and kept, whichever way that goes; otherwise the candidate is
\* moved there, from a directory on another file system.
MoveRamdisk ==
    /\ \/ /\ ramdisk = Absent /\ moving = Absent
          /\ ramdisk' = Partial
          /\ moving' \in Personal
       \/ /\ moving # Absent
          /\ ramdisk' = moving
          /\ moving' = Absent
    /\ stale' = stale \cup RamdiskAwaits
    /\ UNCHANGED <<kernelVars, optionVars, assemblyVars, fileVars>>

MoveDies ==
    /\ moving # Absent
    /\ moving' = Absent
    /\ UNCHANGED <<kernelVars, ramdisk, optionVars, assemblyVars, fileVars, stale>>
-----------------------------------------------------------------------------
\* build-test-boot-image.py

Goto(a, to) == pc' = [pc EXCEPT ![a] = to]

\* The run is over, and its variables and its temporary directory are gone.
Finish(a, verdict) ==
    /\ Goto(a, verdict)
    /\ custom' = Absent
    /\ manifest' = Absent
    /\ writing' = "image"

\* What run a is asked to pack, as the input files are now.
Inputs(a) == [kernel  |-> published["Image.gz"],
              ramdisk |-> IF options[a].personalized THEN ramdisk ELSE Stock,
              dtb     |-> Stock,
              cmdline |-> options[a].cmdline]

\* Input files, output name and stock hash are checked.
CheckInputs(a) ==
    /\ pc[a] = "start"
    /\ \A x \in Assemblies : pc[x] \notin Active
    /\ \/ /\ \A part \in Parts : Inputs(a)[part] # Absent
          /\ Goto(a, "roundtrip")
       \/ Goto(a, "refused")
    /\ UNCHANGED <<localVars, fileVars>>

\* The stock image is unpacked, packed again and compared.
RoundTrip(a) ==
    /\ pc[a] = "roundtrip"
    /\ \/ Goto(a, "pack") /\ UNCHANGED localVars
       \/ ~toolsGood /\ Finish(a, "failed")
    /\ UNCHANGED fileVars

\* mkbootimg.py packs the inputs, or gets one of the parts wrong.
Pack(a) ==
    /\ pc[a] = "pack"
    /\ \/ custom' = Inputs(a)
       \/ /\ ~toolsGood
          /\ \E part \in Parts : custom' = [Inputs(a) EXCEPT ![part] = Damaged]
    /\ Goto(a, "compare")
    /\ UNCHANGED <<manifest, writing, fileVars>>

\* files_equal says what it is asked for some of the unpacked parts.  Two half-
\* written files may differ although both are Partial.
MayEqual(a, parts) == \A part \in parts : custom[part] = Inputs(a)[part]

MayDiffer(a, parts) == \E part \in parts : custom[part] # Inputs(a)[part] \/ custom[part] = Partial

Fits(image) == image.kernel \notin TooLarge

\* The arguments and the kernel of the unpacked custom image are compared with
\* what was asked for, ...
CompareKernel(a) ==
    /\ pc[a] = "compare"
    /\ \/ MayEqual(a, {"cmdline", "kernel"}) /\ Goto(a, "compare rest") /\ UNCHANGED localVars
       \/ MayDiffer(a, {"cmdline", "kernel"}) /\ Finish(a, "failed")
    /\ UNCHANGED fileVars

\* ... and then its ramdisk, its dtb and its size.
CompareRest(a) ==
    /\ pc[a] = "compare rest"
    /\ \/ /\ MayEqual(a, {"ramdisk", "dtb"}) /\ Fits(custom)
          /\ Goto(a, "note")
          /\ UNCHANGED localVars
       \/ /\ MayDiffer(a, {"ramdisk", "dtb"}) \/ ~Fits(custom)
          /\ Finish(a, "failed")
    /\ UNCHANGED fileVars

\* The ramdisk is hashed for the manifest; then the image is to be written.
NoteRamdisk(a) ==
    /\ pc[a] = "note"
    /\ manifest' = [ramdisk |-> Inputs(a).ramdisk]
    /\ writing' = "image"
    /\ Goto(a, "check")
    /\ UNCHANGED <<custom, fileVars>>

\* The kernel file and the output are hashed for the manifest.
HashInputs(a) ==
    /\ pc[a] = "hash"
    /\ manifest' = [kernel  |-> Inputs(a).kernel,
                    ramdisk |-> manifest.ramdisk,
                    cmdline |-> custom.cmdline,
                    image   |-> final["image"]]
    /\ writing' = "manifest"
    /\ Goto(a, "check")
    /\ UNCHANGED <<custom, fileVars>>
-----------------------------------------------------------------------------
\* write_idempotent(path, content), for the image and then for the manifest.

Content == IF writing = "image" THEN custom ELSE manifest

Written(a) == IF writing = "image" THEN Goto(a, "hash") /\ UNCHANGED localVars
                                   ELSE Finish(a, "reported")

\* Slip: an existing file is in the way, whatever it holds.
MayKeepNothing == FALSE

\* Slip: an existing file is kept, whatever it holds.
MayKeepMutant == final[writing] # Absent

\* An existing file with the same contents is kept.
MayKeep == final[writing] = Content

\* Slip: an existing file with other contents is replaced.
MayWriteMutant == final[writing] # Content

MayWrite == final[writing] = Absent

CheckExisting(a) ==
    /\ pc[a] = "check"
    /\ \/ MayKeep /\ Written(a)
       \/ ~MayKeep /\ MayWrite /\ Goto(a, "open") /\ UNCHANGED localVars
       \/ ~MayKeep /\ ~MayWrite /\ Finish(a, "failed")
    /\ UNCHANGED fileVars

\* Slip: the file is written under its own name.
OpenFileMutant ==
    /\ final' = [final EXCEPT ![writing] = Partial]
    /\ temp' = [temp EXCEPT ![writing] = Partial]

OpenFile ==
    /\ temp' = [temp EXCEPT ![writing] = Partial]
    /\ UNCHANGED final

OpenTemporary(a) ==
    /\ pc[a] = "open"
    /\ OpenFile
    /\ Goto(a, "fill")
    /\ UNCHANGED localVars

FillTemporary(a) ==
    /\ pc[a] = "fill"
    /\ temp' = [temp EXCEPT ![writing] = Content]
    /\ Goto(a, "replace")
    /\ UNCHANGED <<localVars, final>>

\* os.replace
Replace(a) ==
    /\ pc[a] = "replace"
    /\ final' = [final EXCEPT ![writing] = temp[writing]]
    /\ temp' = [temp EXCEPT ![writing] = Absent]
    /\ Written(a)

\* The run is killed, or a tool or an operation throws; the temporary file of
\* write_idempotent stays.
AssemblyDies(a) ==
    /\ pc[a] \in Active
    /\ Finish(a, "dead")
    /\ UNCHANGED fileVars
-----------------------------------------------------------------------------
AssemblyMove(a) ==
    \/ CheckInputs(a)
    \/ RoundTrip(a)
    \/ Pack(a)
    \/ CompareKernel(a)
    \/ CompareRest(a)
    \/ NoteRamdisk(a)
    \/ HashInputs(a)
    \/ CheckExisting(a)
    \/ OpenTemporary(a)
    \/ FillTemporary(a)
    \/ Replace(a)

Aside == <<kernelVars, ramdiskVars, optionVars, stale>>

AssemblyStep(a) == AssemblyMove(a) /\ UNCHANGED Aside

ImageNext ==
    \/ \E a \in Assemblies : AssemblyStep(a) \/ (AssemblyDies(a) /\ UNCHANGED Aside)
    \/ StartPublishing
    \/ PublishArtifact
    \/ PublishSums
    \/ BuildDies
    \/ MoveRamdisk
    \/ MoveDies

ImageSpec == ImageInit /\ [][ImageNext]_imageVars

\* A run goes on by itself; the other scripts, and the operator, need not.
ImageFairSpec == ImageSpec /\ \A a \in Assemblies : WF_imageVars(AssemblyStep(a))
-----------------------------------------------------------------------------
CommandLines == {o.cmdline : o \in Options}

KernelFiles == Kernels \cup {Absent, Partial}

RamdiskFiles == Personal \cup {Absent, Partial}

Images == [kernel  : Kernels \cup {Partial, Damaged},
           ramdisk : Personal \cup {Stock, Partial, Damaged},
           dtb     : {Stock, Damaged},
           cmdline : CommandLines \cup {Damaged}]

Manifests == [ramdisk : RamdiskFiles \cup {Stock}, kernel : KernelFiles,
              cmdline : CommandLines, image : Images]

\* No file, and half a file, are not the contents of one.
ASSUME ContentsAssumption ==
    \A x \in {Absent, Partial} :
        x \notin [Artifacts -> KernelFiles] /\ x \notin Images /\ x \notin Manifests

\* What has a name in a directory is absent, half written or of its type.
ImageTypeOK ==
    /\ published \in [Artifacts -> KernelFiles]
    /\ sums \in [Artifacts -> Kernels] \cup {Absent, Partial}
    /\ building \in Kernels \cup {Absent}
    /\ step \in 1 .. Len(ArtifactOrder) + 1
    /\ builds \in 0 .. MaxBuilds
    /\ ramdisk \in RamdiskFiles
    /\ moving \in Personal \cup {Absent}
    /\ pc \in [Assemblies -> Active \cup Over \cup {"start"}]
    /\ toolsGood \in BOOLEAN
    /\ custom \in Images \cup {Absent}
    /\ writing \in Kinds
    /\ final["image"] \in Images \cup {Absent}
    /\ final["manifest"] \in Manifests \cup {Absent}
    /\ temp["image"] \in Images \cup {Absent, Partial}
    /\ temp["manifest"] \in Manifests \cup {Absent, Partial}
    /\ stale \in SUBSET Assemblies

\* A checksum list that fits the files says they are of one build, although
\* four files and the list are published one after the other, build after
\* build, and a build may stop between any two of them.
SumsMeanOneBuild ==
    sums = published => \A f, g \in Artifacts : published[f] = published[g]

\* Nothing is ever half written under its own name, wherever a run died, and
\* the manifest next to an image is about that image: no repeated run, with
\* the same or other options, replaces one of the two without the other.
PairIsConsistent ==
    /\ final["image"] # Partial
    /\ final["manifest"] # Absent =>
         final["manifest"] # Partial /\ final["manifest"].image = final["image"]

\* A run that reports success leaves an image of what it was asked for, and a
\* manifest that says so, whatever earlier runs left and later ones try.  What
\* the manifest says is excepted for a run whose kernel changed between its
\* comparison and its hash, or whose ramdisk did: the code does not see that.
ReportedIsRequested ==
    \A a \in Assemblies : pc[a] = "reported" =>
        LET image == final["image"] IN
        /\ image.cmdline = options[a].cmdline /\ image.dtb = Stock
        /\ image.ramdisk # Stock <=> options[a].personalized
        /\ Damaged \notin {image[part] : part \in Parts}
        /\ Fits(image)
        /\ a \notin stale =>
             final["manifest"] = [kernel |-> image.kernel, ramdisk |-> image.ramdisk,
                                  cmdline |-> image.cmdline, image |-> image]

\* An image or a manifest that exists is never replaced or removed.
PublishedImageStays ==
    [][\A k \in Kinds : final[k] # Absent => final'[k] = final[k]]_imageVars

\* No other script is changing an input.
InputsRest == building = Absent /\ moving = Absent

\* What exists is what run a would write.
MayRepeat(a) ==
    /\ final["image"] \in {Absent, Inputs(a)}
    /\ final["manifest"] \in {Absent, [kernel |-> Inputs(a).kernel, ramdisk |-> Inputs(a).ramdisk,
                                       cmdline |-> options[a].cmdline, image |-> Inputs(a)]}

\* A run that died, wherever it was, can be repeated: with good tools and the
\* same inputs at rest the next run completes the pair.
RepeatedRunCompletes ==
    \A a \in Assemblies :
        []( /\ pc[a] = "roundtrip"
            /\ toolsGood /\ Fits(Inputs(a))
            /\ Partial \notin {Inputs(a)[part] : part \in Parts}
            /\ MayRepeat(a)
            /\ []InputsRest
            => <>(pc[a] \in {"reported", "dead"}))
=============================================================================
