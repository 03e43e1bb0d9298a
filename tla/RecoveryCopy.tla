---------------------------- MODULE RecoveryCopy ----------------------------
(***************************************************************************)
(* scripts/copy-verified-recovery.ps1: an invocation ("copier") checks a   *)
(* capture directory against its manifest and its listing, copies it into  *)
(* a staging directory on another physical disk, compares every copied     *)
(* file with the source, and publishes the copy by renaming the staging    *)
(* directory.  Copiers may overlap, die anywhere and be started again; a   *)
(* copied file may come out damaged; a source artifact may change under    *)
(* them (an ageing disk, another program).                                 *)
(***************************************************************************)
EXTENDS RecoveryFiles

CONSTANTS
    Copiers,        \* invocations of the script
    Roots,          \* destination roots
    DiskOf,         \* the physical disk of a capture directory or a root
    MaxDrift,       \* bound: how many verified source artifacts may change
    InitialStores   \* the capture directories the copiers may find

ASSUME CopyAssumption ==
    /\ DOMAIN DiskOf = Dirs \cup Roots
    /\ MaxDrift \in Nat
    /\ Absent \notin Trees
    /\ \A contents \in InitialStores : IsStore(contents)

Targets == Roots \X Dirs

VARIABLES
    cpc,       \* what each copier does next
    src,       \* its -SourceDirectory
    root,      \* its -DestinationRoot
    expected,  \* expectedChecksums: artifact |-> hash, from the manifest
    lines,     \* checksumLines: the listing it read
    next,      \* index of the line to verify
    seen,      \* seenChecksums: paths of the lines verified so far
    todo,      \* sourceFiles still to be compared with their copies
    staging,   \* staging[<<root, dir>>]: files of <root>\<dir>.copying, or Absent
    final,     \* final[<<root, dir>>]: files of <root>\<dir>, or Absent
    inner,     \* inner[<<root, dir>>]: files of <root>\<dir>\<dir>.copying, or Absent
    drifted    \* history: source artifacts that changed after a copier had verified them

sourceVars == <<made, store, drifted>>

copierVars == <<cpc, src, root, expected, lines, next, seen, todo>>

targetVars == <<staging, final, inner>>

copyVars == <<sourceVars, copierVars, targetVars>>

CopyActive == {"begin", "manifest", "listing", "verify", "targets", "stage", "copying", "compare"}

CopyFinished == {"refused", "dryrun", "failed", "published", "dead"}

Target(c) == <<root[c], src[c]>>

Source(c) == store[src[c]]

\* expectedChecksums.Keys
ExpectedKeys(c) == Passes \X DOMAIN expected[c]

Present(files) == {f \in Files : files[f] # Absent}

CopierInit ==
    /\ cpc = [c \in Copiers |-> "begin"]
    /\ src \in [Copiers -> Dirs]
    /\ root \in [Copiers -> Roots]
    /\ expected = [c \in Copiers |-> <<>>]
    /\ lines = [c \in Copiers |-> <<>>]
    /\ next = [c \in Copiers |-> 1]
    /\ seen = [c \in Copiers |-> {}]
    /\ todo = [c \in Copiers |-> {}]
    /\ staging = [t \in Targets |-> Absent]
    /\ final = [t \in Targets |-> Absent]
    /\ inner = [t \in Targets |-> Absent]
    /\ drifted = {}

CopyInit ==
    /\ made = Dirs
    /\ store \in InitialStores
    /\ CopierInit
-----------------------------------------------------------------------------
\* Copier c goes on to control point to.
CopyGoto(c, to) == cpc' = [cpc EXCEPT ![c] = to]

\* The source directory exists, on another disk, with both metadata files.
MayCopy(c) ==
    /\ src[c] \in made
    /\ DiskOf[src[c]] # DiskOf[root[c]]
    /\ \A f \in MetadataFiles : Source(c)[f] # Absent

BeginCopy(c) ==
    /\ cpc[c] = "begin"
    /\ IF MayCopy(c) THEN CopyGoto(c, "manifest") ELSE CopyGoto(c, "refused")
    /\ UNCHANGED <<sourceVars, src, root, expected, lines, next, seen, todo, targetVars>>

\* A manifest that parses and names at least one artifact.
ReadManifest(c) ==
    LET manifest == Source(c)[ManifestFile] IN
    /\ cpc[c] = "manifest"
    /\ IF Complete(manifest) /\ DOMAIN manifest # {}
       THEN /\ CopyGoto(c, "listing")
            /\ expected' = [expected EXCEPT ![c] = manifest]
       ELSE /\ CopyGoto(c, "refused")
            /\ UNCHANGED expected
    /\ UNCHANGED <<sourceVars, src, root, lines, next, seen, todo, targetVars>>

CountMatches(c, listing) == Len(listing) = Cardinality(ExpectedKeys(c))

ReadListing(c) ==
    LET listing == Source(c)[SumsFile] IN
    /\ cpc[c] = "listing"
    /\ IF Complete(listing) /\ CountMatches(c, listing)
       THEN /\ CopyGoto(c, IF listing = <<>> THEN "targets" ELSE "verify")
            /\ lines' = [lines EXCEPT ![c] = listing]
       ELSE /\ CopyGoto(c, "refused")
            /\ UNCHANGED lines
    /\ UNCHANGED <<sourceVars, src, root, expected, next, seen, todo, targetVars>>

\* Slip: a path listed before is not refused.
LineIsGoodMutant(c, line) ==
    /\ line.path \in ExpectedKeys(c)
    /\ line.hash = expected[c][line.path[2]]
    /\ Source(c)[line.path] = line.hash

\* One iteration of the loop over the listing: known path, first mention, the
\* manifest's hash, and a file that has it.
LineIsGood(c, line) ==
    /\ line.path \in ExpectedKeys(c)
    /\ line.path \notin seen[c]
    /\ line.hash = expected[c][line.path[2]]
    /\ Source(c)[line.path] = line.hash

\* Slip: the name is remembered without its pass.
SeenWithMutant(c, line) == seen[c] \cup {line.path[2]}

\* seenChecksums.Add
SeenWith(c, line) == seen[c] \cup {line.path}

VerifyLine(c) ==
    LET line == lines[c][next[c]] IN
    /\ cpc[c] = "verify"
    /\ IF LineIsGood(c, line)
       THEN /\ CopyGoto(c, IF next[c] < Len(lines[c]) THEN "verify" ELSE "targets")
            /\ seen' = [seen EXCEPT ![c] = SeenWith(c, line)]
            /\ next' = [next EXCEPT ![c] = @ + 1]
       ELSE /\ CopyGoto(c, "refused")
            /\ UNCHANGED <<seen, next>>
    /\ UNCHANGED <<sourceVars, src, root, expected, lines, todo, targetVars>>

\* Neither the final nor the staging path exists; -Execute or not.
CheckTargets(c) ==
    /\ cpc[c] = "targets"
    /\ \/ /\ final[Target(c)] = Absent
          /\ staging[Target(c)] = Absent
          /\ \E to \in {"dryrun", "stage"} : CopyGoto(c, to)
       \/ /\ ~(final[Target(c)] = Absent /\ staging[Target(c)] = Absent)
          /\ CopyGoto(c, "refused")
    /\ UNCHANGED <<sourceVars, src, root, expected, lines, next, seen, todo, targetVars>>
-----------------------------------------------------------------------------
\* Slip: New-Item -Force, which accepts an existing directory.
MayStageMutant(t) == TRUE

\* New-Item -ItemType Directory refuses an existing path.
MayStage(t) == staging[t] = Absent

MakeStaging(c) ==
    /\ cpc[c] = "stage"
    /\ IF MayStage(Target(c))
       THEN /\ CopyGoto(c, "copying")
            /\ staging' = [staging EXCEPT ![Target(c)] = NoFiles]
       ELSE /\ CopyGoto(c, "failed")
            /\ UNCHANGED staging
    /\ UNCHANGED <<sourceVars, src, root, expected, lines, next, seen, todo, final, inner>>

\* What a file can be once written to the destination: the source, or damaged.
Written(file, contents) ==
    {contents} \cup (IF file \in MetadataFiles THEN {Partial} ELSE Bytes)

\* Copy-Item -Recurse copies one more file of the source.
CopyFile(c) ==
    /\ cpc[c] = "copying"
    /\ \E f \in Present(Source(c)) \ Present(staging[Target(c)]) :
         \E contents \in Written(f, Source(c)[f]) :
            staging' = [staging EXCEPT ![Target(c)] = [@ EXCEPT ![f] = contents]]
    /\ UNCHANGED <<sourceVars, copierVars, final, inner>>

\* Copy-Item returns and the source files to compare are enumerated.
EnumerateFiles(c) ==
    /\ cpc[c] = "copying"
    /\ Present(Source(c)) \subseteq Present(staging[Target(c)])
    /\ CopyGoto(c, "compare")
    /\ todo' = [todo EXCEPT ![c] = Present(Source(c))]
    /\ UNCHANGED <<sourceVars, src, root, expected, lines, next, seen, targetVars>>

\* Slip: only the files named by the listing are compared.
CopyMatchesMutant(c, f) == f \in ExpectedKeys(c) => staging[Target(c)][f] = Source(c)[f]

\* Slip: only the metadata is compared.
CopyMatchesMutant2(c, f) == f \in MetadataFiles => staging[Target(c)][f] = Source(c)[f]

\* The copied file exists and has the hash the source file has now.
CopyMatches(c, f) == staging[Target(c)][f] = Source(c)[f]

CompareFile(c) ==
    /\ cpc[c] = "compare"
    /\ \E f \in todo[c] :
         \/ /\ CopyMatches(c, f)
            /\ todo' = [todo EXCEPT ![c] = @ \ {f}]
            /\ UNCHANGED cpc
         \/ /\ ~CopyMatches(c, f)
            /\ CopyGoto(c, "failed")
            /\ UNCHANGED todo
    /\ UNCHANGED <<sourceVars, src, root, expected, lines, next, seen, targetVars>>

\* Slip: the publication copies over an existing directory.
MoveItemMutant(t) ==
    /\ final' = [final EXCEPT ![t] = staging[t]]
    /\ staging' = [staging EXCEPT ![t] = Absent]
    /\ UNCHANGED inner

\* Move-Item renames the directory, or moves it into an existing one.
MoveItem(t) ==
    /\ staging' = [staging EXCEPT ![t] = Absent]
    /\ \/ /\ final[t] = Absent
          /\ final' = [final EXCEPT ![t] = staging[t]]
          /\ UNCHANGED inner
       \/ /\ final[t] # Absent
          /\ inner[t] = Absent
          /\ inner' = [inner EXCEPT ![t] = staging[t]]
          /\ UNCHANGED final

Publish(c) ==
    /\ cpc[c] = "compare"
    /\ todo[c] = {}
    /\ CopyGoto(c, "published")
    /\ MoveItem(Target(c))
    /\ UNCHANGED <<sourceVars, src, root, expected, lines, next, seen, todo>>

\* Move-Item finds both <final> and <final>\<staging> in its way.
PublishFails(c) ==
    /\ cpc[c] = "compare"
    /\ todo[c] = {}
    /\ final[Target(c)] # Absent
    /\ inner[Target(c)] # Absent
    /\ CopyGoto(c, "failed")
    /\ UNCHANGED <<sourceVars, src, root, expected, lines, next, seen, todo, targetVars>>

\* Slip: the staging directory is removed on the way out.
CopierDiesMutant(c) ==
    /\ cpc[c] \in CopyActive
    /\ CopyGoto(c, "dead")
    /\ staging' = [staging EXCEPT ![Target(c)] = Absent]
    /\ UNCHANGED <<sourceVars, src, root, expected, lines, next, seen, todo, final, inner>>

\* The script is killed, or an operation throws; nothing is cleaned up.
CopierDies(c) ==
    /\ cpc[c] \in CopyActive
    /\ CopyGoto(c, "dead")
    /\ UNCHANGED <<sourceVars, src, root, expected, lines, next, seen, todo, targetVars>>

\* Past the verification loop of the listing.
PastVerification == {"targets", "dryrun", "stage", "copying", "compare", "published"}

\* Some copier has verified artifact p of directory d, or is through with all
\* it looks at.
ReliedUpon(d, p) ==
    \E c \in Copiers : src[c] = d /\ (p \in seen[c] \/ cpc[c] \in PastVerification)

\* An artifact of the source changes (external).  What changes before it is
\* verified is for the verification to find.
Drift ==
    /\ Cardinality(drifted) < MaxDrift
    /\ \E d \in Dirs, p \in Paths, b \in Bytes :
         /\ store[d][p] \notin {Absent, b}
         /\ store' = [store EXCEPT ![d] = [@ EXCEPT ![p] = b]]
         /\ drifted' = IF ReliedUpon(d, p) THEN drifted \cup {<<d, p>>} ELSE drifted
    /\ UNCHANGED <<made, copierVars, targetVars>>
-----------------------------------------------------------------------------
CopierStep(c) ==
    \/ BeginCopy(c)
    \/ ReadManifest(c)
    \/ ReadListing(c)
    \/ VerifyLine(c)
    \/ CheckTargets(c)
    \/ MakeStaging(c)
    \/ CopyFile(c)
    \/ EnumerateFiles(c)
    \/ CompareFile(c)
    \/ Publish(c)
    \/ PublishFails(c)

CopyNext == (\E c \in Copiers : CopierStep(c) \/ CopierDies(c)) \/ Drift

CopySpec == CopyInit /\ [][CopyNext]_copyVars
-----------------------------------------------------------------------------
CopyTypeOK ==
    /\ StoreTypeOK
    /\ cpc \in [Copiers -> CopyActive \cup CopyFinished]
    /\ src \in [Copiers -> Dirs]
    /\ root \in [Copiers -> Roots]
    /\ expected \in [Copiers -> Manifests]
    /\ lines \in [Copiers -> Listings]
    /\ next \in [Copiers -> Nat]
    /\ seen \in [Copiers -> SUBSET Paths]
    /\ todo \in [Copiers -> SUBSET Files]
    /\ \A tree \in {staging, final, inner} : tree \in [Targets -> {Absent} \cup Trees]
    /\ drifted \in SUBSET (Dirs \X Paths)

\* The loop checks line by line, yet once it is through, every artifact of the
\* manifest has been checked in both passes: equal counts, no path twice and
\* no unknown path leave no artifact out.  Only one that changed after its line
\* was verified can differ.
VerificationIsComplete ==
    \A c \in Copiers : cpc[c] \in PastVerification =>
        \A p \in ExpectedKeys(c) :
            Source(c)[p] = expected[c][p[2]] \/ <<src[c], p>> \in drifted

\* A published copy proves itself: it holds a complete manifest and listing,
\* and every artifact of the manifest, twice, with the recorded hash, unless
\* that artifact changed on the source disk after it was verified, which the
\* script does not see.  No damage done while copying and
\* no death or overlap of copiers publishes anything else.
PublishedProvesItself ==
    \A t \in Targets : final[t] # Absent =>
        /\ Complete(final[t][ManifestFile])
        /\ Complete(final[t][SumsFile])
        /\ \A p \in Passes \X DOMAIN final[t][ManifestFile] :
             \/ final[t][p] = final[t][ManifestFile][p[2]]
             \/ <<t[2], p>> \in drifted

Staging(c) == cpc[c] \in {"copying", "compare"}

\* A staging directory has one writer, and it stays there for it: between
\* New-Item and Move-Item no other copier creates, moves or fills it.
OneStagingWriter ==
    /\ \A c \in Copiers : Staging(c) => staging[Target(c)] # Absent
    /\ \A b, c \in Copiers :
         Staging(b) /\ Staging(c) /\ Target(b) = Target(c) => b = c

\* The files of a published copy are never changed or removed by a later or
\* an overlapping run.
PublishedFilesStay ==
    [][\A t \in Targets : final[t] # Absent => final'[t] = final[t]]_copyVars

\* An incomplete staging directory is left for inspection: it only goes away
\* by becoming, whole, a published directory.
StagingIsLeft ==
    [][\A t \in Targets : staging[t] # Absent /\ staging'[t] = Absent
          => staging[t] \in {final'[t], inner'[t]}]_copyVars

\* The script refuses to overwrite an existing final path: nothing is ever put
\* into a directory that was published before (docs/recovery.md:147).
FinalPathIsRefused == \A t \in Targets : inner[t] = Absent
=============================================================================
