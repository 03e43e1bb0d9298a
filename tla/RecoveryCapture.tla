-------------------------- MODULE RecoveryCapture --------------------------
(***************************************************************************)
(* scripts/capture-recovery-baseline.py: one invocation ("run") creates a  *)
(* capture directory, lets mtkclient read every artifact of the tablet     *)
(* twice, checks each pass and the agreement of the two, and only then     *)
(* writes the listing and the manifest.  Several runs, started by hand or  *)
(* retried, may share one output directory; a run may die between any two  *)
(* steps.  The tablet and mtkclient are an environment that may misread,   *)
(* skip or truncate any artifact and still exit with status 0.             *)
(***************************************************************************)
EXTENDS RecoveryFiles

CONSTANTS
    Runs,         \* invocations of the script
    Commands,     \* the commands of one pass: the set of artifacts each one writes
    GptPrimary,   \* gpt.bin
    GptBackup,    \* gpt_backup.bin
    WellFormed,   \* WellFormed[a]: contents of a with the right size, magic, non-uniform
    ParsedGpt,    \* ParsedGpt[<<x, y>>]: parse_gpt_pair of the two spans
    CompleteGpts  \* parsed GPTs with every required partition, of the right size

ASSUME CaptureAssumption ==
    /\ {GptPrimary, GptBackup} \subseteq Expected
    /\ Commands \in Seq(SUBSET Expected)
    /\ WellFormed \in [Expected -> SUBSET Bytes]
    /\ Bytes \X Bytes \subseteq DOMAIN ParsedGpt

VARIABLES
    pc,      \* what each run does next
    dir,     \* its --output-dir
    cursor,  \* the next command of the plan mtkclient executes for it
    digests  \* checksum_lines: the listing it computed, once it has compared the passes

captureVars == <<made, store, pc, dir, cursor, digests>>

\* Control points of a run that has created its directory and not finished.
Working == {"setup", "read", "pass1", "pass2", "compare",
            "sums", "sumsOpen", "manifest", "manifestOpen"}

Finished == {"refused", "dryrun", "failed", "rejected", "verified", "dead"}

\* build_plan: the commands of a pass, once for each pass.
Plan == [i \in 1 .. 2 * Len(Commands) |->
            [pass    |-> IF i <= Len(Commands) THEN "pass1" ELSE "pass2",
             outputs |-> Commands[IF i <= Len(Commands) THEN i ELSE i - Len(Commands)]]]

CaptureInit ==
    /\ made = {}
    /\ store = [d \in Dirs |-> NoFiles]
    /\ pc = [r \in Runs |-> "start"]
    /\ dir \in [Runs -> Dirs]
    /\ cursor = [r \in Runs |-> 1]
    /\ digests = [r \in Runs |-> <<>>]
-----------------------------------------------------------------------------
\* Run r goes on to control point to.
Goto(r, to) == pc' = [pc EXCEPT ![r] = to]

\* One file of r's directory gets new contents.
WriteFile(r, file, contents) ==
    store' = [store EXCEPT ![dir[r]] = [@ EXCEPT ![file] = contents]]

\* main up to the dry-run return: path, preloader, tool and plan checks.
CheckInputs(r) ==
    /\ pc[r] = "start"
    /\ \E next \in {"refused", "dryrun", "mkdir"} : Goto(r, next)
    /\ UNCHANGED <<made, store, dir, cursor, digests>>

\* Slip: mkdir(exist_ok=True).
MayCreateMutant(d) == TRUE

\* output.mkdir(exist_ok=False): whether the directory may be used.
MayCreate(d) == d \notin made

MakeDir(r) ==
    /\ pc[r] = "mkdir"
    /\ MayCreate(dir[r])
    /\ Goto(r, "setup")
    /\ made' = made \cup {dir[r]}
    /\ UNCHANGED <<store, dir, cursor, digests>>

MakeDirFails(r) ==
    /\ pc[r] = "mkdir"
    /\ ~MayCreate(dir[r])
    /\ Goto(r, "failed")
    /\ UNCHANGED <<made, store, dir, cursor, digests>>

\* The pass directories and the plan file are written, mtkclient is started.
StartMtk(r) ==
    /\ pc[r] = "setup"
    /\ Goto(r, "read")
    /\ UNCHANGED <<made, store, dir, cursor, digests>>
-----------------------------------------------------------------------------
\* mtkclient, the environment.

\* The files a command leaves: contents of its outputs, or nothing.
WriteOutputs(r, command, contents) ==
    store' = [store EXCEPT ![dir[r]] =
                [f \in Files |-> IF f \in {command.pass} \X command.outputs
                                 THEN contents[f[2]]
                                 ELSE @[f]]]

\* A command of the plan is executed.  da_gpt writes both spans or raises; an
\* `r` or `ro` that reads nothing is no reason for mtkclient to stop.
MtkCommand(r) ==
    /\ pc[r] = "read"
    /\ cursor[r] \in DOMAIN Plan
    /\ LET command == Plan[cursor[r]] IN
         \E contents \in [command.outputs -> Bytes \cup {Absent}] :
            /\ GptPrimary \in command.outputs => \A a \in command.outputs : contents[a] # Absent
            /\ WriteOutputs(r, command, contents)
    /\ cursor' = [cursor EXCEPT ![r] = @ + 1]
    /\ UNCHANGED <<made, pc, dir, digests>>

\* A *.bin file nobody asked for turns up in a pass directory.
MtkStray(r) ==
    /\ pc[r] = "read"
    /\ \E p \in Passes \X Stray, b \in Bytes :
         /\ store[dir[r]][p] = Absent
         /\ WriteFile(r, p, b)
    /\ UNCHANGED <<made, pc, dir, cursor, digests>>

\* Exit status 0, whether or not the whole script was executed.
MtkExits(r) ==
    /\ pc[r] = "read"
    /\ Goto(r, "pass1")
    /\ UNCHANGED <<made, store, dir, cursor, digests>>

\* A nonzero exit status, whatever the current command has left.
MtkFails(r) ==
    /\ pc[r] = "read"
    /\ Goto(r, "failed")
    /\ \/ UNCHANGED store
       \/ /\ cursor[r] \in DOMAIN Plan
          /\ LET command == Plan[cursor[r]] IN
               \E contents \in [command.outputs -> Bytes \cup {Absent}] :
                  WriteOutputs(r, command, contents)
    /\ UNCHANGED <<made, dir, cursor, digests>>
-----------------------------------------------------------------------------
\* validate_capture_pass: each kind of failure it collects.
MissingArtifacts(d, pass) == {a \in Expected : store[d][<<pass, a>>] = Absent}

\* Slip: gpt_backup.bin is left out of the expected names.
UnexpectedArtifactsMutant(d, pass) ==
    {a \in Stray \cup {GptBackup} : store[d][<<pass, a>>] # Absent}

UnexpectedArtifacts(d, pass) == {a \in Stray : store[d][<<pass, a>>] # Absent}

IllFormedArtifacts(d, pass) ==
    {a \in Expected : /\ store[d][<<pass, a>>] # Absent
                      /\ store[d][<<pass, a>>] \notin WellFormed[a]}

GptOf(d, pass) ==
    ParsedGpt[<<store[d][<<pass, GptPrimary>>], store[d][<<pass, GptBackup>>]>>]

\* Slip: the difference expected - actual is not computed; only the two GPT
\* files are opened unconditionally.
PassIsValidMutant(d, pass) ==
    /\ MissingArtifacts(d, pass) \cap {GptPrimary, GptBackup} = {}
    /\ UnexpectedArtifacts(d, pass) = {}
    /\ IllFormedArtifacts(d, pass) = {}
    /\ GptOf(d, pass) \in CompleteGpts

PassIsValid(d, pass) ==
    /\ MissingArtifacts(d, pass) = {}
    /\ UnexpectedArtifacts(d, pass) = {}
    /\ IllFormedArtifacts(d, pass) = {}
    /\ GptOf(d, pass) \in CompleteGpts

ValidatePass(r, pass, next) ==
    /\ pc[r] = pass
    /\ IF PassIsValid(dir[r], pass) THEN Goto(r, next) ELSE Goto(r, "rejected")
    /\ UNCHANGED <<made, store, dir, cursor, digests>>

ValidatePass1(r) == ValidatePass(r, "pass1", "pass2")

ValidatePass2(r) == ValidatePass(r, "pass2", "compare")

\* Slip: the same pass is hashed twice.
ReadsAgreeMutant(d) == \A a \in Expected : store[d][<<"pass1", a>>] = store[d][<<"pass1", a>>]

\* The two reads of every artifact have the same SHA-256.
ReadsAgree(d) == \A a \in Expected : store[d][<<"pass1", a>>] = store[d][<<"pass2", a>>]

\* The listing of a directory whose passes hold exactly the expected artifacts.
ListingOf(d) == [i \in DOMAIN LineOrder |->
                    [path |-> LineOrder[i], hash |-> store[d][LineOrder[i]]]]

\* validate_capture up to the failure check: GPT equality, then the hashes.
Compare(r) ==
    /\ pc[r] = "compare"
    /\ IF GptOf(dir[r], "pass1") = GptOf(dir[r], "pass2") /\ ReadsAgree(dir[r])
       THEN /\ digests' = [digests EXCEPT ![r] = ListingOf(dir[r])]
            /\ Goto(r, "sums")
       ELSE /\ Goto(r, "rejected")
            /\ UNCHANGED digests
    /\ UNCHANGED <<made, store, dir, cursor>>
-----------------------------------------------------------------------------
\* Path.write_text truncates or creates the file, then fills it.
OpenSums(r) ==
    /\ pc[r] = "sums"
    /\ Goto(r, "sumsOpen")
    /\ WriteFile(r, SumsFile, Partial)
    /\ UNCHANGED <<made, dir, cursor, digests>>

\* Slip: the run returns once the listing is written.
WriteSumsMutant(r) ==
    /\ pc[r] = "sumsOpen"
    /\ Goto(r, "verified")
    /\ WriteFile(r, SumsFile, digests[r])
    /\ UNCHANGED <<made, dir, cursor, digests>>

WriteSums(r) ==
    /\ pc[r] = "sumsOpen"
    /\ Goto(r, "manifest")
    /\ WriteFile(r, SumsFile, digests[r])
    /\ UNCHANGED <<made, dir, cursor, digests>>

OpenManifest(r) ==
    /\ pc[r] = "manifest"
    /\ Goto(r, "manifestOpen")
    /\ WriteFile(r, ManifestFile, Partial)
    /\ UNCHANGED <<made, dir, cursor, digests>>

\* artifacts: the first pass's hash of every artifact.
ManifestOf(d) == [a \in Expected |-> store[d][<<"pass1", a>>]]

WriteManifest(r) ==
    /\ pc[r] = "manifestOpen"
    /\ Goto(r, "verified")
    /\ WriteFile(r, ManifestFile, ManifestOf(dir[r]))
    /\ UNCHANGED <<made, dir, cursor, digests>>

\* The run is killed, or the container or the host stops.
Crash(r) ==
    /\ pc[r] \in Working \cup {"start", "mkdir"}
    /\ Goto(r, "dead")
    /\ UNCHANGED <<made, store, dir, cursor, digests>>
-----------------------------------------------------------------------------
\* What the script itself does next, as opposed to the tablet, the operator
\* or a crash.
ScriptStep(r) ==
    \/ MakeDir(r)
    \/ MakeDirFails(r)
    \/ StartMtk(r)
    \/ ValidatePass1(r)
    \/ ValidatePass2(r)
    \/ Compare(r)
    \/ OpenSums(r)
    \/ WriteSums(r)
    \/ OpenManifest(r)
    \/ WriteManifest(r)

MtkStep(r) ==
    \/ MtkCommand(r)
    \/ MtkStray(r)
    \/ MtkExits(r)
    \/ MtkFails(r)

CaptureNext == \E r \in Runs : CheckInputs(r) \/ ScriptStep(r) \/ MtkStep(r) \/ Crash(r)

CaptureSpec == CaptureInit /\ [][CaptureNext]_captureVars
-----------------------------------------------------------------------------
CaptureTypeOK ==
    /\ StoreTypeOK
    /\ pc \in [Runs -> Working \cup Finished \cup {"start", "mkdir"}]
    /\ dir \in [Runs -> Dirs]
    /\ cursor \in [Runs -> Nat]
    /\ digests \in [Runs -> Listings]

Owns(r, d) == dir[r] = d /\ pc[r] \in Working

\* Two runs never work in the same directory, however their checks and
\* creations interleave: mkdir(exist_ok=False) is the only thing that decides.
ExclusiveOwner ==
    \A d \in Dirs, r, s \in Runs : Owns(r, d) /\ Owns(s, d) => r = s

\* What the two passes of a rollback baseline are: every expected artifact
\* read twice, identically and well formed, nothing else, a complete GPT.
Sound(d) ==
    /\ \A a \in Expected : /\ store[d][<<"pass1", a>>] \in WellFormed[a]
                            /\ store[d][<<"pass2", a>>] = store[d][<<"pass1", a>>]
    /\ \A p \in Passes \X Stray : store[d][p] = Absent
    /\ ParsedGpt[<<store[d][<<"pass1", GptPrimary>>],
                   store[d][<<"pass1", GptBackup>>]>>] \in CompleteGpts

\* The listing and the manifest describe exactly the files that are there.
MetadataDescribes(d) ==
    /\ DOMAIN store[d][ManifestFile] = Expected
    /\ \A a \in Expected : store[d][ManifestFile][a] = store[d][<<"pass2", a>>]
    /\ Complete(store[d][SumsFile])
    /\ Len(store[d][SumsFile]) = Len(LineOrder)
    /\ \A p \in ExpectedPaths :
         \E i \in DOMAIN store[d][SumsFile] :
            store[d][SumsFile][i] = [path |-> p, hash |-> store[d][p]]

\* A directory with a complete manifest is a rollback baseline: every artifact
\* was read twice, identically, and checked, and the metadata describes the
\* files.  Whatever mtkclient left out, misread or added, and wherever a run
\* died, a manifest is never complete over anything else.
VerifiedIsSound == \A d \in Dirs : Verified(d) => Sound(d) /\ MetadataDescribes(d)

\* A capture is rejected only for a reason: a run never rejects a directory
\* whose two passes are complete, well formed and equal.
RejectedForCause == \A r \in Runs : pc[r] = "rejected" => ~Sound(dir[r])

\* A directory that exists and that no run works in.
Left(d) == d \in made /\ \A r \in Runs : ~Owns(r, d)

\* A capture that was left, verified, rejected or dead, stays as it was left:
\* no later run continues, repairs, completes or overwrites it.
LeftStaysAsLeft ==
    [][\A d \in Dirs : Left(d) => Left(d)' /\ store'[d] = store[d]]_captureVars

\* When the script's steps are fair, a run whose mtkclient left two sound passes
\* verifies them, unless it is killed: no check stands in the way of a good
\* capture, and the metadata gets written.
SoundReadsGetVerified ==
    \A r \in Runs : (pc[r] = "pass1" /\ Sound(dir[r])) ~> (Verified(dir[r]) \/ pc[r] = "dead")
=============================================================================
