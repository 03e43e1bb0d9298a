--------------------------- MODULE RecoveryFiles ---------------------------
(***************************************************************************)
(* The files of an RT7 recovery capture: the vocabulary shared by the      *)
(* program that makes a capture (scripts/capture-recovery-baseline.py) and *)
(* the one that copies it off the work disk                                *)
(* (scripts/copy-verified-recovery.ps1).                                   *)
(*                                                                         *)
(* A capture directory holds one subdirectory per read pass, each with one *)
(* file per artifact, and two metadata files: SHA256SUMS.txt, the listing, *)
(* and capture-manifest.json, the manifest.  The SHA-256 of a file is      *)
(* identified with the file's contents.                                    *)
(***************************************************************************)
EXTENDS Naturals, Sequences, FiniteSets

CONSTANTS
    Dirs,      \* names of capture directories on the work disk
    Expected,  \* artifacts a pass must hold: gpt, gpt_backup, 17 partitions, 2 preloaders
    Stray,     \* other *.bin files that may turn up in a pass directory
    Bytes,     \* contents an artifact file can have
    Absent,    \* the file does not exist
    Partial,   \* the file exists but is not completely written
    LineOrder  \* the order of the lines of SHA256SUMS.txt: the paths sorted by name

Passes == {"pass1", "pass2"}

Artifacts == Expected \cup Stray

Paths == Passes \X Artifacts

ExpectedPaths == Passes \X Expected

SumsFile == <<"metadata", "SHA256SUMS.txt">>

ManifestFile == <<"metadata", "capture-manifest.json">>

MetadataFiles == {SumsFile, ManifestFile}

Files == Paths \cup MetadataFiles

\* A line of SHA256SUMS.txt, and a whole listing.
Lines == [path : Paths, hash : Bytes]

Listings == Seq(Lines)

\* What capture-manifest.json records of the artifacts: name |-> sha256.
Manifests == UNION {[names -> Bytes] : names \in SUBSET Artifacts}

\* The files of a directory.
Trees == [Files -> Bytes \cup {Absent, Partial} \cup Manifests \cup Listings]

ASSUME FilesAssumption ==
    /\ IsFiniteSet(Expected)
    /\ IsFiniteSet(Stray)
    /\ Expected \cap Stray = {}
    /\ Bytes \cap {Absent, Partial} = {}
    /\ Absent # Partial
    /\ {Absent, Partial} \cap Listings = {}
    /\ {Absent, Partial} \cap Manifests = {}

\* The listing names every expected path exactly once.
ASSUME LineOrderAssumption ==
    /\ LineOrder \in Seq(ExpectedPaths)
    /\ \A p \in ExpectedPaths : \E i \in DOMAIN LineOrder : LineOrder[i] = p
    /\ \A i, j \in DOMAIN LineOrder : LineOrder[i] = LineOrder[j] => i = j

VARIABLES
    made,      \* the capture directories that exist
    store      \* store[d][f]: the contents of file f of directory d

Complete(contents) == contents \notin {Absent, Partial}

NoFiles == [f \in Files |-> Absent]

\* Contents of every directory: artifacts, a listing and a manifest.
IsStore(contents) ==
    /\ contents \in [Dirs -> Trees]
    /\ \A d \in Dirs :
         /\ \A p \in Paths : contents[d][p] \in Bytes \cup {Absent}
         /\ contents[d][SumsFile] \in Listings \cup {Absent, Partial}
         /\ contents[d][ManifestFile] \in Manifests \cup {Absent, Partial}

StoreTypeOK == made \in SUBSET Dirs /\ IsStore(store)

\* A directory whose manifest is complete: what everything downstream of the
\* capture takes for a verified rollback baseline.
Verified(d) == Complete(store[d][ManifestFile])
=============================================================================
