----------------------------- MODULE SourcePrep -----------------------------
(***************************************************************************)
(* The preparation of the kernel build: prepare-kernel-source.sh clones    *)
(* two repositories, prepare-android-boot-tools.sh others, prepare-        *)
(* toolchain.sh downloads an archive and unpacks it, and build-kernel.sh   *)
(* patches the sources by apply-kernel-patches.sh before it compiles.      *)
(*                                                                         *)
(* Each script fills its destination in place and takes what it finds      *)
(* there for done if it looks done.  The scripts are run in any order, at  *)
(* once, again, and may be cut off anywhere.                               *)
(***************************************************************************)
EXTENDS Integers, Sequences, FiniteSets

CONSTANTS
    Workers,   \* shells: each runs one script after another
    Series,    \* the repository each patch is for, in the order of application
    Members,   \* bound: parts of the toolchain, in the order tar writes them
    Clang      \* the one that holds bin/clang

\* Both directories of patches have some: without one their checkout would not
\* be looked at.
ASSUME PrepAssumption ==
    /\ Series \in Seq({"kernel", "modules"})
    /\ \A d \in {"kernel", "modules"} : \E i \in DOMAIN Series : Series[i] = d
    /\ Members \in Nat
    /\ Clang \in 1 .. Members

Scripts == {"sources", "tools", "toolchain", "build"}

\* What a script clones; the two repositories of the boot tools are one here.
ReposOf(s) ==
    CASE s = "sources" -> <<"kernel", "modules">>
      [] s = "tools" -> <<"tools">>
      [] OTHER -> <<>>

Repos == {"kernel", "modules", "tools"}

Patches == DOMAIN Series

VARIABLES
    tree,        \* each checkout: HEAD of .git ("none" without .git), and files
    patched,     \* what has become of each patch
    archive,     \* "absent", "right" or "wrong"
    toolchain,   \* each member: "absent", "torn" or "whole"
    script,      \* which one a worker runs, or has just run
    ppc, todo, patch,
    opened,      \* the archive a worker's tar has opened
    unpacked,    \* how many members that tar has written
    left         \* destinations that may be taken for whole all the same (history):
                 \* left in part, or to be filled from what replaced a checked archive

workVars == <<tree, patched, archive, toolchain>>

runVars == <<script, ppc, todo, patch, opened, unpacked>>

prepVars == <<workVars, runVars, left>>

Empty == [head |-> "none", files |-> "none"]

\* Something else is in a checkout's place.
Foreign == [head |-> "none", files |-> "some"]

PrepInit ==
    /\ tree \in [Repos -> {Empty, Foreign}]
    /\ patched = [i \in Patches |-> "no"]
    /\ archive = "absent"
    /\ toolchain = [m \in 1 .. Members |-> "absent"]
    /\ script = [w \in Workers |-> "none"]
    /\ ppc = [w \in Workers |-> "idle"]
    /\ todo = [w \in Workers |-> <<>>]
    /\ patch = [w \in Workers |-> 1]
    /\ opened = [w \in Workers |-> "none"]
    /\ unpacked = [w \in Workers |-> 0]
    /\ left = {}

Goto(w, to) == ppc' = [ppc EXCEPT ![w] = to]

Repo(w) == Head(todo[w])

HasGit(d) == tree[d].head # "none"

\* Control points of a worker whose tar writes, or has written, the toolchain.
InTar == {"unpack", "write", "try"}

\* The destination that a worker fills at the moment, if any.
Filling(w) ==
    IF ppc[w] \in {"fetch", "checkout", "checkout pinned", "verify"} THEN {Repo(w)}
    ELSE IF ppc[w] \in InTar THEN {"toolchain"}
    ELSE {}

\* A checkout that prepare-kernel-source.sh or a patch may go by.
MayPass(d) == tree[d].head = "pinned" \/ (HasGit(d) /\ tree[d].files # "none")

\* Half of a clang may run; all of it does.
ClangMayAnswer == toolchain[Clang] # "absent"

ToolchainWhole == \A m \in 1 .. Members : toolchain[m] = "whole"

\* Whether what worker w leaves when it stops may be taken for whole later: it
\* already looks like it, or another worker is about to make it look so.
\* What is left before that is refused for good, and nothing of an archive that
\* is not the right one is to get there.
LeavesHidden(w, x) ==
    IF x = "toolchain"
    THEN /\ opened[w] = "right"
         /\ ClangMayAnswer \/ \E v \in Workers \ {w} : ppc[v] \in {"open"} \cup InTar
    ELSE MayPass(x)

\* A worker comes to the end of its script.
Ends(w, how) ==
    /\ Goto(w, how)
    /\ script' = [script EXCEPT ![w] = IF how = "done" THEN @ ELSE "none"]
    /\ todo' = [todo EXCEPT ![w] = <<>>]
    /\ patch' = [patch EXCEPT ![w] = 1]
    /\ opened' = [opened EXCEPT ![w] = "none"]
    /\ unpacked' = [unpacked EXCEPT ![w] = 0]
    /\ left' = IF how = "done" THEN left ELSE left \cup {x \in Filling(w) : LeavesHidden(w, x)}

\* exit 1, or set -e.
Fails(w) == Ends(w, "idle")

\* What most steps leave alone.
Keep == UNCHANGED <<script, todo, patch, opened, unpacked, left>>

Start(w) ==
    /\ ppc[w] \in {"idle", "done"}
    /\ \E s \in Scripts :
        \* Builds follow each other.
        /\ s = "build" => \A v \in Workers : script[v] = "build" => ppc[v] = "done"
        /\ script' = [script EXCEPT ![w] = s]
        /\ todo' = [todo EXCEPT ![w] = ReposOf(s)]
        /\ Goto(w, IF ReposOf(s) = <<>> THEN s ELSE "repo")
    /\ UNCHANGED <<workVars, patch, opened, unpacked, left>>
-----------------------------------------------------------------------------
\* prepare_repo

\* Slip: the boot tools, too, go by HEAD alone.
LooksPreparedMutant(w, d) == tree[d].head = "pinned"

\* HEAD is the pinned commit; for the boot tools, git diff is empty as well.
LooksPrepared(w, d) ==
    /\ tree[d].head = "pinned"
    /\ script[w] = "tools" => tree[d].files = "all"

\* After the last one come the links, or the tools are tried.
NextRepo(w) ==
    \/ Len(todo[w]) = 1 /\ (Ends(w, "done") \/ Fails(w))
    \/ /\ Len(todo[w]) # 1
       /\ todo' = [todo EXCEPT ![w] = Tail(@)]
       /\ Goto(w, "repo")
       /\ UNCHANGED <<script, patch, opened, unpacked, left>>

CheckRepo(w) ==
    /\ ppc[w] = "repo"
    /\ LET d == Repo(w)
       IN \/ HasGit(d) /\ LooksPrepared(w, d) /\ NextRepo(w)
          \/ HasGit(d) /\ ~LooksPrepared(w, d) /\ Fails(w)
          \/ tree[d] = Foreign /\ Fails(w)
          \/ tree[d] = Empty /\ Goto(w, "clone") /\ Keep
    /\ UNCHANGED workVars

\* git clone makes .git, in an empty directory only.
Clone(w) ==
    /\ ppc[w] = "clone"
    /\ \/ /\ tree[Repo(w)] = Empty
          /\ tree' = [tree EXCEPT ![Repo(w)].head = "unborn"]
          /\ Goto(w, "fetch") /\ Keep
       \/ tree[Repo(w)] # Empty /\ Fails(w) /\ UNCHANGED tree
    /\ UNCHANGED <<patched, archive, toolchain>>

\* HEAD is set before there are any files, to the commit that the branch is at,
\* or the local cache, which only prepare-kernel-source.sh knows: wherever that
\* is, the pinned commit is checked out from a cache by its name.
Fetch(w) ==
    /\ ppc[w] = "fetch"
    /\ \E commit \in {"pinned", "other"} : tree' = [tree EXCEPT ![Repo(w)].head = commit]
    /\ \/ Goto(w, "checkout")
       \/ script[w] = "sources" /\ Goto(w, "checkout pinned")
    /\ Keep /\ UNCHANGED <<patched, archive, toolchain>>

\* The files are written one by one, and then, if a commit was named, HEAD.
Checkout(w) ==
    /\ ppc[w] \in {"checkout", "checkout pinned"}
    /\ LET d == Repo(w)
       IN \/ /\ tree[d].files = "none"
             /\ tree' = [tree EXCEPT ![d].files = "some"]
             /\ UNCHANGED ppc
          \/ /\ tree[d].files = "some"
             /\ tree' = [tree EXCEPT ![d] =
                           [head |-> IF ppc[w] = "checkout" THEN @.head ELSE "pinned", files |-> "all"]]
             /\ Goto(w, "verify")
    /\ Keep /\ UNCHANGED <<patched, archive, toolchain>>

VerifyRepo(w) ==
    /\ ppc[w] = "verify"
    /\ \/ tree[Repo(w)].head = "pinned" /\ NextRepo(w)
       \/ tree[Repo(w)].head # "pinned" /\ Fails(w)
    /\ UNCHANGED workVars
-----------------------------------------------------------------------------
\* prepare-toolchain.sh

\* "already prepared" if clang --version names its release.
CheckToolchain(w) ==
    /\ ppc[w] = "toolchain"
    /\ \/ ClangMayAnswer /\ Ends(w, "done")
       \/ ~ToolchainWhole /\ Goto(w, "archive") /\ Keep
    /\ UNCHANGED workVars

\* The archive is downloaded unless there is one.
LookForArchive(w) ==
    /\ ppc[w] = "archive"
    /\ Goto(w, IF archive = "absent" THEN "curl" ELSE "hash") /\ Keep
    /\ UNCHANGED workVars

\* What curl has brought is moved to its name whole, whatever it is and whatever
\* is there by now, even what another worker has checked and is about to open.
Download(w) ==
    /\ ppc[w] = "curl"
    /\ archive' \in {"right", "wrong"}
    /\ left' = IF archive' = "wrong" /\ \E v \in Workers : ppc[v] = "open"
               THEN left \cup {"toolchain"} ELSE left
    /\ Goto(w, "hash")
    /\ UNCHANGED <<tree, patched, toolchain, script, todo, patch, opened, unpacked>>

\* sha256sum, and then ls -A "$destination", which once filled never is empty
\* again.
CheckArchive(w) ==
    /\ ppc[w] = "hash"
    /\ LET proper == archive = "right" /\ \A m \in 1 .. Members : toolchain[m] = "absent"
       IN \/ proper /\ Goto(w, "open") /\ Keep
          \/ ~proper /\ Fails(w)
    /\ UNCHANGED workVars

\* tar opens what now has the archive's name.
OpenArchive(w) ==
    /\ ppc[w] = "open"
    /\ opened' = [opened EXCEPT ![w] = archive]
    /\ Goto(w, "unpack")
    /\ UNCHANGED <<workVars, script, todo, patch, unpacked, left>>

\* tar removes the member that is in its way and begins to write its own.
StartMember(w) ==
    /\ ppc[w] = "unpack"
    /\ unpacked[w] < Members
    /\ toolchain' = [toolchain EXCEPT ![unpacked[w] + 1] = "torn"]
    /\ Goto(w, "write") /\ Keep
    /\ UNCHANGED <<tree, patched, archive>>

\* No member of a damaged archive is to be relied upon.
WriteMember(w) ==
    /\ ppc[w] = "write"
    /\ toolchain' = [toolchain EXCEPT ![unpacked[w] + 1] = IF opened[w] = "right" THEN "whole" ELSE "torn"]
    /\ unpacked' = [unpacked EXCEPT ![w] = @ + 1]
    /\ Goto(w, "unpack")
    /\ UNCHANGED <<tree, patched, archive, script, todo, patch, opened, left>>

\* tar succeeds on the right archive only.
EndUnpack(w) ==
    /\ ppc[w] = "unpack"
    /\ unpacked[w] = Members
    /\ opened[w] = "right"
    /\ Goto(w, "try") /\ Keep
    /\ UNCHANGED workVars

\* clang --version again.
TryToolchain(w) ==
    /\ ppc[w] = "try"
    /\ \/ ClangMayAnswer /\ Ends(w, "done")
       \/ ~ToolchainWhole /\ Fails(w)
    /\ UNCHANGED workVars
-----------------------------------------------------------------------------
\* build-kernel.sh, as far as it depends on what was prepared.

\* [ -x bin/clang ]; tar makes it executable before it writes it.
ClangIsThere == toolchain[Clang] # "absent"

\* The kernel's .git, clang and the configuration, which may be missing, are
\* looked for.
CheckPrepared(w) ==
    /\ ppc[w] = "build"
    /\ \/ HasGit("kernel") /\ ClangIsThere /\ Goto(w, "patch") /\ Keep
       \/ Fails(w)
    /\ UNCHANGED workVars

\* git apply --reverse --check
AlreadyApplied(i) == patched[i] = "yes"

\* git apply --check passes if the files it touches are there; it must if all are.
MayApply(i) == patched[i] = "no" /\ tree[Series[i]].files # "none"

MustApply(i) == MayApply(i) /\ tree[Series[i]] = [head |-> "pinned", files |-> "all"]

NextPatch(w) ==
    /\ patch' = [patch EXCEPT ![w] = @ + 1]
    /\ Goto(w, "patch")
    /\ UNCHANGED <<script, todo, opened, unpacked, left>>

\* apply_series looks at one patch.
CheckPatch(w) ==
    /\ ppc[w] = "patch" /\ patch[w] \in Patches
    /\ LET i == patch[w]
       IN \/ ~HasGit(Series[i]) /\ Fails(w)
          \/ HasGit(Series[i]) /\ AlreadyApplied(i) /\ NextPatch(w)
          \/ HasGit(Series[i]) /\ ~AlreadyApplied(i) /\ MayApply(i) /\ Goto(w, "apply") /\ Keep
          \/ HasGit(Series[i]) /\ ~AlreadyApplied(i) /\ ~MustApply(i) /\ Fails(w)
    /\ UNCHANGED workVars

\* git apply writes the files one by one.
ApplyPatch(w) ==
    /\ ppc[w] = "apply"
    /\ LET i == patch[w]
       IN \/ /\ patched[i] = "no"
             /\ patched' = [patched EXCEPT ![i] = "torn"]
             /\ UNCHANGED ppc /\ Keep
          \/ /\ patched[i] = "torn"
             /\ patched' = [patched EXCEPT ![i] = "yes"]
             /\ NextPatch(w)
    /\ UNCHANGED <<tree, archive, toolchain>>

Compile(w) ==
    /\ ppc[w] = "patch" /\ patch[w] \notin Patches
    /\ Goto(w, "compile") /\ Keep
    /\ UNCHANGED workVars

EndCompile(w) ==
    /\ ppc[w] = "compile"
    /\ Ends(w, "done")
    /\ UNCHANGED workVars
-----------------------------------------------------------------------------
\* A worker is killed, or its git, curl or tar fails.  A clone that has not yet
\* fetched everything may remove what it has made.
Dies(w) ==
    /\ ppc[w] \notin {"idle", "done"}
    /\ Fails(w)
    /\ \/ UNCHANGED tree
       \/ ppc[w] = "fetch" /\ tree' = [tree EXCEPT ![Repo(w)] = Empty]
    /\ UNCHANGED <<patched, archive, toolchain>>

PrepStep(w) ==
    \/ Start(w)
    \/ CheckRepo(w)
    \/ Clone(w)
    \/ Fetch(w)
    \/ Checkout(w)
    \/ VerifyRepo(w)
    \/ CheckToolchain(w)
    \/ LookForArchive(w)
    \/ Download(w)
    \/ CheckArchive(w)
    \/ OpenArchive(w)
    \/ StartMember(w)
    \/ WriteMember(w)
    \/ EndUnpack(w)
    \/ TryToolchain(w)
    \/ CheckPrepared(w)
    \/ CheckPatch(w)
    \/ ApplyPatch(w)
    \/ Compile(w)
    \/ EndCompile(w)
    \/ Dies(w)

PrepNext == \E w \in Workers : PrepStep(w)

PrepSpec == PrepInit /\ [][PrepNext]_prepVars
-----------------------------------------------------------------------------
WholeAtPin(d) == tree[d] = [head |-> "pinned", files |-> "all"]

\* The destination is whole, unless somebody still fills it, or has been cut off
\* while it already passed for whole, or fills it from a replaced archive.
Trusted(x) ==
    \/ IF x = "toolchain" THEN ToolchainWhole ELSE WholeAtPin(x)
    \/ x \in left
    \/ \E w \in Workers : x \in Filling(w)

\* What a compilation starts from: every patch is in the sources, once and
\* completely, whatever was cut off; the checkouts and the toolchain can be
\* trusted.
CompilesFromWhole ==
    \A w \in Workers : ppc[w] = "compile" =>
        /\ \A i \in Patches : patched[i] = "yes"
        /\ \A x \in {"kernel", "modules", "toolchain"} : Trusted(x)

\* What the scripts report: the boot tools are whole, even if the script has
\* found what an earlier run was cut off in; the sources are at their pinned
\* commits and can be trusted, and so can the toolchain.
ReportsWhole ==
    \A w \in Workers : ppc[w] = "done" =>
        /\ script[w] = "tools" => WholeAtPin("tools")
        /\ script[w] = "sources" =>
             \A d \in {"kernel", "modules"} : tree[d].head = "pinned" /\ Trusted(d)
        /\ script[w] = "toolchain" => Trusted("toolchain")

\* What a script of the preparation reports as prepared, or compiles, in any
\* order of any number of runs, overlapping, repeated and cut off: the boot
\* tools and the patches are whole wherever a run was cut off.  A checkout or a
\* toolchain is, unless a run is at it or was cut off in it late, with HEAD
\* pinned or files there, or with bin/clang there, or its archive was replaced
\* between its check and its unpacking.  What is cut off earlier and a damaged
\* download never pass.
PreparedIsWhole == CompilesFromWhole /\ ReportsWhole
=============================================================================
