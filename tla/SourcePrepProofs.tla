-------------------------- MODULE SourcePrepProofs --------------------------
(***************************************************************************)
(* Proofs about the preparation of the sources, for any number of workers, *)
(* any series of patches and any toolchain: what is reported as prepared   *)
(* or compiled is whole, whatever is run at once, repeated and cut off, up *)
(* to what was cut off when it already looked whole, or unpacked from what *)
(* has replaced a checked archive.                                         *)
(***************************************************************************)
EXTENDS SourcePrep, TLAPS

\* Control points that have made .git, and those of each script.
InClone == {"fetch", "checkout", "checkout pinned", "verify"}

OnRepo == {"repo", "clone"} \cup InClone

BeforeTar == {"toolchain", "archive", "curl", "hash", "open"}

OnToolchain == BeforeTar \cup InTar

InBuild == {"patch", "apply", "compile"}

OnBuild == {"build"} \cup InBuild

TodoLists == {<<>>, <<"kernel", "modules">>, <<"modules">>, <<"tools">>}

Checkouts == [head : {"none", "unborn", "pinned", "other"}, files : {"none", "some", "all"}]

PrepTypeOK ==
    /\ tree \in [Repos -> Checkouts]
    /\ patched \in [Patches -> {"no", "torn", "yes"}]
    /\ archive \in {"absent", "right", "wrong"}
    /\ toolchain \in [1 .. Members -> {"absent", "torn", "whole"}]
    /\ script \in [Workers -> Scripts \cup {"none"}]
    /\ ppc \in [Workers -> {"idle", "done"} \cup OnRepo \cup OnToolchain \cup OnBuild]
    /\ todo \in [Workers -> TodoLists]
    /\ patch \in [Workers -> 1 .. Len(Series) + 1]
    /\ opened \in [Workers -> {"none", "absent", "right", "wrong"}]
    /\ unpacked \in [Workers -> 0 .. Members]
    /\ left \subseteq Repos \cup {"toolchain"}

\* A worker is at a point of its script, with the variables of that point.
PositionOK(w) ==
    /\ ppc[w] \in OnRepo =>
         \/ script[w] = "sources" /\ todo[w] \in {<<"kernel", "modules">>, <<"modules">>}
         \/ script[w] = "tools" /\ todo[w] = <<"tools">>
    /\ ppc[w] \in OnToolchain => script[w] = "toolchain"
    /\ ppc[w] \in OnBuild => script[w] = "build"
    /\ ppc[w] \notin InBuild => patch[w] = 1
    /\ ppc[w] \notin InTar => unpacked[w] = 0
    /\ ppc[w] = "write" => unpacked[w] < Members
    /\ ppc[w] = "try" => unpacked[w] = Members /\ opened[w] = "right"

\* How far a clone has come.
CloneOK(w) ==
    /\ ppc[w] \in InClone => HasGit(Repo(w))
    /\ ppc[w] = "fetch" => tree[Repo(w)].files = "none" /\ tree[Repo(w)].head # "pinned"
    /\ ppc[w] \in {"checkout", "checkout pinned"} => tree[Repo(w)].files # "all"
    /\ ppc[w] = "verify" => tree[Repo(w)].files = "all"

Clones(w, d) == ppc[w] \in InClone /\ Repo(w) = d

\* git clone takes an empty directory only.
OneClones == \A v, w \in Workers, d \in Repos : Clones(v, d) /\ Clones(w, d) => v = w

HasFiles(d) == HasGit(d) /\ tree[d].files # "none"

AtPin(d) == tree[d].head = "pinned"

\* A checkout that may pass is whole, or being filled, or known to be cut off.
ReposOK ==
    \A d \in Repos : MayPass(d) => WholeAtPin(d) \/ d \in left \/ \E w \in Workers : Clones(w, d)

PatchesOK == \A i \in Patches : patched[i] # "no" => HasFiles(Series[i])

\* A tar that has not come to member m yet.
WillWrite(w, m) == ppc[w] \in {"unpack", "write"} /\ opened[w] = "right" /\ unpacked[w] < m

\* The toolchain is known to be cut off, or there is none that anybody would
\* take, or it is being filled in a way that ends whole.
ToolchainOK ==
    \/ "toolchain" \in left
    \/ ~ClangMayAnswer /\ \A w \in Workers : ppc[w] \notin InTar
    \/ \A m \in 1 .. Members : toolchain[m] = "whole" \/ \E w \in Workers : WillWrite(w, m)

\* What was checked is what is opened, unless it is known to be replaced.
ArchiveOK(w) ==
    /\ ppc[w] = "open" => archive = "right" \/ "toolchain" \in left
    /\ ppc[w] \in InTar => opened[w] = "right" \/ "toolchain" \in left

\* What a build has looked at.
BuildOK(w) ==
    /\ ppc[w] \in InBuild => ClangMayAnswer /\ \A i \in Patches : i < patch[w] => patched[i] = "yes"
    /\ ppc[w] = "apply" => patch[w] \in Patches /\ HasFiles(Series[patch[w]])
    /\ ppc[w] = "compile" => patch[w] \notin Patches

\* What a preparation has looked at.
PassedOK(w) ==
    /\ script[w] = "sources" /\ ppc[w] \in OnRepo /\ todo[w] = <<"modules">> => AtPin("kernel")
    /\ script[w] = "sources" /\ ppc[w] = "done" => AtPin("kernel") /\ AtPin("modules")
    /\ script[w] = "tools" /\ ppc[w] = "done" => WholeAtPin("tools")
    /\ script[w] = "toolchain" /\ ppc[w] = "done" => ClangMayAnswer

WorkerOK(w) == PositionOK(w) /\ CloneOK(w) /\ ArchiveOK(w) /\ BuildOK(w) /\ PassedOK(w)

PrepInv ==
    /\ PrepTypeOK
    /\ OneClones
    /\ ReposOK
    /\ PatchesOK
    /\ ToolchainOK
    /\ \A w \in Workers : WorkerOK(w)
-----------------------------------------------------------------------------
LEMMA TodoFacts ==
    /\ Head(<<"kernel", "modules">>) = "kernel" /\ Tail(<<"kernel", "modules">>) = <<"modules">>
    /\ Len(<<"kernel", "modules">>) = 2
    /\ Head(<<"modules">>) = "modules" /\ Len(<<"modules">>) = 1
    /\ Head(<<"tools">>) = "tools" /\ Len(<<"tools">>) = 1
    /\ <<"modules">> # <<"kernel", "modules">> /\ <<"modules">> # <<"tools">>
    /\ <<"modules">> # <<>>
  OBVIOUS

LEMMA SeriesFacts ==
    /\ Len(Series) \in Nat /\ Patches = 1 .. Len(Series)
    /\ \A i \in Patches : Series[i] \in {"kernel", "modules"}
    /\ \A d \in {"kernel", "modules"} : \E i \in Patches : Series[i] = d
    /\ Members \in Nat /\ Clang \in 1 .. Members
  BY PrepAssumption DEF Patches

LEMMA WholeIsBoth ==
    ASSUME PrepTypeOK, NEW d \in Repos
    PROVE  /\ WholeAtPin(d) <=> tree[d].head = "pinned" /\ tree[d].files = "all"
           /\ tree[d] = Empty => tree[d].head = "none" /\ tree[d].files = "none"
  <1>1. tree[d] \in Checkouts
    BY DEF PrepTypeOK
  <1>2. QED
    BY <1>1 DEF Checkouts, WholeAtPin, Empty

\* At a repository a worker has one of the three in front of it.
LEMMA RepoFacts ==
    ASSUME NEW w \in Workers, PositionOK(w), ppc[w] \in OnRepo
    PROVE  /\ Repo(w) \in Repos
           /\ script[w] = "tools" => Repo(w) = "tools"
           /\ script[w] \in {"sources", "tools"}
           /\ \/ Len(todo[w]) = 1 /\ (script[w] = "sources" => todo[w] = <<"modules">> /\ Repo(w) = "modules")
              \/ Tail(todo[w]) = <<"modules">> /\ script[w] = "sources" /\ Repo(w) = "kernel"
                 /\ Len(todo[w]) # 1
  <1>1. CASE script[w] = "sources" /\ todo[w] = <<"kernel", "modules">>
    BY <1>1, TodoFacts DEF Repo, Repos
  <1>2. CASE script[w] = "sources" /\ todo[w] = <<"modules">>
    BY <1>2, TodoFacts DEF Repo, Repos
  <1>3. CASE script[w] = "tools" /\ todo[w] = <<"tools">>
    BY <1>3, TodoFacts DEF Repo, Repos
  <1>4. QED
    BY <1>1, <1>2, <1>3 DEF PositionOK

THEOREM PrepInvInit == PrepInit => PrepInv
  <1> SUFFICES ASSUME PrepInit PROVE PrepInv
    OBVIOUS
  <1> USE DEF PrepInit
  <1>1. PrepTypeOK
    BY SeriesFacts DEF PrepTypeOK, Checkouts, TodoLists, Empty, Foreign, Scripts
  <1>2. \A d \in Repos : ~HasGit(d) /\ ~MayPass(d)
    BY DEF HasGit, MayPass, Empty, Foreign
  <1>3. \A w \in Workers : ppc[w] = "idle" /\ ppc[w] \notin OnRepo \cup OnToolchain \cup OnBuild
    BY DEF OnRepo, OnToolchain, BeforeTar, InTar, OnBuild, InClone, InBuild
  <1>4. OneClones /\ ReposOK /\ PatchesOK
    BY <1>2, <1>3 DEF OneClones, ReposOK, PatchesOK, Clones, OnRepo
  <1>5. ToolchainOK
    BY <1>3, SeriesFacts DEF ToolchainOK, ClangMayAnswer, OnToolchain
  <1>6. ASSUME NEW w \in Workers
        PROVE  WorkerOK(w)
    <2>1. ppc[w] \notin InBuild \cup InTar \cup InClone \cup {"apply", "compile", "done", "open", "write", "try"}
      BY <1>3 DEF InBuild, InTar, InClone
    <2>2. PositionOK(w)
      BY <1>3, <2>1 DEF PositionOK
    <2>3. CloneOK(w) /\ ArchiveOK(w) /\ BuildOK(w) /\ PassedOK(w)
      BY <1>3, <2>1 DEF CloneOK, ArchiveOK, BuildOK, PassedOK, InClone
    <2>4. QED
      BY <2>2, <2>3 DEF WorkerOK
  <1>7. QED
    BY <1>1, <1>4, <1>5, <1>6 DEF PrepInv
-----------------------------------------------------------------------------
(***************************************************************************)
(* What one worker's step may do to the others.                            *)
(***************************************************************************)

OnlyMoves(w) ==
    \A v \in Workers \ {w} :
        /\ ppc'[v] = ppc[v] /\ script'[v] = script[v] /\ todo'[v] = todo[v]
        /\ patch'[v] = patch[v] /\ opened'[v] = opened[v] /\ unpacked'[v] = unpacked[v]

\* At most one checkout changes, one that is not whole and nobody else fills.
MayChange(w, d) ==
    /\ \A e \in Repos \ {d} : tree'[e] = tree[e]
    /\ \A v \in Workers \ {w} : ~Clones(v, d)
    /\ ~WholeAtPin(d)
    /\ HasFiles(d) => HasFiles(d)'
    /\ AtPin(d) => AtPin(d)'

Frame(w) ==
    /\ OnlyMoves(w)
    /\ left \subseteq left'
    /\ ClangMayAnswer => ClangMayAnswer'
    /\ \A i \in Patches : patched[i] = "yes" => patched'[i] = "yes"
    /\ \A i \in Patches : patched'[i] # "no" => patched[i] # "no" \/ HasFiles(Series[i])
    /\ tree' = tree \/ \E d \in Repos : MayChange(w, d)
    /\ \/ archive' = archive \/ archive' = "right" \/ "toolchain" \in left'
       \/ \A v \in Workers \ {w} : ppc[v] # "open"

LEMMA WhatStands ==
    ASSUME PrepInv, NEW w \in Workers, Frame(w)
    PROVE  /\ \A d \in Repos : HasFiles(d) => HasFiles(d)'
           /\ \A d \in Repos : AtPin(d) => AtPin(d)'
           /\ \A d \in Repos : WholeAtPin(d) => WholeAtPin(d)'
           /\ \A v \in Workers \ {w}, d \in Repos : Clones(v, d) => tree'[d] = tree[d]
           /\ \A v \in Workers \ {w}, d \in Repos : Clones(v, d)' <=> Clones(v, d)
  <1>1. \A v \in Workers \ {w}, d \in Repos : Clones(v, d)' <=> Clones(v, d)
    BY DEF Frame, OnlyMoves, Clones, Repo
  <1>2. CASE tree' = tree
    BY <1>1, <1>2 DEF Frame, HasFiles, AtPin, HasGit, WholeAtPin
  <1>3. CASE \E d \in Repos : MayChange(w, d)
    <2>1. PICK d \in Repos : MayChange(w, d)
      BY <1>3
    <2>2. \A e \in Repos : e = d \/ tree'[e] = tree[e]
      BY <2>1 DEF MayChange
    <2>3. ASSUME NEW e \in Repos
          PROVE  /\ HasFiles(e) => HasFiles(e)'
                 /\ AtPin(e) => AtPin(e)'
                 /\ WholeAtPin(e) => WholeAtPin(e)'
      BY <2>1, <2>2 DEF MayChange, Frame, HasFiles, AtPin, HasGit, WholeAtPin
    <2>4. \A v \in Workers \ {w}, e \in Repos : Clones(v, e) => tree'[e] = tree[e]
      BY <2>1, <2>2 DEF MayChange
    <2>5. QED
      BY <1>1, <2>3, <2>4
  <1>4. QED
    BY <1>2, <1>3 DEF Frame

LEMMA OthersKeep ==
    ASSUME PrepInv, PrepTypeOK', NEW w \in Workers, Frame(w), NEW v \in Workers \ {w}
    PROVE  WorkerOK(v)'
  <1>1. /\ ppc'[v] = ppc[v] /\ script'[v] = script[v] /\ todo'[v] = todo[v]
        /\ patch'[v] = patch[v] /\ opened'[v] = opened[v] /\ unpacked'[v] = unpacked[v]
    BY DEF Frame, OnlyMoves
  <1>2. WorkerOK(v)
    BY DEF PrepInv
  <1>3. PositionOK(v)'
    BY <1>1, <1>2 DEF WorkerOK, PositionOK
  <1>4. CloneOK(v)'
    <2>1. CASE ppc[v] \in InClone
      <3>1. Clones(v, Repo(v)) /\ Repo(v) \in Repos
        BY <1>2, <2>1, RepoFacts DEF Clones, WorkerOK, OnRepo
      <3>2. tree'[Repo(v)] = tree[Repo(v)] /\ Repo(v)' = Repo(v)
        BY <1>1, <3>1, WhatStands DEF Repo
      <3>3. QED
        BY <1>1, <1>2, <3>2 DEF WorkerOK, CloneOK, HasGit
    <2>2. CASE ppc[v] \notin InClone
      BY <1>1, <2>2 DEF CloneOK, InClone
    <2>3. QED
      BY <2>1, <2>2
  <1>5. BuildOK(v)'
    <2>1. \A d \in Repos : HasFiles(d) => HasFiles(d)'
      BY WhatStands
    <2>2. \A i \in Patches : Series[i] \in Repos
      BY SeriesFacts DEF Repos
    <2>3. ASSUME ppc'[v] \in InBuild
          PROVE  ClangMayAnswer' /\ \A i \in Patches : i < patch'[v] => patched'[i] = "yes"
      BY <1>1, <1>2, <2>3 DEF WorkerOK, BuildOK, Frame
    <2>4. ppc'[v] = "apply" => patch'[v] \in Patches /\ HasFiles(Series[patch[v]])'
      BY <1>1, <1>2, <2>1, <2>2 DEF WorkerOK, BuildOK
    <2>5. ppc'[v] = "compile" => patch'[v] \notin Patches
      BY <1>1, <1>2 DEF WorkerOK, BuildOK
    <2>6. QED
      BY <1>1, <2>3, <2>4, <2>5 DEF BuildOK
  <1>6. PassedOK(v)'
    <2>1. {"kernel", "modules", "tools"} \subseteq Repos
      BY DEF Repos
    <2>2. /\ \A d \in Repos : AtPin(d) => AtPin(d)'
          /\ \A d \in Repos : WholeAtPin(d) => WholeAtPin(d)'
          /\ ClangMayAnswer => ClangMayAnswer'
      BY WhatStands DEF Frame
    <2>3. QED
      BY <1>1, <1>2, <2>1, <2>2 DEF WorkerOK, PassedOK
  <1>7. ArchiveOK(v)'
    BY <1>1, <1>2 DEF WorkerOK, ArchiveOK, Frame
  <1>8. QED
    BY <1>3, <1>4, <1>5, <1>6, <1>7 DEF WorkerOK

\* A worker that begins or goes on to fill a checkout is the only one there;
\* one that stops has made it whole, or left it as nobody takes it, or is known
\* to have stopped.
ClonesProperly(w) ==
    \A d \in Repos :
        /\ Clones(w, d)' => Clones(w, d) \/ \A v \in Workers \ {w} : ~Clones(v, d)
        /\ Clones(w, d) => Clones(w, d)' \/ WholeAtPin(d)' \/ d \in left' \/ ~MayPass(d)'
        /\ tree'[d] # tree[d] => Clones(w, d)' \/ ~MayPass(d)'

LEMMA InvOfStep ==
    ASSUME PrepInv, PrepTypeOK', NEW w \in Workers, Frame(w), WorkerOK(w)',
           ClonesProperly(w), ToolchainOK'
    PROVE  PrepInv'
  <1>1. \A v \in Workers : WorkerOK(v)'
    BY OthersKeep
  <1>2. \A v \in Workers \ {w}, d \in Repos : Clones(v, d)' <=> Clones(v, d)
    BY WhatStands
  <1>3. OneClones'
    <2> SUFFICES ASSUME NEW u \in Workers, NEW v \in Workers, NEW d \in Repos,
                        Clones(u, d)', Clones(v, d)'
                 PROVE  u = v
      BY DEF OneClones
    <2>1. CASE u # w /\ v # w
      BY <1>2, <2>1 DEF PrepInv, OneClones
    <2>2. ASSUME NEW x \in Workers \ {w}, Clones(x, d)', Clones(w, d)'
          PROVE  FALSE
      BY <1>2, <2>2 DEF PrepInv, OneClones, ClonesProperly
    <2>3. QED
      BY <2>1, <2>2
  <1>4. ReposOK'
    <2> SUFFICES ASSUME NEW d \in Repos, MayPass(d)'
                 PROVE  WholeAtPin(d)' \/ d \in left' \/ \E v \in Workers : Clones(v, d)'
      BY DEF ReposOK
    <2>1. CASE tree'[d] # tree[d]
      BY <2>1 DEF ClonesProperly
    <2>2. CASE tree'[d] = tree[d]
      <3>1. WholeAtPin(d) \/ d \in left \/ \E v \in Workers : Clones(v, d)
        BY <2>2 DEF MayPass, HasGit, PrepInv, ReposOK
      <3>2. CASE WholeAtPin(d) \/ d \in left
        BY <3>2, WhatStands DEF Frame
      <3>3. ASSUME NEW v \in Workers, Clones(v, d)
            PROVE  WholeAtPin(d)' \/ d \in left' \/ \E u \in Workers : Clones(u, d)'
        BY <1>2, <3>3 DEF ClonesProperly
      <3>4. QED
        BY <3>1, <3>2, <3>3
    <2>3. QED
      BY <2>1, <2>2
  <1>5. PatchesOK'
    <2>1. \A i \in Patches : Series[i] \in Repos
      BY SeriesFacts DEF Repos
    <2>2. ASSUME NEW i \in Patches, patched'[i] # "no"
          PROVE  HasFiles(Series[i])'
      <3>1. HasFiles(Series[i])
        BY <2>2 DEF Frame, PrepInv, PatchesOK
      <3>2. QED
        BY <2>1, <3>1, WhatStands
    <2>3. QED
      BY <2>2 DEF PatchesOK
  <1>6. QED
    BY <1>1, <1>3, <1>4, <1>5 DEF PrepInv

\* The toolchain does not change, and nobody comes to it or leaves it.
LEMMA ToolchainStands ==
    ASSUME PrepInv, NEW w \in Workers, OnlyMoves(w), left \subseteq left', toolchain' = toolchain,
           ppc[w] \notin InTar, ppc'[w] \notin InTar
    PROVE  ToolchainOK'
  <1>1. \A v \in Workers : ppc'[v] \in InTar <=> ppc[v] \in InTar
    BY DEF OnlyMoves
  <1>3. ASSUME NEW v \in Workers, NEW m \in 1 .. Members, WillWrite(v, m)
        PROVE  WillWrite(v, m)'
    <2>1. v # w
      BY <1>3 DEF WillWrite, InTar
    <2>2. QED
      BY <1>3, <2>1 DEF OnlyMoves, WillWrite
  <1>4. CASE "toolchain" \in left
    BY <1>4 DEF ToolchainOK
  <1>5. CASE ~ClangMayAnswer /\ \A v \in Workers : ppc[v] \notin InTar
    BY <1>1, <1>5 DEF ToolchainOK, ClangMayAnswer
  <1>6. CASE \A m \in 1 .. Members : toolchain[m] = "whole" \/ \E v \in Workers : WillWrite(v, m)
    BY <1>3, <1>6 DEF ToolchainOK
  <1>7. QED
    BY <1>4, <1>5, <1>6 DEF PrepInv, ToolchainOK
-----------------------------------------------------------------------------
(***************************************************************************)
(* The ends of scripts, and the steps of each.                             *)
(***************************************************************************)

LEMMA EndsFacts ==
    ASSUME PrepTypeOK, NEW w \in Workers, NEW how \in {"idle", "done"}, Ends(w, how)
    PROVE  /\ ppc'[w] = how /\ todo'[w] = <<>> /\ unpacked'[w] = 0 /\ patch'[w] = 1
           /\ script'[w] = IF how = "done" THEN script[w] ELSE "none"
           /\ left' = IF how = "done" THEN left ELSE left \cup {x \in Filling(w) : LeavesHidden(w, x)}
           /\ OnlyMoves(w)
           /\ script' \in [Workers -> Scripts \cup {"none"}]
           /\ ppc' \in [Workers -> {"idle", "done"} \cup OnRepo \cup OnToolchain \cup OnBuild]
           /\ todo' \in [Workers -> TodoLists]
           /\ patch' \in [Workers -> 1 .. Len(Series) + 1]
           /\ opened' \in [Workers -> {"none", "absent", "right", "wrong"}]
           /\ unpacked' \in [Workers -> 0 .. Members]
  <1>1. 0 \in 0 .. Members /\ 1 \in 1 .. Len(Series) + 1 /\ <<>> \in TodoLists
    BY SeriesFacts DEF TodoLists
  <1>2. /\ ppc'[w] = how /\ todo'[w] = <<>> /\ unpacked'[w] = 0 /\ patch'[w] = 1
        /\ script'[w] = IF how = "done" THEN script[w] ELSE "none"
        /\ OnlyMoves(w)
    BY DEF Ends, Goto, PrepTypeOK, OnlyMoves
  <1>3. /\ script' \in [Workers -> Scripts \cup {"none"}]
        /\ ppc' \in [Workers -> {"idle", "done"} \cup OnRepo \cup OnToolchain \cup OnBuild]
        /\ todo' \in [Workers -> TodoLists]
        /\ patch' \in [Workers -> 1 .. Len(Series) + 1]
        /\ opened' \in [Workers -> {"none", "absent", "right", "wrong"}]
        /\ unpacked' \in [Workers -> 0 .. Members]
    BY <1>1 DEF Ends, Goto, PrepTypeOK
  <1>4. left' = IF how = "done" THEN left ELSE left \cup {x \in Filling(w) : LeavesHidden(w, x)}
    BY DEF Ends
  <1>5. QED
    BY <1>2, <1>3, <1>4

\* What a worker fills has a name.
LEMMA FillingFacts ==
    ASSUME NEW w \in Workers, PositionOK(w)
    PROVE  /\ Filling(w) \subseteq Repos \cup {"toolchain"}
           /\ \A d \in Repos : Clones(w, d) <=> d \in Filling(w)
           /\ "toolchain" \in Filling(w) <=> ppc[w] \in InTar
  <1>1. CASE ppc[w] \in InClone
    <2>1. Repo(w) \in Repos
      BY <1>1, RepoFacts DEF OnRepo
    <2>2. Filling(w) = {Repo(w)} /\ ppc[w] \notin InTar
      BY <1>1 DEF Filling, InClone, InTar
    <2>3. "toolchain" \notin Repos
      BY DEF Repos
    <2>4. QED
      BY <1>1, <2>1, <2>2, <2>3 DEF Clones
  <1>2. CASE ppc[w] \in InTar
    <2>1. Filling(w) = {"toolchain"} /\ ppc[w] \notin InClone
      BY <1>2 DEF Filling, InClone, InTar
    <2>2. QED
      BY <1>2, <2>1 DEF Clones, Repos
  <1>3. CASE ppc[w] \notin InClone \cup InTar
    BY <1>3 DEF Filling, InClone, InTar, Clones
  <1>4. QED
    BY <1>1, <1>2, <1>3

\* A tar that stops where the toolchain may be taken for whole is known to have.
LEMMA ToolchainAfterFailing ==
    ASSUME PrepInv, NEW w \in Workers, OnlyMoves(w), ppc'[w] = "idle", toolchain' = toolchain,
           left' = left \cup {x \in Filling(w) : LeavesHidden(w, x)}
    PROVE  ToolchainOK'
  <1>1. PositionOK(w) /\ "idle" \notin InTar
    BY DEF PrepInv, WorkerOK, InTar
  <1>2. CASE ppc[w] \notin InTar
    BY <1>1, <1>2, ToolchainStands
  <1>3. CASE "toolchain" \in left \/ (ppc[w] \in InTar /\ LeavesHidden(w, "toolchain"))
    <2>1. "toolchain" \in left'
      BY <1>1, <1>3, FillingFacts
    <2>2. QED
      BY <2>1 DEF ToolchainOK
  <1>4. CASE ppc[w] \in InTar /\ opened[w] = "right" /\ ~LeavesHidden(w, "toolchain")
    <2>1. ~ClangMayAnswer /\ \A v \in Workers \ {w} : ppc[v] \notin InTar
      BY <1>4 DEF LeavesHidden
    <2>2. ~ClangMayAnswer' /\ \A v \in Workers : ppc'[v] \notin InTar
      BY <1>1, <2>1 DEF ClangMayAnswer, OnlyMoves
    <2>3. QED
      BY <2>2 DEF ToolchainOK
  <1>5. QED
    BY <1>2, <1>3, <1>4 DEF PrepInv, WorkerOK, ArchiveOK

LEMMA FailsKeeps ==
    ASSUME PrepInv, NEW w \in Workers, Fails(w), UNCHANGED workVars
    PROVE  PrepInv'
  <1>1. PositionOK(w) /\ PrepTypeOK
    BY DEF PrepInv, WorkerOK
  <1>2. /\ ppc'[w] = "idle" /\ todo'[w] = <<>> /\ unpacked'[w] = 0 /\ patch'[w] = 1
        /\ script'[w] = "none" /\ left' = left \cup {x \in Filling(w) : LeavesHidden(w, x)}
        /\ OnlyMoves(w)
        /\ script' \in [Workers -> Scripts \cup {"none"}]
        /\ ppc' \in [Workers -> {"idle", "done"} \cup OnRepo \cup OnToolchain \cup OnBuild]
        /\ todo' \in [Workers -> TodoLists]
        /\ patch' \in [Workers -> 1 .. Len(Series) + 1]
        /\ opened' \in [Workers -> {"none", "absent", "right", "wrong"}]
        /\ unpacked' \in [Workers -> 0 .. Members]
    BY <1>1, EndsFacts DEF Fails
  <1>3. UNCHANGED <<tree, patched, archive, toolchain>>
    BY DEF workVars
  <1>4. PrepTypeOK'
    BY <1>1, <1>2, <1>3, FillingFacts DEF PrepTypeOK
  <1>5. Frame(w)
    BY <1>2, <1>3 DEF Frame, ClangMayAnswer
  <1>6. WorkerOK(w)' /\ \A d \in Repos : ~Clones(w, d)'
    BY <1>2 DEF WorkerOK, PositionOK, CloneOK, ArchiveOK, BuildOK, PassedOK, Clones, OnRepo, OnToolchain,
                BeforeTar, OnBuild, InClone, InTar, InBuild
  <1>7. ASSUME NEW d \in Repos, Clones(w, d)
        PROVE  d \in left' \/ ~MayPass(d)'
    <2>1. d \in Filling(w) /\ d # "toolchain"
      BY <1>1, <1>7, FillingFacts DEF Repos
    <2>2. QED
      BY <1>2, <1>3, <2>1 DEF LeavesHidden, MayPass, HasGit
  <1>8. ClonesProperly(w)
    BY <1>3, <1>6, <1>7 DEF ClonesProperly
  <1>9. ToolchainOK'
    BY <1>2, <1>3, ToolchainAfterFailing
  <1>10. QED
    BY <1>4, <1>5, <1>6, <1>8, <1>9, InvOfStep

\* A tar that ends well has written it all.
LEMMA ToolchainAfterDone ==
    ASSUME PrepInv, NEW w \in Workers, OnlyMoves(w), ppc'[w] = "done", toolchain' = toolchain,
           left' = left, ppc[w] \in InTar => ppc[w] = "try"
    PROVE  ToolchainOK'
  <1>1. PositionOK(w) /\ ppc'[w] \notin InTar
    BY DEF PrepInv, WorkerOK, InTar
  <1>2. CASE ppc[w] \notin InTar
    BY <1>1, <1>2, ToolchainStands
  <1>3. CASE ppc[w] = "try"
    <2>1. "try" \in InTar
      BY DEF InTar
    <2>2. CASE "toolchain" \in left
      BY <2>2 DEF ToolchainOK
    <2>3. CASE \A m \in 1 .. Members : toolchain[m] = "whole" \/ \E v \in Workers : WillWrite(v, m)
      <3>1. ASSUME NEW v \in Workers, NEW m \in 1 .. Members, WillWrite(v, m)
            PROVE  WillWrite(v, m)'
        BY <1>3, <3>1 DEF OnlyMoves, WillWrite
      <3>2. QED
        BY <2>3, <3>1 DEF ToolchainOK
    <2>4. QED
      BY <1>3, <2>1, <2>2, <2>3 DEF PrepInv, ToolchainOK
  <1>4. QED
    BY <1>2, <1>3

\* The conditions under which a script may report success.
LEMMA DoneKeeps ==
    ASSUME PrepInv, NEW w \in Workers, Ends(w, "done"), UNCHANGED workVars,
           script[w] = "sources" => AtPin("kernel") /\ AtPin("modules"),
           script[w] = "tools" => WholeAtPin("tools"),
           script[w] = "toolchain" => ClangMayAnswer,
           \A d \in Repos : Clones(w, d) => WholeAtPin(d),
           ppc[w] \in InTar => ppc[w] = "try"
    PROVE  PrepInv'
  <1>1. PositionOK(w) /\ PrepTypeOK
    BY DEF PrepInv, WorkerOK
  <1>2. /\ ppc'[w] = "done" /\ todo'[w] = <<>> /\ unpacked'[w] = 0 /\ patch'[w] = 1
        /\ script'[w] = script[w] /\ left' = left
        /\ OnlyMoves(w)
        /\ script' \in [Workers -> Scripts \cup {"none"}]
        /\ ppc' \in [Workers -> {"idle", "done"} \cup OnRepo \cup OnToolchain \cup OnBuild]
        /\ todo' \in [Workers -> TodoLists]
        /\ patch' \in [Workers -> 1 .. Len(Series) + 1]
        /\ opened' \in [Workers -> {"none", "absent", "right", "wrong"}]
        /\ unpacked' \in [Workers -> 0 .. Members]
    BY <1>1, EndsFacts
  <1>3. UNCHANGED <<tree, patched, archive, toolchain>>
    BY DEF workVars
  <1>4. PrepTypeOK'
    BY <1>1, <1>2, <1>3 DEF PrepTypeOK
  <1>5. Frame(w)
    BY <1>2, <1>3 DEF Frame, ClangMayAnswer
  <1>6. /\ \A d \in Repos : (WholeAtPin(d)' <=> WholeAtPin(d)) /\ (AtPin(d)' <=> AtPin(d))
        /\ ClangMayAnswer' <=> ClangMayAnswer
    BY <1>3 DEF WholeAtPin, AtPin, ClangMayAnswer
  <1>7. ppc'[w] \notin {"open"} \cup OnRepo \cup OnToolchain \cup OnBuild \cup InBuild \cup InTar \cup InClone
    BY <1>2 DEF OnRepo, OnToolchain, BeforeTar, OnBuild, InClone, InTar, InBuild
  <1>8. PositionOK(w)' /\ CloneOK(w)' /\ ArchiveOK(w)' /\ BuildOK(w)' /\ \A d \in Repos : ~Clones(w, d)'
    BY <1>2, <1>7 DEF PositionOK, CloneOK, ArchiveOK, BuildOK, Clones
  <1>9. PassedOK(w)'
    <2>1. {"kernel", "modules", "tools"} \subseteq Repos
      BY DEF Repos
    <2>2. QED
      BY <1>2, <1>6, <1>7, <2>1 DEF PassedOK
  <1>10. ClonesProperly(w)
    BY <1>3, <1>6, <1>8 DEF ClonesProperly
  <1>11. ToolchainOK'
    BY <1>2, <1>3, ToolchainAfterDone
  <1>12. QED
    BY <1>4, <1>5, <1>8, <1>9, <1>10, <1>11, InvOfStep DEF WorkerOK

\* A step that only moves on, outside of filling anything.
LEMMA MovesKeep ==
    ASSUME PrepInv, NEW w \in Workers,
           NEW to \in {"idle", "done"} \cup OnRepo \cup OnToolchain \cup OnBuild,
           Goto(w, to), OnlyMoves(w),
           UNCHANGED <<tree, patched, archive, toolchain, opened, unpacked, left>>,
           ppc[w] \notin InClone \cup InTar, to \notin InClone \cup InTar,
           script' \in [Workers -> Scripts \cup {"none"}],
           todo' \in [Workers -> TodoLists],
           patch' \in [Workers -> 1 .. Len(Series) + 1],
           WorkerOK(w)'
    PROVE  PrepInv'
  <1>1. PrepTypeOK /\ ppc'[w] = to
    BY DEF PrepInv, PrepTypeOK, Goto
  <1>2. PrepTypeOK'
    BY <1>1 DEF PrepTypeOK, Goto
  <1>3. Frame(w)
    BY <1>1 DEF Frame, ClangMayAnswer
  <1>4. \A d \in Repos : ~Clones(w, d) /\ ~Clones(w, d)'
    BY <1>1 DEF Clones
  <1>5. ClonesProperly(w)
    BY <1>4 DEF ClonesProperly
  <1>6. ToolchainOK'
    BY <1>1, ToolchainStands
  <1>7. QED
    BY <1>2, <1>3, <1>5, <1>6, InvOfStep

LEMMA StartKeeps ==
    ASSUME PrepInv, NEW w \in Workers, Start(w)
    PROVE  PrepInv'
  <1>1. PICK s \in Scripts : /\ script' = [script EXCEPT ![w] = s]
                             /\ todo' = [todo EXCEPT ![w] = ReposOf(s)]
                             /\ Goto(w, IF ReposOf(s) = <<>> THEN s ELSE "repo")
    BY DEF Start
  <1>2. ppc[w] \in {"idle", "done"} /\ UNCHANGED <<workVars, patch, opened, unpacked, left>>
    BY DEF Start
  <1>3. /\ s \in {"sources", "tools"} => ReposOf(s) # <<>>
        /\ s \in {"toolchain", "build"} => ReposOf(s) = <<>>
        /\ ReposOf(s) \in TodoLists
        /\ s = "sources" => ReposOf(s) = <<"kernel", "modules">>
        /\ s = "tools" => ReposOf(s) = <<"tools">>
        /\ ReposOf(s) # <<"modules">>
    BY <1>1, TodoFacts DEF ReposOf, TodoLists, Scripts
  <1>4. PICK to \in {"repo", "toolchain", "build"} :
             /\ Goto(w, to)
             /\ to = "repo" => s \in {"sources", "tools"}
             /\ to # "repo" => s = to
    BY <1>1, <1>3 DEF Scripts
  <1>5. to \in OnRepo \cup OnToolchain \cup OnBuild /\ to \notin InClone \cup InTar
    BY <1>4 DEF OnRepo, OnToolchain, BeforeTar, OnBuild, InClone, InTar
  <1>6. PrepTypeOK /\ PositionOK(w)
    BY DEF PrepInv, WorkerOK
  <1>7. ppc[w] \notin InClone \cup InTar \cup InBuild
    BY <1>2 DEF InClone, InTar, InBuild
  <1>8. /\ ppc'[w] = to /\ script'[w] = s /\ todo'[w] = ReposOf(s)
        /\ patch'[w] = 1 /\ unpacked'[w] = 0
        /\ OnlyMoves(w)
        /\ script' \in [Workers -> Scripts \cup {"none"}]
        /\ todo' \in [Workers -> TodoLists]
        /\ patch' \in [Workers -> 1 .. Len(Series) + 1]
    BY <1>1, <1>2, <1>3, <1>4, <1>6, <1>7 DEF PrepTypeOK, PositionOK, Goto, OnlyMoves, workVars
  <1>9. PositionOK(w)'
    BY <1>3, <1>4, <1>8 DEF PositionOK, OnRepo, OnToolchain, BeforeTar, OnBuild, InClone, InTar, InBuild
  <1>10. CloneOK(w)' /\ ArchiveOK(w)' /\ BuildOK(w)' /\ PassedOK(w)'
    BY <1>3, <1>4, <1>5, <1>8 DEF CloneOK, ArchiveOK, BuildOK, PassedOK, InClone, InBuild
  <1>11. UNCHANGED <<tree, patched, archive, toolchain, opened, unpacked, left>>
    BY <1>2 DEF workVars
  <1>12. QED
    BY <1>4, <1>5, <1>7, <1>8, <1>9, <1>10, <1>11, MovesKeep DEF WorkerOK

\* A repository is passed when it is known to be at its commit and, after a
\* clone and for the boot tools, to have its files.
LEMMA NextRepoKeeps ==
    ASSUME PrepInv, NEW w \in Workers, ppc[w] \in {"repo", "verify"}, NextRepo(w), UNCHANGED workVars,
           AtPin(Repo(w)),
           script[w] = "tools" \/ ppc[w] = "verify" => WholeAtPin(Repo(w))
    PROVE  PrepInv'
  <1>1. /\ PositionOK(w) /\ PassedOK(w) /\ PrepTypeOK
        /\ ppc[w] \in OnRepo /\ ppc[w] \notin InTar \cup InBuild
    BY DEF PrepInv, WorkerOK, OnRepo, InClone, InTar, InBuild
  <1>2. /\ Repo(w) \in Repos
        /\ script[w] = "tools" => Repo(w) = "tools"
        /\ script[w] \in {"sources", "tools"}
        /\ \/ Len(todo[w]) = 1 /\ (script[w] = "sources" => todo[w] = <<"modules">> /\ Repo(w) = "modules")
           \/ Tail(todo[w]) = <<"modules">> /\ script[w] = "sources" /\ Repo(w) = "kernel"
              /\ Len(todo[w]) # 1
    BY <1>1, RepoFacts
  <1>3. \A d \in Repos : Clones(w, d) => WholeAtPin(d)
    BY <1>1 DEF Clones, InClone
  <1>4. CASE Len(todo[w]) = 1 /\ Ends(w, "done")
    <2>1. script[w] = "sources" => AtPin("kernel") /\ AtPin("modules")
      BY <1>1, <1>2, <1>4 DEF PassedOK
    <2>2. script[w] = "tools" => WholeAtPin("tools")
      BY <1>2
    <2>3. script[w] # "toolchain"
      BY <1>2
    <2>4. QED
      BY <1>1, <1>3, <1>4, <2>1, <2>2, <2>3, DoneKeeps
  <1>5. CASE Fails(w)
    BY <1>5, FailsKeeps
  <1>6. CASE Len(todo[w]) # 1
    <2>1. /\ todo' = [todo EXCEPT ![w] = <<"modules">>] /\ script[w] = "sources" /\ AtPin("kernel")
          /\ ppc' = [ppc EXCEPT ![w] = "repo"]
          /\ UNCHANGED <<script, opened, unpacked, patch, left, tree, patched, archive, toolchain>>
      BY <1>2, <1>6 DEF NextRepo, Goto, workVars
    <2>2. "repo" \in OnRepo /\ "repo" \notin InClone \cup InTar \cup InBuild \cup OnToolchain \cup OnBuild
      BY DEF OnRepo, InClone, InTar, InBuild, OnToolchain, BeforeTar, OnBuild
    <2>3. PrepTypeOK' /\ ppc'[w] = "repo" /\ todo'[w] = <<"modules">> /\ OnlyMoves(w)
      BY <1>1, <2>1, <2>2 DEF PrepTypeOK, TodoLists, OnlyMoves
    <2>4. patch[w] = 1 /\ unpacked[w] = 0
      BY <1>1 DEF PositionOK
    <2>5. Frame(w)
      BY <2>1, <2>3 DEF Frame, ClangMayAnswer
    <2>6. PositionOK(w)' /\ CloneOK(w)' /\ ArchiveOK(w)' /\ BuildOK(w)'
      BY <2>1, <2>2, <2>3, <2>4 DEF PositionOK, CloneOK, ArchiveOK, BuildOK, InClone, InTar, InBuild
    <2>7. PassedOK(w)'
      BY <2>1, <2>3 DEF PassedOK, AtPin
    <2>8. \A d \in Repos : ~Clones(w, d)' /\ (WholeAtPin(d)' <=> WholeAtPin(d))
      BY <2>1, <2>2, <2>3 DEF Clones, WholeAtPin
    <2>9. ClonesProperly(w)
      BY <1>3, <2>1, <2>8 DEF ClonesProperly
    <2>10. ToolchainOK'
      BY <1>1, <2>1, <2>2, <2>3, ToolchainStands
    <2>11. QED
      BY <2>3, <2>5, <2>6, <2>7, <2>9, <2>10, InvOfStep DEF WorkerOK
  <1>7. QED
    BY <1>4, <1>5, <1>6 DEF NextRepo

LEMMA CheckRepoKeeps ==
    ASSUME PrepInv, NEW w \in Workers, CheckRepo(w)
    PROVE  PrepInv'
  <1>1. ppc[w] = "repo" /\ UNCHANGED workVars
    BY DEF CheckRepo
  <1>2. PositionOK(w) /\ PassedOK(w) /\ PrepTypeOK /\ ppc[w] \in OnRepo
    BY <1>1 DEF PrepInv, WorkerOK, OnRepo
  <1>3. Repo(w) \in Repos
    BY <1>2, RepoFacts
  <1>4. CASE LooksPrepared(w, Repo(w)) /\ NextRepo(w)
    <2>1. /\ script[w] = "tools" => WholeAtPin(Repo(w))
          /\ AtPin(Repo(w))
      BY <1>2, <1>3, <1>4, WholeIsBoth DEF LooksPrepared, AtPin
    <2>2. QED
      BY <1>1, <1>4, <2>1, NextRepoKeeps
  <1>5. CASE Fails(w)
    BY <1>1, <1>5, FailsKeeps
  <1>6. CASE Goto(w, "clone") /\ Keep
    <2>1. /\ "clone" \in OnRepo
          /\ "clone" \notin InClone \cup InTar \cup InBuild \cup OnToolchain \cup OnBuild
          /\ "repo" \notin InClone \cup InTar \cup InBuild
      BY DEF OnRepo, InClone, InTar, InBuild, OnToolchain, BeforeTar, OnBuild
    <2>2. UNCHANGED <<script, todo, opened, unpacked, patch, left, tree, patched, archive, toolchain>>
      BY <1>1, <1>6 DEF Keep, workVars
    <2>3. ppc'[w] = "clone" /\ OnlyMoves(w)
      BY <1>2, <1>6, <2>2 DEF PrepTypeOK, Goto, OnlyMoves
    <2>4. PositionOK(w)' /\ CloneOK(w)' /\ ArchiveOK(w)' /\ BuildOK(w)'
      BY <1>1, <1>2, <2>1, <2>2, <2>3 DEF PositionOK, CloneOK, ArchiveOK, BuildOK, InClone, InTar, InBuild, OnRepo
    <2>5. PassedOK(w)'
      BY <1>1, <1>2, <2>2, <2>3 DEF PassedOK, AtPin
    <2>6. QED
      BY <1>1, <1>2, <1>6, <2>1, <2>2, <2>3, <2>4, <2>5, MovesKeep DEF PrepTypeOK, WorkerOK
  <1>7. QED
    BY <1>4, <1>5, <1>6 DEF CheckRepo

\* A step that fills a checkout, from an empty directory to all of its files.
LEMMA FillKeeps ==
    ASSUME PrepInv, NEW w \in Workers, ppc[w] \in OnRepo, NEW to \in InClone,
           tree' \in [Repos -> Checkouts],
           tree'[Repo(w)].head # "none",
           \A e \in Repos \ {Repo(w)} : tree'[e] = tree[e],
           ppc' = [ppc EXCEPT ![w] = to], Keep, UNCHANGED <<patched, archive, toolchain>>,
           \A v \in Workers \ {w} : ~Clones(v, Repo(w)),
           ~WholeAtPin(Repo(w)),
           HasFiles(Repo(w)) => tree'[Repo(w)].files # "none",
           AtPin(Repo(w)) => tree'[Repo(w)].head = "pinned",
           to = "fetch" => tree'[Repo(w)].files = "none" /\ tree'[Repo(w)].head # "pinned",
           to \in {"checkout", "checkout pinned"} => tree'[Repo(w)].files # "all",
           to = "verify" => tree'[Repo(w)].files = "all"
    PROVE  PrepInv'
  <1>1. PositionOK(w) /\ PassedOK(w) /\ PrepTypeOK
    BY DEF PrepInv, WorkerOK
  <1>2. /\ Repo(w) \in Repos
        /\ UNCHANGED <<script, todo, opened, unpacked, patch, left>>
        /\ Repo(w)' = Repo(w)
    BY <1>1, RepoFacts DEF Keep, Repo
  <1>3. /\ to \in OnRepo /\ to \notin InTar \cup InBuild \cup OnToolchain \cup OnBuild \cup {"idle", "done"}
        /\ ppc[w] \notin InTar \cup InBuild
    BY DEF OnRepo, InClone, InTar, InBuild, OnToolchain, BeforeTar, OnBuild
  <1>4. /\ ppc'[w] = to /\ OnlyMoves(w)
    BY <1>1, <1>2 DEF PrepTypeOK, OnlyMoves
  <1>5. PrepTypeOK'
    BY <1>1, <1>2, <1>3 DEF PrepTypeOK
  <1>6. PICK d \in Repos : d = Repo(w)
    BY <1>2
  <1>7. MayChange(w, d)
    BY <1>2, <1>4, <1>6 DEF MayChange, HasFiles, AtPin, HasGit
  <1>8. Frame(w)
    BY <1>2, <1>4, <1>7 DEF Frame, ClangMayAnswer
  <1>9. CloneOK(w)'
    <2>1. Repo(w)' = d /\ ppc'[w] = to /\ tree'[d].head # "none"
      BY <1>2, <1>4, <1>6
    <2>2. to = "fetch" => tree'[d].files = "none" /\ tree'[d].head # "pinned"
      BY <1>6
    <2>3. /\ to \in {"checkout", "checkout pinned"} => tree'[d].files # "all"
          /\ to = "verify" => tree'[d].files = "all"
      BY <1>6
    <2>4. QED
      BY <2>1, <2>2, <2>3 DEF CloneOK, HasGit
  <1>10. PositionOK(w)' /\ ArchiveOK(w)' /\ BuildOK(w)'
    BY <1>1, <1>2, <1>3, <1>4 DEF PositionOK, ArchiveOK, BuildOK, OnToolchain, BeforeTar, InTar, InBuild
  <1>11. PassedOK(w)'
    <2>1. "kernel" \in Repos /\ (AtPin("kernel") => AtPin("kernel")')
      BY <1>8, WhatStands DEF Repos
    <2>2. QED
      BY <1>1, <1>2, <1>3, <1>4, <2>1 DEF PassedOK
  <1>12. \A e \in Repos : (Clones(w, e)' <=> e = Repo(w)) /\ (Clones(w, e) => e = Repo(w))
    BY <1>2, <1>4 DEF Clones
  <1>13. ClonesProperly(w)
    BY <1>4, <1>12 DEF ClonesProperly
  <1>14. ToolchainOK'
    BY <1>2, <1>3, <1>4, ToolchainStands
  <1>15. QED
    BY <1>5, <1>8, <1>9, <1>10, <1>11, <1>13, <1>14, InvOfStep DEF WorkerOK

\* Setting fields of one record of a function leaves the rest alone.
LEMMA FieldsSet ==
    ASSUME NEW D, NEW H, NEW F, NEW t \in [D -> [head : H, files : F]], NEW d \in D, NEW f \in F, NEW g \in H
    PROVE  /\ /\ [t EXCEPT ![d].head = g] \in [D -> [head : H, files : F]]
              /\ [t EXCEPT ![d].head = g][d].head = g
              /\ [t EXCEPT ![d].head = g][d].files = t[d].files
              /\ \A e \in D \ {d} : [t EXCEPT ![d].head = g][e] = t[e]
           /\ /\ [t EXCEPT ![d].files = f] \in [D -> [head : H, files : F]]
              /\ [t EXCEPT ![d].files = f][d].head = t[d].head
              /\ [t EXCEPT ![d].files = f][d].files = f
              /\ \A e \in D \ {d} : [t EXCEPT ![d].files = f][e] = t[e]
  OBVIOUS

\* Filling a checkout leaves it a checkout, and the others alone.
LEMMA FillingFields ==
    ASSUME PrepTypeOK, NEW d \in Repos, NEW have \in {"none", "some", "all"},
           NEW commit \in {"none", "unborn", "pinned", "other"},
           \/ tree' = [tree EXCEPT ![d].head = commit] /\ tree[d].files = have
           \/ tree' = [tree EXCEPT ![d].files = have] /\ tree[d].head = commit
           \/ tree' = [tree EXCEPT ![d] = [head |-> commit, files |-> have]]
    PROVE  /\ tree' \in [Repos -> Checkouts] /\ tree'[d].head = commit /\ tree'[d].files = have
           /\ \A e \in Repos \ {d} : tree'[e] = tree[e]
  <1>1. tree \in [Repos -> [head : {"none", "unborn", "pinned", "other"}, files : {"none", "some", "all"}]]
    BY DEF PrepTypeOK, Checkouts
  <1>2. CASE tree' = [tree EXCEPT ![d].head = commit] /\ tree[d].files = have
    BY <1>1, <1>2, FieldsSet DEF Checkouts
  <1>3. CASE tree' = [tree EXCEPT ![d].files = have] /\ tree[d].head = commit
    BY <1>1, <1>3, FieldsSet DEF Checkouts
  <1>4. CASE tree' = [tree EXCEPT ![d] = [head |-> commit, files |-> have]]
    BY <1>1, <1>4 DEF Checkouts
  <1>5. QED
    BY <1>2, <1>3, <1>4

LEMMA CloneStepsKeep ==
    ASSUME PrepInv, NEW w \in Workers, Clone(w) \/ Fetch(w) \/ Checkout(w) \/ VerifyRepo(w)
    PROVE  PrepInv'
  <1>1. ppc[w] \in {"clone", "fetch", "checkout", "checkout pinned", "verify"} /\ ppc[w] \in OnRepo
    BY DEF Clone, Fetch, Checkout, VerifyRepo, OnRepo, InClone
  <1>2. PositionOK(w) /\ CloneOK(w) /\ PrepTypeOK /\ OneClones
    BY DEF PrepInv, WorkerOK
  <1>3. /\ Repo(w) \in Repos
        /\ tree[Repo(w)] \in Checkouts
    BY <1>1, <1>2, RepoFacts DEF PrepTypeOK
  <1>4. ppc[w] \in InClone => \A v \in Workers \ {w} : ~Clones(v, Repo(w))
    BY <1>2, <1>3 DEF OneClones, Clones
  <1>5. CASE Clone(w)
    <2>1. ppc[w] = "clone" /\ UNCHANGED <<patched, archive, toolchain>>
      BY <1>5 DEF Clone
    <2>2. CASE /\ tree[Repo(w)] = Empty
               /\ tree' = [tree EXCEPT ![Repo(w)].head = "unborn"]
               /\ Goto(w, "fetch") /\ Keep
      <3>1. /\ tree' \in [Repos -> Checkouts]
            /\ tree'[Repo(w)].head = "unborn" /\ tree'[Repo(w)].files = "none"
            /\ \A e \in Repos \ {Repo(w)} : tree'[e] = tree[e]
        BY <1>2, <1>3, <2>2, FillingFields, WholeIsBoth
      <3>2. ~HasGit(Repo(w)) /\ ~WholeAtPin(Repo(w)) /\ ~HasFiles(Repo(w)) /\ ~AtPin(Repo(w))
        BY <1>2, <1>3, <2>2, WholeIsBoth DEF HasGit, HasFiles, AtPin
      <3>3. \A v \in Workers \ {w} : ~Clones(v, Repo(w))
        BY <3>2 DEF PrepInv, WorkerOK, CloneOK, Clones
      <3>4. "fetch" \in InClone
        BY DEF InClone
      <3>5. QED
        BY <1>1, <2>1, <2>2, <3>1, <3>2, <3>3, <3>4, FillKeeps DEF Goto
    <2>3. CASE Fails(w) /\ UNCHANGED tree
      BY <2>1, <2>3, FailsKeeps DEF workVars
    <2>4. QED
      BY <1>5, <2>2, <2>3 DEF Clone
  <1>6. CASE Fetch(w)
    <2>1. /\ ppc[w] = "fetch" /\ ppc[w] \in InClone
          /\ UNCHANGED <<patched, archive, toolchain>> /\ Keep
      BY <1>6 DEF Fetch, InClone
    <2>2. PICK commit \in {"pinned", "other"} : tree' = [tree EXCEPT ![Repo(w)].head = commit]
      BY <1>6 DEF Fetch
    <2>3. PICK to \in {"checkout", "checkout pinned"} : Goto(w, to)
      BY <1>6 DEF Fetch
    <2>4. /\ tree[Repo(w)].files = "none" /\ ~WholeAtPin(Repo(w))
          /\ ~HasFiles(Repo(w)) /\ ~AtPin(Repo(w))
      BY <1>2, <1>3, <2>1, WholeIsBoth DEF CloneOK, HasFiles, AtPin
    <2>5. /\ tree' \in [Repos -> Checkouts]
          /\ tree'[Repo(w)].head = commit /\ tree'[Repo(w)].files = "none"
          /\ \A e \in Repos \ {Repo(w)} : tree'[e] = tree[e]
      BY <1>2, <1>3, <2>2, <2>4, FillingFields
    <2>6. to \in InClone
      BY DEF InClone
    <2>7. QED
      BY <1>1, <1>4, <2>1, <2>3, <2>4, <2>5, <2>6, FillKeeps DEF Goto
  <1>7. CASE Checkout(w)
    <2>1. /\ ppc[w] \in {"checkout", "checkout pinned"} /\ ppc[w] \in InClone
          /\ UNCHANGED <<patched, archive, toolchain>> /\ Keep
      BY <1>7 DEF Checkout, InClone
    <2>2. ~WholeAtPin(Repo(w)) /\ HasGit(Repo(w))
      BY <1>2, <1>3, <2>1, WholeIsBoth DEF CloneOK
    <2>3. PICK commit \in {"unborn", "pinned", "other"} : tree[Repo(w)].head = commit
      BY <1>3, <2>2 DEF HasGit, Checkouts
    <2>4. CASE tree' = [tree EXCEPT ![Repo(w)].files = "some"] /\ UNCHANGED ppc
      <3>1. /\ tree' \in [Repos -> Checkouts]
            /\ tree'[Repo(w)].head = commit /\ tree'[Repo(w)].files = "some"
            /\ \A e \in Repos \ {Repo(w)} : tree'[e] = tree[e]
        BY <1>2, <1>3, <2>3, <2>4, FillingFields
      <3>2. PICK to \in {"checkout", "checkout pinned"} : ppc[w] = to
        BY <2>1
      <3>3. ppc' = [ppc EXCEPT ![w] = to] /\ to \in InClone
        BY <1>2, <2>1, <2>4, <3>2 DEF PrepTypeOK
      <3>4. AtPin(Repo(w)) => commit = "pinned"
        BY <2>3 DEF AtPin
      <3>5. QED
        BY <1>1, <1>4, <2>1, <2>2, <3>1, <3>2, <3>3, <3>4, FillKeeps
    <2>5. CASE /\ tree' = [tree EXCEPT ![Repo(w)] =
                              [head |-> IF ppc[w] = "checkout" THEN @.head ELSE "pinned", files |-> "all"]]
               /\ Goto(w, "verify")
      <3>1. PICK after \in {"unborn", "pinned", "other"} :
                   after = IF ppc[w] = "checkout" THEN commit ELSE "pinned"
        OBVIOUS
      <3>2. tree' = [tree EXCEPT ![Repo(w)] = [head |-> after, files |-> "all"]]
        BY <2>3, <2>5, <3>1
      <3>3. /\ tree' \in [Repos -> Checkouts]
            /\ tree'[Repo(w)].head = after /\ tree'[Repo(w)].files = "all"
            /\ \A e \in Repos \ {Repo(w)} : tree'[e] = tree[e]
        BY <1>2, <1>3, <3>1, <3>2, FillingFields
      <3>4. "verify" \in InClone
        BY DEF InClone
      <3>5. AtPin(Repo(w)) => after = "pinned"
        BY <2>3, <3>1 DEF AtPin
      <3>6. QED
        BY <1>1, <1>4, <2>1, <2>2, <2>5, <3>3, <3>4, <3>5, FillKeeps DEF Goto
    <2>6. QED
      BY <1>7, <2>4, <2>5 DEF Checkout
  <1>8. CASE VerifyRepo(w)
    <2>1. ppc[w] = "verify" /\ UNCHANGED workVars
      BY <1>8 DEF VerifyRepo
    <2>2. tree[Repo(w)].files = "all"
      BY <1>2, <2>1 DEF CloneOK
    <2>3. CASE tree[Repo(w)].head = "pinned" /\ NextRepo(w)
      <3>1. WholeAtPin(Repo(w)) /\ AtPin(Repo(w))
        BY <1>2, <1>3, <2>2, <2>3, WholeIsBoth DEF AtPin
      <3>2. QED
        BY <2>1, <2>3, <3>1, NextRepoKeeps
    <2>4. CASE Fails(w)
      BY <2>1, <2>4, FailsKeeps
    <2>5. QED
      BY <1>8, <2>3, <2>4 DEF VerifyRepo
  <1>9. QED
    BY <1>5, <1>6, <1>7, <1>8

\* A worker of the toolchain's script that moves on before tar runs, perhaps
\* with a new archive.
LEMMA ToolchainMoves ==
    ASSUME PrepInv, NEW w \in Workers, ppc[w] \in BeforeTar,
           NEW to \in BeforeTar, Goto(w, to),
           UNCHANGED <<tree, patched, toolchain, script, todo, patch, opened, unpacked>>,
           archive' \in {"absent", "right", "wrong"},
           left \subseteq left', left' \subseteq left \cup {"toolchain"},
           \/ archive' = archive \/ archive' = "right" \/ "toolchain" \in left'
           \/ \A v \in Workers : ppc[v] # "open",
           to = "open" => archive' = "right"
    PROVE  PrepInv'
  <1>1. PositionOK(w) /\ PrepTypeOK
    BY DEF PrepInv, WorkerOK
  <1>2. /\ to \in OnToolchain /\ to \notin {"done"} \cup OnRepo \cup OnBuild \cup InClone \cup InTar \cup InBuild
        /\ ppc[w] \in OnToolchain /\ ppc[w] \notin InClone \cup InTar \cup InBuild
    BY DEF OnToolchain, BeforeTar, OnRepo, OnBuild, InClone, InTar, InBuild
  <1>3. ppc'[w] = to /\ OnlyMoves(w)
    BY <1>1 DEF PrepTypeOK, Goto, OnlyMoves
  <1>4. PrepTypeOK'
    BY <1>1, <1>2 DEF PrepTypeOK, Goto
  <1>5. Frame(w)
    BY <1>3 DEF Frame, ClangMayAnswer
  <1>6. PositionOK(w)' /\ CloneOK(w)' /\ BuildOK(w)'
    BY <1>1, <1>2, <1>3 DEF PositionOK, CloneOK, BuildOK, InClone, InTar, InBuild
  <1>7. ArchiveOK(w)' /\ PassedOK(w)'
    BY <1>2, <1>3 DEF ArchiveOK, PassedOK
  <1>8. ClonesProperly(w)
    BY <1>2, <1>3 DEF ClonesProperly, Clones
  <1>9. ToolchainOK'
    BY <1>2, <1>3, ToolchainStands
  <1>10. QED
    BY <1>4, <1>5, <1>6, <1>7, <1>8, <1>9, InvOfStep DEF WorkerOK

\* A step of tar, from opening the archive to its end.
LEMMA TarKeeps ==
    ASSUME PrepInv, NEW w \in Workers, ppc[w] \in OnToolchain,
           NEW to \in InTar, ppc' = [ppc EXCEPT ![w] = to],
           NEW a \in {"absent", "right", "wrong", "none"}, opened' = [opened EXCEPT ![w] = a],
           NEW n \in 0 .. Members, unpacked' = [unpacked EXCEPT ![w] = n],
           to = "write" => n < Members, to = "try" => n = Members /\ a = "right",
           a = "right" \/ "toolchain" \in left,
           toolchain' \in [1 .. Members -> {"absent", "torn", "whole"}],
           ClangMayAnswer => ClangMayAnswer',
           UNCHANGED <<tree, patched, archive, script, todo, patch, left>>,
           ToolchainOK'
    PROVE  PrepInv'
  <1>1. PositionOK(w) /\ PrepTypeOK
    BY DEF PrepInv, WorkerOK
  <1>2. /\ to \in OnToolchain /\ to \notin {"open", "done"} \cup OnRepo \cup OnBuild \cup InClone \cup InBuild
        /\ ppc[w] \notin InClone \cup InBuild
    BY DEF OnToolchain, BeforeTar, OnRepo, OnBuild, InClone, InTar, InBuild
  <1>3. ppc'[w] = to /\ unpacked'[w] = n /\ opened'[w] = a /\ OnlyMoves(w)
    BY <1>1 DEF PrepTypeOK, OnlyMoves
  <1>4. PrepTypeOK'
    BY <1>1, <1>2 DEF PrepTypeOK
  <1>5. Frame(w)
    BY <1>3 DEF Frame
  <1>6. PositionOK(w)'
    BY <1>1, <1>2, <1>3 DEF PositionOK
  <1>7. CloneOK(w)' /\ ArchiveOK(w)' /\ BuildOK(w)' /\ PassedOK(w)'
    BY <1>2, <1>3 DEF CloneOK, ArchiveOK, BuildOK, PassedOK, InClone, InBuild
  <1>8. ClonesProperly(w)
    BY <1>2, <1>3 DEF ClonesProperly, Clones
  <1>9. QED
    BY <1>4, <1>5, <1>6, <1>7, <1>8, InvOfStep DEF WorkerOK

\* While tar runs, a member is whole, or this tar or another one will make it
\* so.
LEMMA ToolchainInTar ==
    ASSUME PrepInv, NEW w \in Workers, ppc[w] \in InTar, OnlyMoves(w), left' = left,
           \A m \in 1 .. Members :
               "toolchain" \notin left /\ (toolchain[m] = "whole" \/ WillWrite(w, m)) =>
                   toolchain'[m] = "whole" \/ WillWrite(w, m)'
    PROVE  ToolchainOK'
  <1>1. CASE "toolchain" \in left
    BY <1>1 DEF ToolchainOK
  <1>2. CASE /\ "toolchain" \notin left
             /\ \A m \in 1 .. Members : toolchain[m] = "whole" \/ \E v \in Workers : WillWrite(v, m)
    <2>1. ASSUME NEW m \in 1 .. Members
          PROVE  toolchain'[m] = "whole" \/ \E v \in Workers : WillWrite(v, m)'
      <3>1. CASE toolchain[m] = "whole" \/ WillWrite(w, m)
        BY <1>2, <3>1
      <3>2. ASSUME NEW v \in Workers \ {w}, WillWrite(v, m)
            PROVE  WillWrite(v, m)'
        BY <3>2 DEF OnlyMoves, WillWrite
      <3>3. QED
        BY <1>2, <3>1, <3>2
    <2>2. QED
      BY <2>1 DEF ToolchainOK
  <1>3. QED
    BY <1>1, <1>2 DEF PrepInv, ToolchainOK

LEMMA OpenArchiveKeeps ==
    ASSUME PrepInv, NEW w \in Workers, OpenArchive(w)
    PROVE  PrepInv'
  <1>1. /\ ppc[w] = "open" /\ ppc[w] \in OnToolchain /\ ppc[w] \notin InTar
        /\ opened' = [opened EXCEPT ![w] = archive]
        /\ ppc' = [ppc EXCEPT ![w] = "unpack"]
        /\ UNCHANGED <<tree, patched, archive, toolchain, script, todo, patch, unpacked, left>>
    BY DEF OpenArchive, Goto, workVars, OnToolchain, BeforeTar, InTar
  <1>2. PositionOK(w) /\ PrepTypeOK
    BY DEF PrepInv, WorkerOK
  <1>3. /\ archive \in {"absent", "right", "wrong", "none"}
        /\ unpacked[w] = 0 /\ unpacked' = [unpacked EXCEPT ![w] = 0] /\ 0 \in 0 .. Members
        /\ archive = "right" \/ "toolchain" \in left
    BY <1>1, <1>2, SeriesFacts DEF PrepTypeOK, PositionOK, PrepInv, WorkerOK, ArchiveOK
  <1>4. /\ ppc'[w] = "unpack" /\ opened'[w] = archive /\ unpacked'[w] = 0
        /\ OnlyMoves(w)
    BY <1>1, <1>2, <1>3 DEF PrepTypeOK, OnlyMoves
  <1>5. ToolchainOK'
    <2>1. CASE "toolchain" \in left
      BY <1>1, <2>1 DEF ToolchainOK
    <2>2. CASE archive = "right"
      <3>1. \A m \in 1 .. Members : WillWrite(w, m)'
        BY <1>4, <2>2, SeriesFacts DEF WillWrite
      <3>2. QED
        BY <3>1 DEF ToolchainOK
    <2>3. QED
      BY <1>3, <2>1, <2>2
  <1>6. "unpack" \in InTar /\ (ClangMayAnswer => ClangMayAnswer')
    BY <1>1 DEF InTar, ClangMayAnswer
  <1>7. toolchain' \in [1 .. Members -> {"absent", "torn", "whole"}]
    BY <1>1, <1>2 DEF PrepTypeOK
  <1>8. PICK to \in InTar : to = "unpack" /\ to # "write" /\ to # "try"
    BY <1>6
  <1>9. QED
    BY <1>1, <1>3, <1>5, <1>6, <1>7, <1>8, TarKeeps

LEMMA UnpackingKeeps ==
    ASSUME PrepInv, NEW w \in Workers, StartMember(w) \/ WriteMember(w) \/ EndUnpack(w)
    PROVE  PrepInv'
  <1>1. /\ ppc[w] \in {"unpack", "write"} /\ ppc[w] \in OnToolchain /\ ppc[w] \in InTar
        /\ UNCHANGED <<tree, patched, archive, script, todo, patch, opened, left>>
    BY DEF StartMember, WriteMember, EndUnpack, Keep, workVars, OnToolchain, InTar
  <1>2. /\ PositionOK(w) /\ PrepTypeOK
        /\ opened[w] = "right" \/ "toolchain" \in left
    BY <1>1 DEF PrepInv, WorkerOK, ArchiveOK
  <1>3. /\ Members \in Nat /\ Clang \in 1 .. Members
        /\ unpacked \in [Workers -> 0 .. Members] /\ unpacked[w] \in 0 .. Members
        /\ opened \in [Workers -> {"none", "absent", "right", "wrong"}]
        /\ opened[w] \in {"absent", "right", "wrong", "none"}
        /\ opened' = [opened EXCEPT ![w] = opened[w]]
        /\ toolchain \in [1 .. Members -> {"absent", "torn", "whole"}]
        /\ ppc \in [Workers -> {"idle", "done"} \cup OnRepo \cup OnToolchain \cup OnBuild]
    BY <1>1, <1>2, SeriesFacts DEF PrepTypeOK
  <1>4. CASE StartMember(w)
    <2>1. /\ ppc[w] = "unpack" /\ unpacked[w] < Members
          /\ toolchain' = [toolchain EXCEPT ![unpacked[w] + 1] = "torn"]
          /\ ppc' = [ppc EXCEPT ![w] = "write"] /\ unpacked' = unpacked
      BY <1>4 DEF StartMember, Goto, Keep
    <2>2. /\ unpacked' = [unpacked EXCEPT ![w] = unpacked[w]]
          /\ toolchain' \in [1 .. Members -> {"absent", "torn", "whole"}]
          /\ ClangMayAnswer => ClangMayAnswer'
      BY <1>3, <2>1 DEF ClangMayAnswer
    <2>3. ppc'[w] = "write" /\ OnlyMoves(w) /\ "write" \in InTar
      BY <1>1, <1>3, <2>1 DEF OnlyMoves, InTar
    <2>4. ASSUME NEW m \in 1 .. Members, "toolchain" \notin left,
                 toolchain[m] = "whole" \/ WillWrite(w, m)
          PROVE  toolchain'[m] = "whole" \/ WillWrite(w, m)'
      <3>1. opened[w] = "right"
        BY <1>2, <2>4
      <3>2. CASE opened[w] = "right" /\ unpacked[w] < m
        BY <1>1, <2>1, <2>3, <3>2 DEF WillWrite
      <3>3. CASE ~(unpacked[w] < m)
        <4>1. m # unpacked[w] + 1 /\ ~WillWrite(w, m)
          BY <1>3, <3>3 DEF WillWrite
        <4>2. QED
          BY <1>3, <2>1, <2>4, <4>1
      <3>4. QED
        BY <3>1, <3>2, <3>3
    <2>5. ToolchainOK'
      BY <1>1, <2>3, <2>4, ToolchainInTar
    <2>6. PICK to \in InTar : to = "write" /\ to # "try"
      BY <2>3
    <2>7. QED
      BY <1>1, <1>2, <1>3, <2>1, <2>2, <2>5, <2>6, TarKeeps
  <1>5. CASE WriteMember(w)
    <2>1. /\ ppc[w] = "write" /\ unpacked[w] < Members
          /\ toolchain' = [toolchain EXCEPT ![unpacked[w] + 1] = IF opened[w] = "right" THEN "whole" ELSE "torn"]
          /\ ppc' = [ppc EXCEPT ![w] = "unpack"]
          /\ unpacked' = [unpacked EXCEPT ![w] = unpacked[w] + 1]
      BY <1>2, <1>5 DEF WriteMember, Goto, PositionOK
    <2>2. /\ unpacked[w] + 1 \in 0 .. Members /\ unpacked'[w] = unpacked[w] + 1
          /\ toolchain' \in [1 .. Members -> {"absent", "torn", "whole"}]
          /\ ClangMayAnswer => ClangMayAnswer'
      BY <1>3, <2>1 DEF ClangMayAnswer
    <2>3. ppc'[w] = "unpack" /\ OnlyMoves(w) /\ "unpack" \in InTar
      BY <1>1, <1>3, <2>1 DEF OnlyMoves, InTar
    <2>4. ASSUME NEW m \in 1 .. Members, "toolchain" \notin left,
                 toolchain[m] = "whole" \/ WillWrite(w, m)
          PROVE  toolchain'[m] = "whole" \/ WillWrite(w, m)'
      <3>1. opened[w] = "right"
        BY <1>2, <2>4
      <3>2. CASE opened[w] = "right" /\ m = unpacked[w] + 1
        BY <1>3, <2>1, <3>2
      <3>3. CASE opened[w] = "right" /\ unpacked[w] + 1 < m
        BY <1>1, <2>2, <2>3, <3>3 DEF WillWrite
      <3>4. CASE ~(unpacked[w] < m)
        <4>1. m # unpacked[w] + 1 /\ ~WillWrite(w, m)
          BY <1>3, <3>4 DEF WillWrite
        <4>2. QED
          BY <1>3, <2>1, <2>4, <4>1
      <3>5. QED
        BY <1>3, <3>1, <3>2, <3>3, <3>4
    <2>5. ToolchainOK'
      BY <1>1, <2>3, <2>4, ToolchainInTar
    <2>6. PICK to \in InTar : to = "unpack" /\ to # "write" /\ to # "try"
      BY <2>3
    <2>7. QED
      BY <1>1, <1>2, <1>3, <2>1, <2>2, <2>5, <2>6, TarKeeps
  <1>6. CASE EndUnpack(w)
    <2>1. /\ ppc[w] = "unpack" /\ unpacked[w] = Members /\ opened[w] = "right"
          /\ ppc' = [ppc EXCEPT ![w] = "try"] /\ unpacked' = unpacked /\ toolchain' = toolchain
      BY <1>6 DEF EndUnpack, Goto, Keep, workVars
    <2>2. /\ unpacked' = [unpacked EXCEPT ![w] = unpacked[w]]
          /\ toolchain' \in [1 .. Members -> {"absent", "torn", "whole"}]
          /\ ClangMayAnswer => ClangMayAnswer'
      BY <1>3, <2>1 DEF ClangMayAnswer
    <2>3. ppc'[w] = "try" /\ OnlyMoves(w) /\ "try" \in InTar
      BY <1>1, <1>3, <2>1 DEF OnlyMoves, InTar
    <2>4. \A m \in 1 .. Members : ~WillWrite(w, m)
      BY <1>3, <2>1 DEF WillWrite
    <2>5. ToolchainOK'
      BY <1>1, <2>1, <2>3, <2>4, ToolchainInTar
    <2>6. PICK to \in InTar : to = "try" /\ to # "write"
      BY <2>3
    <2>7. QED
      BY <1>1, <1>2, <1>3, <2>1, <2>2, <2>5, <2>6, TarKeeps
  <1>7. QED
    BY <1>4, <1>5, <1>6

LEMMA ToolchainStepsKeep ==
    ASSUME PrepInv, NEW w \in Workers,
           CheckToolchain(w) \/ LookForArchive(w) \/ Download(w) \/ CheckArchive(w) \/ TryToolchain(w)
    PROVE  PrepInv'
  <1>1. /\ ppc[w] \in {"toolchain", "archive", "curl", "hash", "try"}
        /\ ppc[w] \in OnToolchain /\ ppc[w] \notin InClone
        /\ ppc[w] # "try" => ppc[w] \in BeforeTar /\ ppc[w] \notin InTar
    BY DEF CheckToolchain, LookForArchive, Download, CheckArchive, TryToolchain,
           OnToolchain, BeforeTar, InTar, InClone
  <1>2. PositionOK(w) /\ PrepTypeOK
    BY DEF PrepInv, WorkerOK
  <1>3. /\ script[w] = "toolchain" /\ \A d \in Repos : ~Clones(w, d)
        /\ archive \in {"absent", "right", "wrong"}
    BY <1>1, <1>2 DEF PositionOK, PrepTypeOK, Clones
  <1>4. {"archive", "curl", "hash", "open"} \subseteq BeforeTar
    BY DEF BeforeTar
  <1>5. CASE CheckToolchain(w)
    <2>1. ppc[w] = "toolchain" /\ UNCHANGED <<tree, patched, archive, toolchain>>
      BY <1>5 DEF CheckToolchain, workVars
    <2>2. CASE ClangMayAnswer /\ Ends(w, "done")
      BY <1>1, <1>3, <2>1, <2>2, DoneKeeps DEF workVars
    <2>3. CASE Goto(w, "archive") /\ Keep
      <3>1. PICK to \in BeforeTar : Goto(w, to) /\ to # "open"
        BY <1>4, <2>3
      <3>2. QED
        BY <1>1, <1>3, <2>1, <2>3, <3>1, ToolchainMoves DEF Keep
    <2>4. QED
      BY <1>5, <2>2, <2>3 DEF CheckToolchain
  <1>6. CASE LookForArchive(w)
    <2>1. PICK to \in {"curl", "hash"} : Goto(w, to)
      BY <1>6 DEF LookForArchive
    <2>2. ppc[w] = "archive" /\ UNCHANGED <<tree, patched, archive, toolchain>> /\ Keep
      BY <1>6 DEF LookForArchive, workVars
    <2>3. to \in BeforeTar /\ to # "open"
      BY <1>4
    <2>4. QED
      BY <1>1, <1>3, <2>1, <2>2, <2>3, ToolchainMoves DEF Keep
  <1>7. CASE Download(w)
    <2>1. /\ ppc[w] = "curl" /\ Goto(w, "hash")
          /\ UNCHANGED <<tree, patched, toolchain, script, todo, patch, opened, unpacked>>
          /\ archive' \in {"absent", "right", "wrong"}
          /\ left \subseteq left' /\ left' \subseteq left \cup {"toolchain"}
          /\ \/ archive' = archive \/ archive' = "right" \/ "toolchain" \in left'
             \/ \A v \in Workers : ppc[v] # "open"
      BY <1>7 DEF Download
    <2>2. PICK to \in BeforeTar : Goto(w, to) /\ to # "open"
      BY <1>4, <2>1
    <2>3. QED
      BY <1>1, <2>1, <2>2, ToolchainMoves
  <1>8. CASE CheckArchive(w)
    <2>1. ppc[w] = "hash" /\ UNCHANGED <<tree, patched, archive, toolchain>>
      BY <1>8 DEF CheckArchive, workVars
    <2>2. CASE archive = "right" /\ Goto(w, "open") /\ Keep
      <3>1. PICK to \in BeforeTar : Goto(w, to)
        BY <1>4, <2>2
      <3>2. QED
        BY <1>1, <1>3, <2>1, <2>2, <3>1, ToolchainMoves DEF Keep
    <2>3. CASE Fails(w)
      BY <2>1, <2>3, FailsKeeps DEF workVars
    <2>4. QED
      BY <1>8, <2>2, <2>3 DEF CheckArchive
  <1>9. CASE TryToolchain(w)
    <2>1. ppc[w] = "try" /\ UNCHANGED workVars
      BY <1>9 DEF TryToolchain
    <2>2. CASE ClangMayAnswer /\ Ends(w, "done")
      BY <1>3, <2>1, <2>2, DoneKeeps
    <2>3. CASE Fails(w)
      BY <2>1, <2>3, FailsKeeps
    <2>4. QED
      BY <1>9, <2>2, <2>3 DEF TryToolchain
  <1>10. QED
    BY <1>5, <1>6, <1>7, <1>8, <1>9
-----------------------------------------------------------------------------
(***************************************************************************)
(* The build.                                                              *)
(***************************************************************************)

\* A step of the build, if what it has looked at by then is as it must be.
LEMMA BuildMoves ==
    ASSUME PrepInv, NEW w \in Workers, ppc[w] \in OnBuild,
           NEW to \in InBuild, ppc' = [ppc EXCEPT ![w] = to],
           NEW n \in 1 .. Len(Series) + 1, patch' = [patch EXCEPT ![w] = n],
           patched' \in [Patches -> {"no", "torn", "yes"}],
           \A i \in Patches : patched[i] = "yes" => patched'[i] = "yes",
           \A i \in Patches : patched'[i] # "no" => patched[i] # "no" \/ HasFiles(Series[i]),
           UNCHANGED <<tree, archive, toolchain, script, todo, opened, unpacked, left>>,
           ClangMayAnswer, \A i \in Patches : i < n => patched'[i] = "yes",
           to = "apply" => n \in Patches /\ HasFiles(Series[n]),
           to = "compile" => n \notin Patches
    PROVE  PrepInv'
  <1>1. PositionOK(w) /\ PrepTypeOK
    BY DEF PrepInv, WorkerOK
  <1>2. /\ to \in OnBuild /\ to \notin {"open", "done"} \cup OnRepo \cup OnToolchain \cup InClone \cup InTar
        /\ ppc[w] \notin InClone \cup InTar
    BY DEF OnBuild, OnRepo, OnToolchain, BeforeTar, InBuild, InClone, InTar
  <1>3. ppc'[w] = to /\ patch'[w] = n /\ OnlyMoves(w)
    BY <1>1 DEF PrepTypeOK, OnlyMoves
  <1>4. PrepTypeOK'
    BY <1>1, <1>2 DEF PrepTypeOK
  <1>5. ClangMayAnswer' /\ \A d \in Repos : HasFiles(d)' <=> HasFiles(d)
    BY DEF ClangMayAnswer, HasFiles, HasGit
  <1>6. Frame(w)
    BY <1>3, <1>5 DEF Frame
  <1>7. PositionOK(w)'
    BY <1>1, <1>2, <1>3 DEF PositionOK, InTar
  <1>8. to = "apply" => HasFiles(Series[n])'
    BY <1>5, SeriesFacts DEF Repos
  <1>9. BuildOK(w)'
    BY <1>3, <1>5, <1>8 DEF BuildOK
  <1>10. CloneOK(w)' /\ ArchiveOK(w)' /\ PassedOK(w)'
    BY <1>2, <1>3 DEF CloneOK, ArchiveOK, PassedOK, InClone
  <1>11. ClonesProperly(w)
    BY <1>2, <1>3 DEF ClonesProperly, Clones
  <1>12. ToolchainOK'
    BY <1>2, <1>3, ToolchainStands
  <1>13. QED
    BY <1>4, <1>6, <1>7, <1>9, <1>10, <1>11, <1>12, InvOfStep DEF WorkerOK

LEMMA BuildStepsKeep ==
    ASSUME PrepInv, NEW w \in Workers,
           CheckPrepared(w) \/ CheckPatch(w) \/ ApplyPatch(w) \/ Compile(w) \/ EndCompile(w)
    PROVE  PrepInv'
  <1>1. /\ ppc[w] \in OnBuild /\ ppc[w] \notin InClone \cup InTar
        /\ ppc[w] = "build" \/ ppc[w] \in InBuild
        /\ "patch" \in InBuild /\ "apply" \in InBuild /\ "compile" \in InBuild
    BY DEF CheckPrepared, CheckPatch, ApplyPatch, Compile, EndCompile, OnBuild, InBuild, InClone, InTar
  <1>2. PositionOK(w) /\ PrepTypeOK /\ BuildOK(w)
    BY DEF PrepInv, WorkerOK
  <1>3. /\ Patches = 1 .. Len(Series) /\ Len(Series) \in Nat
        /\ patch[w] \in 1 .. Len(Series) + 1
        /\ patch \in [Workers -> 1 .. Len(Series) + 1]
        /\ patched \in [Patches -> {"no", "torn", "yes"}]
        /\ ppc \in [Workers -> {"idle", "done"} \cup OnRepo \cup OnToolchain \cup OnBuild]
    BY <1>2, SeriesFacts DEF PrepTypeOK
  <1>4. patch = [patch EXCEPT ![w] = patch[w]]
    BY <1>3
  <1>5. CASE CheckPrepared(w)
    <2>1. ppc[w] = "build" /\ UNCHANGED workVars
      BY <1>5 DEF CheckPrepared
    <2>2. CASE ClangIsThere /\ Goto(w, "patch") /\ Keep
      <3>1. patch[w] = 1
        BY <1>2, <2>1 DEF PositionOK, InBuild
      <3>2. UNCHANGED <<tree, patched, archive, toolchain, script, todo, opened, unpacked, patch, left>>
        BY <2>1, <2>2 DEF workVars, Keep
      <3>3. ClangMayAnswer /\ ppc' = [ppc EXCEPT ![w] = "patch"]
        BY <2>2 DEF ClangIsThere, ClangMayAnswer, Goto
      <3>4. \A i \in Patches : ~(i < patch[w])
        BY <1>3, <3>1
      <3>5. QED
        BY <1>1, <1>3, <1>4, <3>2, <3>3, <3>4, BuildMoves
    <2>3. CASE Fails(w)
      BY <2>1, <2>3, FailsKeeps
    <2>4. QED
      BY <1>5, <2>2, <2>3 DEF CheckPrepared
  <1>6. ASSUME ppc[w] \in InBuild
        PROVE  ClangMayAnswer /\ \A i \in Patches : i < patch[w] => patched[i] = "yes"
    BY <1>2, <1>6 DEF BuildOK
  <1>7. CASE CheckPatch(w)
    <2>1. ppc[w] = "patch" /\ patch[w] \in Patches /\ UNCHANGED workVars
      BY <1>7 DEF CheckPatch
    <2>2. CASE Fails(w)
      BY <2>1, <2>2, FailsKeeps
    <2>3. CASE HasGit(Series[patch[w]]) /\ AlreadyApplied(patch[w]) /\ NextPatch(w)
      <3>1. UNCHANGED <<tree, patched, archive, toolchain, script, todo, opened, unpacked, left>>
        BY <2>1, <2>3 DEF workVars, NextPatch
      <3>2. /\ patch' = [patch EXCEPT ![w] = patch[w] + 1]
            /\ ppc' = [ppc EXCEPT ![w] = "patch"]
        BY <2>3 DEF NextPatch, Goto
      <3>3. patched[patch[w]] = "yes"
        BY <2>3 DEF AlreadyApplied
      <3>4. patch[w] + 1 \in 1 .. Len(Series) + 1
        BY <1>3, <2>1
      <3>5. \A i \in Patches : i < patch[w] + 1 => i < patch[w] \/ i = patch[w]
        BY <1>3
      <3>6. \A i \in Patches : i < patch[w] + 1 => patched'[i] = "yes"
        BY <1>1, <1>6, <2>1, <3>1, <3>3, <3>5
      <3>7. QED
        BY <1>1, <1>3, <1>6, <2>1, <3>1, <3>2, <3>4, <3>6, BuildMoves
    <2>4. CASE HasGit(Series[patch[w]]) /\ MayApply(patch[w]) /\ Goto(w, "apply") /\ Keep
      <3>1. UNCHANGED <<tree, patched, archive, toolchain, script, todo, opened, unpacked, patch, left>>
        BY <2>1, <2>4 DEF workVars, Keep
      <3>2. HasFiles(Series[patch[w]]) /\ ppc' = [ppc EXCEPT ![w] = "apply"]
        BY <2>4 DEF HasFiles, MayApply, Goto
      <3>3. /\ patched' \in [Patches -> {"no", "torn", "yes"}]
            /\ patch' = [patch EXCEPT ![w] = patch[w]]
            /\ \A i \in Patches : i < patch[w] => patched'[i] = "yes"
        BY <1>1, <1>3, <1>4, <1>6, <2>1, <3>1
      <3>4. PICK to \in InBuild : to = "apply" /\ to # "compile"
        BY <1>1
      <3>5. PICK n \in 1 .. Len(Series) + 1 : n = patch[w] /\ n \in Patches
        BY <1>3, <2>1
      <3>6. /\ ppc' = [ppc EXCEPT ![w] = to] /\ patch' = [patch EXCEPT ![w] = n]
            /\ HasFiles(Series[n]) /\ ClangMayAnswer /\ ppc[w] \in OnBuild
            /\ \A i \in Patches : i < n => patched'[i] = "yes"
        BY <1>1, <1>6, <2>1, <3>2, <3>3, <3>4, <3>5
      <3>7. QED
        BY <3>1, <3>3, <3>4, <3>5, <3>6, BuildMoves
    <2>5. QED
      BY <1>7, <2>2, <2>3, <2>4 DEF CheckPatch
  <1>8. CASE ApplyPatch(w)
    <2>1. /\ ppc[w] = "apply" /\ patch[w] \in Patches /\ HasFiles(Series[patch[w]])
          /\ UNCHANGED <<tree, archive, toolchain>>
      BY <1>2, <1>8 DEF ApplyPatch, BuildOK
    <2>2. CASE /\ patched[patch[w]] = "no"
               /\ patched' = [patched EXCEPT ![patch[w]] = "torn"]
               /\ UNCHANGED ppc /\ Keep
      <3>1. /\ UNCHANGED <<script, todo, opened, unpacked, patch, left>>
            /\ ppc' = [ppc EXCEPT ![w] = "apply"]
        BY <1>3, <2>1, <2>2 DEF Keep
      <3>2. /\ patched' \in [Patches -> {"no", "torn", "yes"}]
            /\ \A i \in Patches : patched[i] = "yes" => patched'[i] = "yes"
            /\ \A i \in Patches : patched'[i] # "no" => patched[i] # "no" \/ HasFiles(Series[i])
        BY <1>3, <2>1, <2>2
      <3>3. \A i \in Patches : i < patch[w] => patched'[i] = "yes"
        BY <1>1, <1>6, <2>1, <3>2
      <3>4. PICK to \in InBuild : to = "apply" /\ to # "compile"
        BY <1>1
      <3>5. QED
        BY <1>1, <1>3, <1>4, <1>6, <2>1, <3>1, <3>2, <3>3, <3>4, BuildMoves
    <2>3. CASE /\ patched' = [patched EXCEPT ![patch[w]] = "yes"]
               /\ NextPatch(w)
      <3>1. /\ UNCHANGED <<script, todo, opened, unpacked, left>>
            /\ patch' = [patch EXCEPT ![w] = patch[w] + 1]
            /\ ppc' = [ppc EXCEPT ![w] = "patch"]
        BY <2>3 DEF NextPatch, Goto
      <3>2. /\ patched' \in [Patches -> {"no", "torn", "yes"}]
            /\ \A i \in Patches : patched[i] = "yes" => patched'[i] = "yes"
            /\ \A i \in Patches : patched'[i] # "no" => patched[i] # "no" \/ HasFiles(Series[i])
            /\ patched'[patch[w]] = "yes"
        BY <1>3, <2>1, <2>3
      <3>3. patch[w] + 1 \in 1 .. Len(Series) + 1
        BY <1>3, <2>1
      <3>4. \A i \in Patches : i < patch[w] + 1 => i < patch[w] \/ i = patch[w]
        BY <1>3
      <3>5. \A i \in Patches : i < patch[w] + 1 => patched'[i] = "yes"
        BY <1>1, <1>6, <2>1, <3>2, <3>4
      <3>6. QED
        BY <1>1, <1>3, <1>6, <2>1, <3>1, <3>2, <3>3, <3>5, BuildMoves
    <2>4. QED
      BY <1>8, <2>2, <2>3 DEF ApplyPatch
  <1>9. CASE Compile(w)
    <2>1. /\ ppc[w] = "patch" /\ patch[w] \notin Patches
          /\ ppc' = [ppc EXCEPT ![w] = "compile"]
          /\ UNCHANGED <<tree, patched, archive, toolchain, script, todo, opened, unpacked, patch, left>>
      BY <1>9 DEF Compile, Goto, Keep, workVars
    <2>2. ClangMayAnswer /\ \A i \in Patches : i < patch[w] => patched'[i] = "yes"
      BY <1>1, <1>6, <2>1
    <2>3. patch' = [patch EXCEPT ![w] = patch[w]]
      BY <1>4, <2>1
    <2>4. /\ patched' \in [Patches -> {"no", "torn", "yes"}]
          /\ \A i \in Patches : patched[i] = "yes" => patched'[i] = "yes"
          /\ \A i \in Patches : patched'[i] # "no" => patched[i] # "no" \/ HasFiles(Series[i])
      BY <1>3, <2>1
    <2>5. PICK to \in InBuild : to = "compile" /\ to # "apply"
      BY <1>1
    <2>6. PICK n \in 1 .. Len(Series) + 1 : n = patch[w] /\ n \notin Patches
      BY <1>3, <2>1
    <2>7. /\ ppc' = [ppc EXCEPT ![w] = to] /\ patch' = [patch EXCEPT ![w] = n]
          /\ ClangMayAnswer /\ ppc[w] \in OnBuild
          /\ \A i \in Patches : i < n => patched'[i] = "yes"
      BY <1>1, <2>1, <2>2, <2>3, <2>5, <2>6
    <2>8. QED
      BY <2>1, <2>4, <2>5, <2>6, <2>7, BuildMoves
  <1>10. CASE EndCompile(w)
    <2>1. ppc[w] = "compile" /\ Ends(w, "done") /\ UNCHANGED workVars
      BY <1>10 DEF EndCompile
    <2>2. script[w] = "build" /\ \A d \in Repos : ~Clones(w, d)
      BY <1>1, <1>2 DEF PositionOK, Clones
    <2>3. QED
      BY <1>1, <2>1, <2>2, DoneKeeps
  <1>11. QED
    BY <1>5, <1>7, <1>8, <1>9, <1>10

LEMMA DiesKeeps ==
    ASSUME PrepInv, NEW w \in Workers, Dies(w)
    PROVE  PrepInv'
  <1>1. Fails(w) /\ UNCHANGED <<patched, archive, toolchain>>
    BY DEF Dies
  <1>2. CASE UNCHANGED tree
    BY <1>1, <1>2, FailsKeeps DEF workVars
  <1>3. CASE ppc[w] = "fetch" /\ tree' = [tree EXCEPT ![Repo(w)] = Empty]
    <2>1. PositionOK(w) /\ CloneOK(w) /\ PrepTypeOK /\ OneClones
      BY DEF PrepInv, WorkerOK
    <2>2. ppc[w] \in OnRepo /\ ppc[w] \in InClone /\ ppc[w] \notin InTar
      BY <1>3 DEF OnRepo, InClone, InTar
    <2>3. Repo(w) \in Repos
      BY <2>1, <2>2, RepoFacts
    <2>4. PICK d \in Repos : d = Repo(w)
      BY <2>3
    <2>5. /\ ppc'[w] = "idle" /\ todo'[w] = <<>> /\ unpacked'[w] = 0 /\ patch'[w] = 1
          /\ script'[w] = "none" /\ left' = left \cup {x \in Filling(w) : LeavesHidden(w, x)}
          /\ OnlyMoves(w)
          /\ script' \in [Workers -> Scripts \cup {"none"}]
          /\ ppc' \in [Workers -> {"idle", "done"} \cup OnRepo \cup OnToolchain \cup OnBuild]
          /\ todo' \in [Workers -> TodoLists]
          /\ patch' \in [Workers -> 1 .. Len(Series) + 1]
          /\ opened' \in [Workers -> {"none", "absent", "right", "wrong"}]
          /\ unpacked' \in [Workers -> 0 .. Members]
      BY <1>1, <2>1, EndsFacts DEF Fails
    <2>6. /\ tree' \in [Repos -> Checkouts]
          /\ tree'[d] = Empty
          /\ \A e \in Repos \ {d} : tree'[e] = tree[e]
      BY <1>3, <2>1, <2>4 DEF PrepTypeOK, Checkouts, Empty
    <2>7. PrepTypeOK'
      BY <1>1, <2>1, <2>5, <2>6, FillingFacts DEF PrepTypeOK
    <2>8. ~WholeAtPin(d) /\ ~HasFiles(d) /\ ~AtPin(d)
      BY <1>3, <2>1, <2>4, WholeIsBoth DEF CloneOK, HasFiles, AtPin
    <2>9. Clones(w, d) /\ \A v \in Workers \ {w} : ~Clones(v, d)
      BY <2>1, <2>2, <2>4 DEF OneClones, Clones
    <2>10. MayChange(w, d)
      BY <2>6, <2>8, <2>9 DEF MayChange
    <2>11. ClangMayAnswer' <=> ClangMayAnswer
      BY <1>1 DEF ClangMayAnswer
    <2>12. Frame(w)
      BY <1>1, <2>5, <2>10, <2>11 DEF Frame
    <2>13. WorkerOK(w)' /\ \A e \in Repos : ~Clones(w, e)'
      BY <2>5 DEF WorkerOK, PositionOK, CloneOK, ArchiveOK, BuildOK, PassedOK, Clones, OnRepo, OnToolchain,
                  BeforeTar, OnBuild, InClone, InTar, InBuild
    <2>14. ~MayPass(d)'
      BY <2>6 DEF MayPass, HasGit, Empty
    <2>15. \A e \in Repos : Clones(w, e) => e = d
      BY <2>4 DEF Clones
    <2>16. ClonesProperly(w)
      BY <2>6, <2>13, <2>14, <2>15 DEF ClonesProperly
    <2>17. ToolchainOK'
      BY <1>1, <2>5, ToolchainAfterFailing
    <2>18. QED
      BY <2>7, <2>12, <2>13, <2>16, <2>17, InvOfStep
  <1>4. QED
    BY <1>2, <1>3 DEF Dies
-----------------------------------------------------------------------------
THEOREM PrepInvStep == PrepInv /\ [PrepNext]_prepVars => PrepInv'
  <1> SUFFICES ASSUME PrepInv, [PrepNext]_prepVars
               PROVE  PrepInv'
    OBVIOUS
  <1>1. CASE UNCHANGED prepVars
    <2>1. UNCHANGED <<tree, patched, archive, toolchain, script, ppc, todo, patch, opened, unpacked, left>>
      BY <1>1 DEF prepVars, workVars, runVars
    <2>2. PrepTypeOK' /\ OneClones' /\ PatchesOK'
      BY <2>1 DEF PrepInv, PrepTypeOK, OneClones, PatchesOK, Clones, Repo, HasFiles, HasGit
    <2>3. ReposOK'
      BY <2>1 DEF PrepInv, ReposOK, Clones, Repo, MayPass, HasGit, WholeAtPin
    <2>4. ToolchainOK'
      BY <2>1 DEF PrepInv, ToolchainOK, ClangMayAnswer, WillWrite
    <2>5. \A w \in Workers : WorkerOK(w)'
      <3> SUFFICES ASSUME NEW w \in Workers PROVE WorkerOK(w)'
        OBVIOUS
      <3>1. WorkerOK(w)
        BY DEF PrepInv
      <3>2. PositionOK(w)' /\ CloneOK(w)' /\ ArchiveOK(w)'
        BY <2>1, <3>1 DEF WorkerOK, PositionOK, CloneOK, ArchiveOK, Repo, HasGit
      <3>3. BuildOK(w)'
        BY <2>1, <3>1 DEF WorkerOK, BuildOK, HasGit, HasFiles, ClangMayAnswer
      <3>4. PassedOK(w)'
        BY <2>1, <3>1 DEF WorkerOK, PassedOK, WholeAtPin, AtPin, ClangMayAnswer
      <3>5. QED
        BY <3>2, <3>3, <3>4 DEF WorkerOK
    <2>6. QED
      BY <2>2, <2>3, <2>4, <2>5 DEF PrepInv
  <1>2. ASSUME NEW w \in Workers, PrepStep(w)
        PROVE  PrepInv'
    <2>1. CASE Start(w)
      BY <2>1, StartKeeps
    <2>2. CASE CheckRepo(w)
      BY <2>2, CheckRepoKeeps
    <2>3. CASE Clone(w) \/ Fetch(w) \/ Checkout(w) \/ VerifyRepo(w)
      BY <2>3, CloneStepsKeep
    <2>4. CASE CheckToolchain(w) \/ LookForArchive(w) \/ Download(w) \/ CheckArchive(w) \/ TryToolchain(w)
      BY <2>4, ToolchainStepsKeep
    <2>5. CASE OpenArchive(w)
      BY <2>5, OpenArchiveKeeps
    <2>6. CASE StartMember(w) \/ WriteMember(w) \/ EndUnpack(w)
      BY <2>6, UnpackingKeeps
    <2>7. CASE CheckPrepared(w) \/ CheckPatch(w) \/ ApplyPatch(w) \/ Compile(w) \/ EndCompile(w)
      BY <2>7, BuildStepsKeep
    <2>8. CASE Dies(w)
      BY <2>8, DiesKeeps
    <2>9. QED
      BY <1>2, <2>1, <2>2, <2>3, <2>4, <2>5, <2>6, <2>7, <2>8 DEF PrepStep
  <1>3. QED
    BY <1>1, <1>2 DEF PrepNext

THEOREM PrepInvHolds == PrepSpec => []PrepInv
  <1>1. QED
    BY PrepInvInit, PrepInvStep, PTL DEF PrepSpec

\* A checkout that may pass can be trusted, and so can a toolchain whose clang
\* answers.
LEMMA WhatPassesIsTrusted ==
    ASSUME PrepInv
    PROVE  /\ \A d \in Repos : MayPass(d) => Trusted(d)
           /\ ClangMayAnswer => Trusted("toolchain")
  <1>1. \A w \in Workers : PositionOK(w)
    BY DEF PrepInv, WorkerOK
  <1>2. ASSUME NEW d \in Repos, MayPass(d)
        PROVE  Trusted(d)
    <2>1. WholeAtPin(d) \/ d \in left \/ \E w \in Workers : d \in Filling(w)
      BY <1>1, <1>2, FillingFacts DEF PrepInv, ReposOK
    <2>2. d # "toolchain"
      BY DEF Repos
    <2>3. QED
      BY <2>1, <2>2 DEF Trusted
  <1>3. ASSUME ClangMayAnswer
        PROVE  Trusted("toolchain")
    <2>1. CASE \E w \in Workers : ppc[w] \in InTar
      BY <1>1, <2>1, FillingFacts DEF Trusted
    <2>2. CASE \A w \in Workers : ppc[w] \notin InTar
      <3>1. \A w \in Workers, m \in 1 .. Members : ~WillWrite(w, m)
        BY <2>2 DEF WillWrite, InTar
      <3>2. "toolchain" \in left \/ ToolchainWhole
        BY <1>3, <3>1 DEF PrepInv, ToolchainOK, ToolchainWhole
      <3>3. QED
        BY <3>2 DEF Trusted
    <2>3. QED
      BY <2>1, <2>2
  <1>4. QED
    BY <1>2, <1>3

\* The invariant says it all: a compilation has applied every patch, to
\* checkouts that have files; what was seen then, or at a report, can be
\* trusted.
THEOREM InvMeansWhole == PrepInv => PreparedIsWhole
  <1> SUFFICES ASSUME PrepInv PROVE PreparedIsWhole
    OBVIOUS
  <1>1. "kernel" \in Repos /\ "modules" \in Repos
    BY DEF Repos
  <1>2. \A d \in Repos : AtPin(d) \/ HasFiles(d) => MayPass(d)
    BY DEF AtPin, HasFiles, MayPass
  <1>3. ASSUME NEW w \in Workers, ppc[w] = "compile"
        PROVE  /\ \A i \in Patches : patched[i] = "yes"
               /\ \A x \in {"kernel", "modules", "toolchain"} : Trusted(x)
    <2>1. BuildOK(w) /\ ppc[w] \in InBuild /\ patch[w] \in 1 .. Len(Series) + 1
      BY <1>3 DEF PrepInv, WorkerOK, PrepTypeOK, InBuild
    <2>2. patch[w] \notin Patches
      BY <1>3, <2>1 DEF BuildOK
    <2>3. \A i \in Patches : i < patch[w]
      BY <2>1, <2>2, SeriesFacts
    <2>4. ClangMayAnswer /\ \A i \in Patches : patched[i] = "yes"
      BY <2>1, <2>3 DEF BuildOK
    <2>5. \A i \in Patches : HasFiles(Series[i])
      BY <2>4 DEF PrepInv, PatchesOK
    <2>6. HasFiles("kernel") /\ HasFiles("modules")
      BY <2>5, SeriesFacts
    <2>7. Trusted("kernel") /\ Trusted("modules") /\ Trusted("toolchain")
      BY <1>1, <1>2, <2>4, <2>6, WhatPassesIsTrusted
    <2>8. QED
      BY <2>4, <2>7
  <1>4. CompilesFromWhole
    BY <1>3 DEF CompilesFromWhole
  <1>5. ASSUME NEW w \in Workers, ppc[w] = "done"
        PROVE  /\ script[w] = "tools" => WholeAtPin("tools")
               /\ script[w] = "sources" =>
                    \A d \in {"kernel", "modules"} : tree[d].head = "pinned" /\ Trusted(d)
               /\ script[w] = "toolchain" => Trusted("toolchain")
    <2>1. PassedOK(w)
      BY DEF PrepInv, WorkerOK
    <2>2. script[w] = "sources" => /\ AtPin("kernel") /\ Trusted("kernel")
                                   /\ AtPin("modules") /\ Trusted("modules")
      BY <1>1, <1>2, <1>5, <2>1, WhatPassesIsTrusted DEF PassedOK
    <2>3. script[w] = "toolchain" => Trusted("toolchain")
      BY <1>5, <2>1, WhatPassesIsTrusted DEF PassedOK
    <2>4. script[w] = "tools" => WholeAtPin("tools")
      BY <1>5, <2>1 DEF PassedOK
    <2>5. QED
      BY <2>2, <2>3, <2>4 DEF AtPin
  <1>6. ReportsWhole
    BY <1>5 DEF ReportsWhole
  <1>7. QED
    BY <1>4, <1>6 DEF PreparedIsWhole

\* What the scripts of the preparation report as prepared, or compile, is
\* whole, by any number of workers in any order: the boot tools and the patches
\* wherever a run was cut off, a checkout or a toolchain unless a run is at it
\* or was cut off when it already looked whole, or fills the toolchain from what
\* has replaced the archive it checked.
THEOREM PreparationIsWhole == PrepSpec => []PreparedIsWhole
  <1>1. QED
    BY PrepInvHolds, InvMeansWhole, PTL
=============================================================================
