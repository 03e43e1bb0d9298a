----------------------- MODULE RecoveryHandoffProofs -----------------------
(***************************************************************************)
(* Proofs about the recovery handoff, for any images, controllers and      *)
(* sources and any number of runs and reboots.  Types hold however runs    *)
(* overlap; the rest is about runs that follow each other, MaxActive <= 1, *)
(* since nothing in the scripts keeps two starters apart.                  *)
(***************************************************************************)
EXTENDS RecoveryHandoff, FiniteSetTheorems, TLAPS

\* The loop over the sources starts at the first one, also when the root had
\* to be mounted before.
TypeInv ==
    /\ HandoffTypeOK
    /\ \A h \in Hosts : pc[h] \in {"losetup", "mount", "loopState"} => count[h] = 1

OneActive == \A g, h \in Hosts : pc[g] \in HandoffActive /\ pc[h] \in HandoffActive => g = h

\* What a run that was not told to skip the transfer is about to mount.
TransferOK(h) ==
    /\ pc[h] \in {"pushStarter", "starter"} /\ ~skipPush[h] => tmpImage \in verified \cup {Absent}
    /\ pc[h] \in {"cgroup", "controllers", "root", "losetup"} /\ ~skipPush[h] => tmpImage \in verified
    /\ pc[h] = "mount" /\ ~skipPush[h] => loop[h] \in verified
    /\ pc[h] \in {"cgroup", "controllers", "root", "losetup"} => tmpImage # Absent

\* Control points of the starter by what is behind them.
AfterNested == {"sshd", "dockerd"}

AfterSources == AfterNested \cup {"nested", "nestedSlave"}

AfterRoot == AfterSources \cup {"binds", "slave"}

AfterControllers == AfterRoot \cup {"root", "losetup", "mount", "loopState"}

\* Another loop device than that of run h.
OtherLoop(h) == \E g \in Hosts \ {h} : loop[g] # Absent

\* Where the root is, in the steps that put it there and after them.
MountOK(h) ==
    /\ pc[h] \in {"losetup", "mount"} => rootfs = Absent
    /\ pc[h] = "mount" => loop[h] # Absent
    /\ pc[h] = "mount" /\ OtherLoop(h) => "loop device" \in residue
    /\ pc[h] = "loopState" => rootfs = h
    /\ pc[h] \in AfterRoot => rootfs # Absent

\* The entries of an order before position n.
Before(order, n) == {order[i] : i \in {j \in DOMAIN order : j < n}}

\* How far a starter has come with what it finds or makes.
StageOK(h) ==
    /\ pc[h] = "controllers" =>
         ExposesNone /\ Before(ControllerOrder, count[h]) \subseteq cgroups
    /\ pc[h] \in AfterControllers => unified \/ cgroups # {}
    /\ pc[h] = "binds" => Before(SourceOrder, count[h]) \subseteq binds
    /\ pc[h] = "slave" => Before(SourceOrder, count[h] + 1) \subseteq binds
    /\ pc[h] \in AfterSources => Sources \subseteq binds
    /\ pc[h] = "nested" => Before(NestedOrder, count[h]) \cap mountPoints \subseteq binds
    /\ pc[h] = "nestedSlave" => Before(NestedOrder, count[h] + 1) \cap mountPoints \subseteq binds
    /\ pc[h] = "nestedSlave" => NestedOrder[count[h]] \in binds
    /\ pc[h] \in AfterNested => mountPoints \subseteq binds

\* What starters have begun on this boot and nobody has finished.
Begun ==
    (binds \ slaved)
    \cup {x \in {"controllers"} : ExposesNone /\ cgroups \notin {{}, Controllers}}
    \cup {x \in {"loop device"} : \E h \in Hosts : loop[h] # Absent /\ h # rootfs}
    \cup {x \in {"loop record"} : rootfs # Absent /\ loopState # rootfs}

\* What the mounts are like whoever is about to do what.  The last conjunct
\* is what makes cut-off starters harmless: what is begun and unfinished is
\* the residue of one of them, or some run is just at it.
TabletOK ==
    /\ exposed \subseteq cgroups
    /\ binds \subseteq Sources \cup mountPoints
    /\ rootfs # Absent => loop[rootfs] # Absent

ResidueOK == Begun \subseteq residue \cup UNION {LeftUndone(h) : h \in Hosts}

HandoffInv ==
    /\ TypeInv
    /\ OneActive
    /\ \A h \in Hosts : TransferOK(h) /\ MountOK(h) /\ StageOK(h)
    /\ TabletOK
    /\ ResidueOK
    /\ MountedIsVerified
-----------------------------------------------------------------------------
(***************************************************************************)
(* Types, however runs overlap.                                            *)
(***************************************************************************)

LEMMA OrderFacts ==
    /\ Len(ControllerOrder) \in Nat /\ DOMAIN ControllerOrder = 1 .. Len(ControllerOrder)
    /\ Len(SourceOrder) \in Nat /\ DOMAIN SourceOrder = 1 .. Len(SourceOrder)
    /\ Len(NestedOrder) \in Nat /\ DOMAIN NestedOrder = 1 .. Len(NestedOrder)
    /\ \A i \in DOMAIN ControllerOrder : ControllerOrder[i] \in Controllers
    /\ \A i \in DOMAIN SourceOrder : SourceOrder[i] \in Sources
    /\ \A i \in DOMAIN NestedOrder : NestedOrder[i] \in Nested
    /\ MaxAttempts \in Nat \ {0} /\ MaxBoots \in Nat /\ MaxActive \in Nat
    /\ Sources \subseteq Binds /\ Nested \subseteq Binds /\ Binds = Sources \cup Nested
    /\ CgroupMount \in Nested
    /\ Absent \notin Hosts /\ Absent \notin Versions
  BY HandoffAssumption DEF Controllers, Sources, Nested, Binds

\* There is at least one controller.
LEMMA SomeController == Controllers # {}
  <1>1. 1 \in DOMAIN ControllerOrder
    BY HandoffAssumption
  <1>2. QED
    BY <1>1 DEF Controllers

Residues == Binds \cup Marks

\* What is left undone at each control point.
LEMMA LeftUndoneAt ==
    ASSUME NEW h \in Hosts
    PROVE  /\ pc[h] = "controllers" =>
                LeftUndone(h) = {x \in {"controllers"} : cgroups \notin {{}, Controllers}}
           /\ pc[h] = "mount" => LeftUndone(h) = {"loop device"}
           /\ pc[h] = "loopState" => LeftUndone(h) = {"loop record"}
           /\ pc[h] = "slave" => LeftUndone(h) = {SourceOrder[count[h]]}
           /\ pc[h] = "nestedSlave" => LeftUndone(h) = {NestedOrder[count[h]]}
           /\ pc[h] \notin {"controllers", "mount", "loopState", "slave", "nestedSlave"} =>
                LeftUndone(h) = {}
  BY DEF LeftUndone

\* The same of the next state.
LEMMA LeftUndoneThen ==
    ASSUME NEW h \in Hosts
    PROVE  /\ pc'[h] = "controllers" =>
                LeftUndone(h)' = {x \in {"controllers"} : cgroups' \notin {{}, Controllers}}
           /\ pc'[h] = "mount" => LeftUndone(h)' = {"loop device"}
           /\ pc'[h] = "loopState" => LeftUndone(h)' = {"loop record"}
           /\ pc'[h] = "slave" => LeftUndone(h)' = {SourceOrder[count'[h]]}
           /\ pc'[h] = "nestedSlave" => LeftUndone(h)' = {NestedOrder[count'[h]]}
           /\ pc'[h] \notin {"controllers", "mount", "loopState", "slave", "nestedSlave"} =>
                LeftUndone(h)' = {}
  BY DEF LeftUndone

LEMMA LeftUndoneType ==
    ASSUME TypeInv, NEW h \in Hosts
    PROVE  LeftUndone(h) \subseteq Residues
  <1>1. pc[h] = "slave" => SourceOrder[count[h]] \in Binds
    BY OrderFacts DEF TypeInv, HandoffTypeOK, CountsOK
  <1>2. pc[h] = "nestedSlave" => NestedOrder[count[h]] \in Binds
    BY OrderFacts DEF TypeInv, HandoffTypeOK, CountsOK
  <1>3. {"controllers", "loop device", "loop record"} \subseteq Residues /\ Binds \subseteq Residues
    BY DEF Residues, Marks
  <1>4. CASE pc[h] \in {"slave", "nestedSlave"}
    BY <1>1, <1>2, <1>3, <1>4, LeftUndoneAt
  <1>5. CASE pc[h] \notin {"slave", "nestedSlave"}
    BY <1>3, <1>5, LeftUndoneAt
  <1>6. QED
    BY <1>4, <1>5

THEOREM TypeInvInit == HandoffInit => TypeInv
  <1> SUFFICES ASSUME HandoffInit PROVE TypeInv
    OBVIOUS
  <1>1. 0 \in 0 .. MaxBoots
    BY OrderFacts
  <1>2. CountsOK /\ \A h \in Hosts : pc[h] = "start"
    BY DEF HandoffInit, CountsOK
  <1>3. HandoffTypeOK
    BY <1>1, <1>2 DEF HandoffInit, Fresh, HandoffTypeOK
  <1>4. QED
    BY <1>2, <1>3 DEF TypeInv

\* Control points at which a counter is bounded.
Counting == {"controllers", "losetup", "mount", "loopState", "binds", "slave", "nested", "nestedSlave",
             "health"}

LEMMA TransferStepsType ==
    ASSUME TypeInv, NEW h \in Hosts, UNCHANGED <<boot, mode, recoveryVars, argumentVars>>,
           CheckTablet(h) \/ AdbFails(h) \/ PushImage(h) \/ FinishPush(h) \/ VerifyPush(h)
           \/ PushStarter(h) \/ RunStarter(h)
    PROVE  TypeInv'
  <1> USE DEF TypeInv
  <1>1. UNCHANGED <<boot, mode, unified, exposed, ownPoints, mountVars, daemonVars, imageOf, skipPush, count,
                    residue>>
    BY DEF CheckTablet, AdbFails, PushImage, FinishPush, VerifyPush, PushStarter, RunStarter, Pass,
           recoveryVars, argumentVars, tmpVars
  <1>2. PICK to \in (HandoffActive \ Counting) \cup HandoffFinished : pc' = [pc EXCEPT ![h] = to]
    BY DEF CheckTablet, AdbFails, PushImage, FinishPush, VerifyPush, PushStarter, RunStarter, Pass, Go,
           HandoffActive, HandoffFinished, Counting, InStarter
  <1>3. /\ tmpImage' \in Versions \cup {Absent, Damaged}
        /\ tmpStarter' \in BOOLEAN
        /\ verified' \in SUBSET Versions
    BY DEF CheckTablet, AdbFails, PushImage, FinishPush, VerifyPush, PushStarter, RunStarter, Pass,
           HandoffTypeOK, tmpVars
  <1>4. pc' \in [Hosts -> HandoffActive \cup HandoffFinished \cup {"start"}]
    BY <1>2 DEF HandoffTypeOK
  <1>5. \A g \in Hosts : pc'[g] = pc[g] \/ pc'[g] \notin Counting
    BY <1>2 DEF HandoffTypeOK, HandoffActive, HandoffFinished, Counting, InStarter
  <1>6. CountsOK'
    BY <1>1, <1>5 DEF HandoffTypeOK, CountsOK, Counting
  <1>7. HandoffTypeOK'
    BY <1>1, <1>3, <1>4, <1>6 DEF HandoffTypeOK, mountVars, daemonVars
  <1>8. QED
    BY <1>1, <1>5, <1>7 DEF Counting

\* What remains to be shown when the files in /tmp, the verified images, the
\* loop counters of the other runs and their places stay as they are.
LEMMA TypeOfStep ==
    ASSUME TypeInv, NEW h \in Hosts, NEW to \in HandoffActive \cup HandoffFinished, NEW n \in Nat,
           UNCHANGED <<boot, mode, recoveryVars, argumentVars, tmpVars, verified>>,
           pc' = [pc EXCEPT ![h] = to], count' = [count EXCEPT ![h] = n],
           cgroups' \in SUBSET Controllers, mountPoints' \in SUBSET Nested,
           loop' \in [Hosts -> Versions \cup {Absent, Damaged}],
           rootfs' \in Hosts \cup {Absent}, loopState' \in Hosts \cup {Absent},
           binds' \in SUBSET Binds, slaved' \in SUBSET Binds,
           sshd' \in BOOLEAN, dockerd' \in {"down", "starting", "up"}, residue' \subseteq Residues,
           /\ to = "controllers" => n \in 1 .. Len(ControllerOrder) + 1
           /\ to \in {"losetup", "mount", "loopState"} => n = 1
           /\ to = "binds" => n \in 1 .. Len(SourceOrder) + 1
           /\ to = "slave" => n \in DOMAIN SourceOrder
           /\ to = "nested" => n \in 1 .. Len(NestedOrder) + 1
           /\ to = "nestedSlave" => n \in DOMAIN NestedOrder
           /\ to = "health" => n \in 1 .. MaxAttempts
    PROVE  TypeInv'
  <1> USE DEF TypeInv
  <1>1. UNCHANGED <<boot, mode, unified, exposed, ownPoints, tmpImage, tmpStarter, imageOf, skipPush, verified>>
    BY DEF recoveryVars, argumentVars, tmpVars
  <1>2. /\ pc' \in [Hosts -> HandoffActive \cup HandoffFinished \cup {"start"}]
        /\ count' \in [Hosts -> Nat]
        /\ pc'[h] = to /\ count'[h] = n
        /\ \A g \in Hosts \ {h} : pc'[g] = pc[g] /\ count'[g] = count[g]
    BY DEF HandoffTypeOK
  <1>3. ASSUME NEW g \in Hosts
        PROVE  /\ pc'[g] = "controllers" => count'[g] \in 1 .. Len(ControllerOrder) + 1
               /\ pc'[g] \in {"losetup", "mount", "loopState"} => count'[g] = 1
               /\ pc'[g] = "binds" => count'[g] \in 1 .. Len(SourceOrder) + 1
               /\ pc'[g] = "slave" => count'[g] \in DOMAIN SourceOrder
               /\ pc'[g] = "nested" => count'[g] \in 1 .. Len(NestedOrder) + 1
               /\ pc'[g] = "nestedSlave" => count'[g] \in DOMAIN NestedOrder
               /\ pc'[g] = "health" => count'[g] \in 1 .. MaxAttempts
    <2>1. CASE g = h
      BY <1>2, <2>1
    <2>2. CASE g # h
      BY <1>2, <2>2 DEF HandoffTypeOK, CountsOK
    <2>3. QED
      BY <2>1, <2>2
  <1>4. CountsOK'
    BY <1>3 DEF CountsOK
  <1>5. HandoffTypeOK'
    BY <1>1, <1>2, <1>4 DEF HandoffTypeOK, Residues
  <1>6. QED
    BY <1>3, <1>5

\* What the types say of the variables that a step of the starter may change.
LEMMA TypesOfMounts ==
    ASSUME TypeInv, NEW h \in Hosts
    PROVE  /\ cgroups \in SUBSET Controllers /\ mountPoints \in SUBSET Nested
           /\ loop \in [Hosts -> Versions \cup {Absent, Damaged}]
           /\ rootfs \in Hosts \cup {Absent} /\ loopState \in Hosts \cup {Absent}
           /\ binds \in SUBSET Binds /\ slaved \in SUBSET Binds
           /\ sshd \in BOOLEAN /\ dockerd \in {"down", "starting", "up"} /\ residue \subseteq Residues
           /\ tmpImage \in Versions \cup {Absent, Damaged}
           /\ count[h] \in Nat /\ count = [count EXCEPT ![h] = count[h]]
           /\ pc = [pc EXCEPT ![h] = pc[h]]
  BY DEF TypeInv, HandoffTypeOK, Residues

LEMMA CgroupStepsType ==
    ASSUME TypeInv, NEW h \in Hosts, UNCHANGED <<boot, mode, recoveryVars, argumentVars>>,
           PrepareCgroups(h) \/ MountController(h)
    PROVE  TypeInv'
  <1>1. UNCHANGED <<tmpVars, verified, loop, rootfs, loopState, binds, slaved, daemonVars>>
    BY DEF PrepareCgroups, MountController
  <1>2. UNCHANGED <<sshd, dockerd>>
    BY <1>1 DEF daemonVars
  <1>3. 1 \in Nat /\ 1 \in 1 .. Len(ControllerOrder) + 1
    BY OrderFacts
  <1>4. {"controllers", "root", "failed"} \subseteq HandoffActive \cup HandoffFinished
    BY DEF HandoffActive, HandoffFinished, InStarter
  <1>5. CASE PrepareCgroups(h)
    <2>1. UNCHANGED <<cgroups, residue>>
      BY <1>5 DEF PrepareCgroups
    <2>2. CASE /\ mountPoints' = mountPoints \cup {CgroupMount}
               /\ Go(h, "controllers") /\ SetCount(h, 1)
      <3>1. mountPoints' \in SUBSET Nested
        BY <2>2, TypesOfMounts, OrderFacts
      <3>2. QED
        BY <1>1, <1>2, <1>3, <1>4, <2>1, <2>2, <3>1, TypesOfMounts, TypeOfStep DEF Go, SetCount
    <2>3. CASE Go(h, "root") /\ UNCHANGED <<mountPoints, count>>
      BY <1>1, <1>2, <1>4, <2>1, <2>3, TypesOfMounts, TypeOfStep DEF Go
    <2>4. QED
      BY <1>5, <2>2, <2>3 DEF PrepareCgroups
  <1>6. CASE MountController(h)
    <2>1. pc[h] = "controllers" /\ UNCHANGED mountPoints
      BY <1>6 DEF MountController
    <2>2. CASE /\ count[h] \in DOMAIN ControllerOrder
               /\ cgroups' = cgroups \cup {ControllerOrder[count[h]]}
               /\ SetCount(h, count[h] + 1)
               /\ UNCHANGED <<pc, residue>>
      <3>1. count[h] + 1 \in 1 .. Len(ControllerOrder) + 1 /\ count[h] + 1 \in Nat
        BY <2>2, OrderFacts
      <3>2. cgroups' \in SUBSET Controllers
        BY <2>2, TypesOfMounts, OrderFacts
      <3>3. QED
        BY <1>1, <1>2, <1>4, <2>1, <2>2, <3>1, <3>2, TypesOfMounts, TypeOfStep DEF SetCount
    <2>3. CASE Go(h, "failed") /\ residue' = residue \cup LeftUndone(h) /\ UNCHANGED <<cgroups, count>>
      <3>1. residue' \subseteq Residues
        BY <2>3, TypesOfMounts, LeftUndoneType
      <3>2. QED
        BY <1>1, <1>2, <1>4, <2>1, <2>3, <3>1, TypesOfMounts, TypeOfStep DEF Go
    <2>4. CASE Go(h, "root") /\ UNCHANGED <<cgroups, count, residue>>
      BY <1>1, <1>2, <1>4, <2>1, <2>4, TypesOfMounts, TypeOfStep DEF Go
    <2>5. QED
      BY <1>6, <2>2, <2>3, <2>4 DEF MountController
  <1>7. QED
    BY <1>5, <1>6

LEMMA RootStepsType ==
    ASSUME TypeInv, NEW h \in Hosts, UNCHANGED <<boot, mode, recoveryVars, argumentVars>>,
           CheckRoot(h) \/ SetUpLoop(h) \/ MountRoot(h) \/ RecordLoop(h)
    PROVE  TypeInv'
  <1>1. UNCHANGED <<tmpVars, verified, cgroups, mountPoints, binds, slaved, daemonVars, residue>>
    BY DEF CheckRoot, SetUpLoop, MountRoot, RecordLoop, mountVars
  <1>2. UNCHANGED <<sshd, dockerd>>
    BY <1>1 DEF daemonVars
  <1>3. 1 \in Nat /\ 1 \in 1 .. Len(SourceOrder) + 1
    BY OrderFacts
  <1>4. pc[h] \in {"losetup", "mount", "loopState"} => count[h] = 1
    BY DEF TypeInv
  <1>5. {"binds", "losetup", "mount", "loopState", "failed"} \subseteq HandoffActive \cup HandoffFinished
    BY DEF HandoffActive, HandoffFinished, InStarter
  <1>6. CASE CheckRoot(h)
    <2>1. PICK to \in {"binds", "losetup"} : Go(h, to)
      BY <1>6 DEF CheckRoot
    <2>2. count' = [count EXCEPT ![h] = 1] /\ UNCHANGED <<loop, rootfs, loopState>>
      BY <1>6 DEF CheckRoot, SetCount, mountVars
    <2>3. QED
      BY <1>1, <1>2, <1>3, <1>5, <2>1, <2>2, TypesOfMounts, TypeOfStep DEF Go
  <1>7. CASE SetUpLoop(h)
    <2>1. loop' \in [Hosts -> Versions \cup {Absent, Damaged}]
      BY <1>7, TypesOfMounts DEF SetUpLoop
    <2>2. /\ pc' = [pc EXCEPT ![h] = "mount"] /\ count[h] = 1
          /\ UNCHANGED <<rootfs, loopState, count>>
      BY <1>4, <1>7 DEF SetUpLoop, Go
    <2>3. QED
      BY <1>1, <1>2, <1>3, <1>5, <2>1, <2>2, TypesOfMounts, TypeOfStep
  <1>8. CASE MountRoot(h)
    <2>1. loop' \in [Hosts -> Versions \cup {Absent, Damaged}] /\ rootfs' \in Hosts \cup {Absent}
      BY <1>8, TypesOfMounts DEF MountRoot
    <2>2. PICK to \in {"loopState", "failed"} : Go(h, to)
      BY <1>8 DEF MountRoot
    <2>3. count[h] = 1 /\ UNCHANGED <<loopState, count>>
      BY <1>4, <1>8 DEF MountRoot
    <2>4. /\ to \in HandoffActive \cup HandoffFinished /\ to \notin {"controllers", "binds", "slave", "nested", "nestedSlave", "health"}
          /\ pc' = [pc EXCEPT ![h] = to] /\ count' = [count EXCEPT ![h] = 1]
      BY <1>5, <2>2, <2>3, TypesOfMounts DEF Go
    <2>5. QED
      BY <1>1, <1>2, <1>3, <2>1, <2>3, <2>4, TypesOfMounts, TypeOfStep
  <1>9. CASE RecordLoop(h)
    <2>1. /\ pc' = [pc EXCEPT ![h] = "binds"] /\ count[h] = 1
          /\ loopState' = h /\ UNCHANGED <<loop, rootfs, count>>
      BY <1>4, <1>9 DEF RecordLoop, Go
    <2>2. QED
      BY <1>1, <1>2, <1>3, <1>5, <2>1, TypesOfMounts, TypeOfStep
  <1>10. QED
    BY <1>6, <1>7, <1>8, <1>9

LEMMA SourceStepsType ==
    ASSUME TypeInv, NEW h \in Hosts, UNCHANGED <<boot, mode, recoveryVars, argumentVars>>,
           BindSource(h) \/ SlaveSource(h)
    PROVE  TypeInv'
  <1>1. UNCHANGED <<tmpVars, verified, cgroups, mountPoints, loop, rootfs, loopState, daemonVars, residue>>
    BY DEF BindSource, SlaveSource
  <1>2. UNCHANGED <<sshd, dockerd>>
    BY <1>1 DEF daemonVars
  <1>3. {"binds", "slave", "nested"} \subseteq HandoffActive \cup HandoffFinished
    BY DEF HandoffActive, InStarter
  <1>4. count[h] \in DOMAIN SourceOrder =>
          /\ count[h] + 1 \in 1 .. Len(SourceOrder) + 1 /\ count[h] + 1 \in Nat
          /\ SourceOrder[count[h]] \in Binds
    BY OrderFacts
  <1>5. CASE BindSource(h)
    <2>1. pc[h] = "binds" /\ UNCHANGED slaved
      BY <1>5 DEF BindSource
    <2>2. CASE Go(h, "nested") /\ SetCount(h, 1) /\ UNCHANGED binds
      <3>1. 1 \in Nat /\ 1 \in 1 .. Len(NestedOrder) + 1
        BY OrderFacts
      <3>2. QED
        BY <1>1, <1>2, <1>3, <2>1, <2>2, <3>1, TypesOfMounts, TypeOfStep DEF Go, SetCount
    <2>3. CASE /\ count[h] \in DOMAIN SourceOrder
               /\ SetCount(h, count[h] + 1)
               /\ UNCHANGED <<binds, pc>>
      BY <1>1, <1>2, <1>3, <1>4, <2>1, <2>3, TypesOfMounts, TypeOfStep DEF SetCount
    <2>4. CASE /\ count[h] \in DOMAIN SourceOrder
               /\ binds' = binds \cup {SourceOrder[count[h]]}
               /\ Go(h, "slave")
               /\ UNCHANGED count
      <3>1. binds' \in SUBSET Binds
        BY <1>4, <2>4, TypesOfMounts
      <3>2. QED
        BY <1>1, <1>2, <1>3, <2>1, <2>4, <3>1, TypesOfMounts, TypeOfStep DEF Go
    <2>5. QED
      BY <1>5, <2>2, <2>3, <2>4 DEF BindSource
  <1>6. CASE SlaveSource(h)
    <2>1. count[h] \in DOMAIN SourceOrder
      BY <1>6 DEF SlaveSource, TypeInv, HandoffTypeOK, CountsOK
    <2>2. slaved' \in SUBSET Binds
      BY <1>4, <1>6, <2>1, TypesOfMounts DEF SlaveSource, SlavedWith
    <2>3. /\ pc' = [pc EXCEPT ![h] = "binds"] /\ count' = [count EXCEPT ![h] = count[h] + 1]
          /\ UNCHANGED binds
      BY <1>6 DEF SlaveSource, Go, SetCount
    <2>4. QED
      BY <1>1, <1>2, <1>3, <1>4, <2>1, <2>2, <2>3, TypesOfMounts, TypeOfStep
  <1>7. QED
    BY <1>5, <1>6

LEMMA NestedStepsType ==
    ASSUME TypeInv, NEW h \in Hosts, UNCHANGED <<boot, mode, recoveryVars, argumentVars>>,
           BindNested(h) \/ SlaveNested(h)
    PROVE  TypeInv'
  <1>1. UNCHANGED <<tmpVars, verified, cgroups, mountPoints, loop, rootfs, loopState, daemonVars, residue>>
    BY DEF BindNested, SlaveNested
  <1>2. UNCHANGED <<sshd, dockerd>>
    BY <1>1 DEF daemonVars
  <1>3. {"nested", "nestedSlave", "sshd"} \subseteq HandoffActive \cup HandoffFinished
    BY DEF HandoffActive, InStarter
  <1>4. count[h] \in DOMAIN NestedOrder =>
          /\ count[h] + 1 \in 1 .. Len(NestedOrder) + 1 /\ count[h] + 1 \in Nat
          /\ NestedOrder[count[h]] \in Binds
    BY OrderFacts
  <1>5. CASE BindNested(h)
    <2>1. pc[h] = "nested" /\ UNCHANGED slaved
      BY <1>5 DEF BindNested
    <2>2. CASE Go(h, "sshd") /\ UNCHANGED <<binds, count>>
      BY <1>1, <1>2, <1>3, <2>1, <2>2, TypesOfMounts, TypeOfStep DEF Go
    <2>3. CASE /\ count[h] \in DOMAIN NestedOrder
               /\ SetCount(h, count[h] + 1)
               /\ UNCHANGED <<binds, pc>>
      BY <1>1, <1>2, <1>3, <1>4, <2>1, <2>3, TypesOfMounts, TypeOfStep DEF SetCount
    <2>4. CASE /\ count[h] \in DOMAIN NestedOrder
               /\ binds' = binds \cup {NestedOrder[count[h]]}
               /\ Go(h, "nestedSlave")
               /\ UNCHANGED count
      <3>1. binds' \in SUBSET Binds
        BY <1>4, <2>4, TypesOfMounts
      <3>2. QED
        BY <1>1, <1>2, <1>3, <2>1, <2>4, <3>1, TypesOfMounts, TypeOfStep DEF Go
    <2>5. QED
      BY <1>5, <2>2, <2>3, <2>4 DEF BindNested
  <1>6. CASE SlaveNested(h)
    <2>1. count[h] \in DOMAIN NestedOrder
      BY <1>6 DEF SlaveNested, TypeInv, HandoffTypeOK, CountsOK
    <2>2. slaved' \in SUBSET Binds
      BY <1>4, <1>6, <2>1, TypesOfMounts DEF SlaveNested, SlavedWith
    <2>3. /\ pc' = [pc EXCEPT ![h] = "nested"] /\ count' = [count EXCEPT ![h] = count[h] + 1]
          /\ UNCHANGED binds
      BY <1>6 DEF SlaveNested, Go, SetCount
    <2>4. QED
      BY <1>1, <1>2, <1>3, <1>4, <2>1, <2>2, <2>3, TypesOfMounts, TypeOfStep
  <1>7. QED
    BY <1>5, <1>6

LEMMA ServiceStepsType ==
    ASSUME TypeInv, NEW h \in Hosts, UNCHANGED <<boot, mode, recoveryVars, argumentVars>>,
           StartSshd(h) \/ StartDockerd(h) \/ Forward(h) \/ HealthCheck(h) \/ HostDies(h)
    PROVE  TypeInv'
  <1>1. UNCHANGED <<tmpVars, verified, mountVars>>
    BY DEF StartSshd, StartDockerd, Forward, HealthCheck, HostDies
  <1>2. UNCHANGED <<cgroups, mountPoints, loop, rootfs, loopState, binds, slaved>>
    BY <1>1 DEF mountVars
  <1>3. 1 \in Nat /\ 1 \in 1 .. MaxAttempts
    BY OrderFacts
  <1>4. {"dockerd", "failed", "forward", "health", "ready", "dead"} \subseteq HandoffActive \cup HandoffFinished
    BY DEF HandoffActive, HandoffFinished, InStarter
  <1>5. sshd' \in BOOLEAN /\ dockerd' \in {"down", "starting", "up"} /\ residue' \subseteq Residues
    BY TypesOfMounts, LeftUndoneType DEF StartSshd, StartDockerd, Forward, HealthCheck, HostDies, daemonVars
  <1>6. CASE StartSshd(h) \/ StartDockerd(h)
    <2>1. PICK to \in {"dockerd", "failed", "forward"} : Go(h, to) /\ UNCHANGED count
      BY <1>6 DEF StartSshd, StartDockerd
    <2>2. QED
      BY <1>1, <1>2, <1>4, <1>5, <2>1, TypesOfMounts, TypeOfStep DEF Go
  <1>7. CASE Forward(h)
    <2>1. pc' = [pc EXCEPT ![h] = "health"] /\ count' = [count EXCEPT ![h] = 1]
      BY <1>7 DEF Forward, Go, SetCount
    <2>2. QED
      BY <1>1, <1>2, <1>3, <1>4, <1>5, <2>1, TypesOfMounts, TypeOfStep
  <1>8. CASE HealthCheck(h)
    <2>1. count[h] \in 1 .. MaxAttempts /\ pc[h] = "health"
      BY <1>8 DEF HealthCheck, TypeInv, HandoffTypeOK, CountsOK
    <2>2. CASE (Go(h, "ready") \/ Go(h, "failed")) /\ UNCHANGED count
      BY <1>1, <1>2, <1>4, <1>5, <2>2, TypesOfMounts, TypeOfStep DEF Go
    <2>3. CASE MoreAttempts(h) /\ SetCount(h, NextAttempt(h)) /\ UNCHANGED pc
      <3>1. count[h] + 1 \in 1 .. MaxAttempts /\ count[h] + 1 \in Nat
        BY <2>1, <2>3, OrderFacts DEF MoreAttempts
      <3>2. QED
        BY <1>1, <1>2, <1>4, <1>5, <2>1, <2>3, <3>1, TypesOfMounts, TypeOfStep DEF SetCount, NextAttempt
    <2>4. QED
      BY <1>8, <2>2, <2>3 DEF HealthCheck
  <1>9. CASE HostDies(h)
    <2>1. pc' = [pc EXCEPT ![h] = "dead"] /\ UNCHANGED count
      BY <1>9 DEF HostDies, Go
    <2>2. QED
      BY <1>1, <1>2, <1>4, <1>5, <2>1, TypesOfMounts, TypeOfStep
  <1>10. QED
    BY <1>6, <1>7, <1>8, <1>9

THEOREM TypeInvStep == TypeInv /\ [HandoffNext]_handoffVars => TypeInv'
  <1> SUFFICES ASSUME TypeInv, [HandoffNext]_handoffVars PROVE TypeInv'
    OBVIOUS
  <1>1. ASSUME NEW h \in Hosts, RunStep(h) PROVE TypeInv'
    BY <1>1, TransferStepsType, CgroupStepsType, RootStepsType, SourceStepsType, NestedStepsType,
       ServiceStepsType DEF RunStep, HostStep
  <1>2. ASSUME NEW h \in Hosts, RunDies(h) PROVE TypeInv'
    BY <1>2, ServiceStepsType DEF RunDies
  <1>3. CASE DockerdSettles
    BY <1>3 DEF DockerdSettles, TypeInv, HandoffTypeOK, CountsOK, recoveryVars, tmpVars, mountVars, argumentVars
  <1>4. CASE Reboot
    <2>1. UNCHANGED <<unified, exposed, ownPoints, imageOf, skipPush, count>>
      BY <1>4 DEF Reboot, recoveryVars, argumentVars
    <2>2. boot' \in 0 .. MaxBoots
      <3>1. boot < MaxBoots /\ boot' = boot + 1
        BY <1>4 DEF Reboot
      <3>2. boot \in 0 .. MaxBoots /\ MaxBoots \in Nat
        BY OrderFacts DEF TypeInv, HandoffTypeOK
      <3>3. QED
        BY <3>1, <3>2
    <2>3. \A h \in Hosts : pc'[h] = "failed" \/ (pc'[h] = pc[h] /\ pc[h] \notin InStarter)
      BY <1>4 DEF Reboot
    <2>4. pc' \in [Hosts -> HandoffActive \cup HandoffFinished \cup {"start"}]
      BY <1>4 DEF Reboot, TypeInv, HandoffTypeOK, HandoffFinished
    <2>5. CountsOK'
      BY <2>1, <2>3 DEF TypeInv, HandoffTypeOK, CountsOK, InStarter
    <2>6. HandoffTypeOK'
      BY <1>4, <2>1, <2>2, <2>4, <2>5 DEF Reboot, TypeInv, HandoffTypeOK
    <2>7. QED
      BY <2>1, <2>3, <2>6 DEF TypeInv, InStarter
  <1>5. CASE UNCHANGED handoffVars
    BY <1>5 DEF handoffVars, TypeInv, HandoffTypeOK, CountsOK, recoveryVars, tmpVars, mountVars, daemonVars,
                argumentVars
  <1>6. QED
    BY <1>1, <1>2, <1>3, <1>4, <1>5 DEF HandoffNext

THEOREM TypeInvHolds == HandoffSpec => []TypeInv
  BY TypeInvInit, TypeInvStep, PTL DEF HandoffSpec

\* The variables of the tablet and of the runs keep their types, and every
\* counter stays within its loop, however many runs overlap: the health check
\* is never tried more than MaxAttempts times.
THEOREM HandoffTypes == HandoffSpec => []HandoffTypeOK
  BY TypeInvHolds, PTL DEF TypeInv
-----------------------------------------------------------------------------
(***************************************************************************)
(* One run at a time.                                                      *)
(***************************************************************************)

\* No other run is under way.
Alone(h) == \A g \in Hosts \ {h} : pc[g] \notin HandoffActive

LEMMA ActiveIsAlone ==
    ASSUME OneActive, NEW h \in Hosts, pc[h] \in HandoffActive
    PROVE  Alone(h)
  BY DEF OneActive, Alone

\* The operator only starts a run when none is under way.
LEMMA StartIsAlone ==
    ASSUME MaxActive <= 1, NEW h \in Hosts, CheckTablet(h)
    PROVE  Alone(h)
  <1> DEFINE Under == {g \in Hosts : pc[g] \in HandoffActive}
  <1>1. IsFiniteSet(Under)
    <2>1. Under \subseteq Hosts
      OBVIOUS
    <2>2. QED
      BY <2>1, HandoffAssumption, FS_Subset
  <1>2. Cardinality(Under) \in Nat /\ Cardinality(Under) < MaxActive
    BY <1>1, FS_CardinalityType DEF CheckTablet
  <1>3. Cardinality(Under) = 0
    BY <1>2, OrderFacts
  <1>4. Under = {}
    BY <1>1, <1>3, FS_EmptySet
  <1>5. QED
    BY <1>4 DEF Alone

LEMMA InvInit == HandoffInit => HandoffInv
  <1> SUFFICES ASSUME HandoffInit PROVE HandoffInv
    OBVIOUS
  <1>1. TypeInv
    BY TypeInvInit
  <1>2. \A h \in Hosts : pc[h] = "start"
    BY DEF HandoffInit
  <1>3. OneActive /\ \A h \in Hosts : TransferOK(h) /\ MountOK(h) /\ StageOK(h)
    BY <1>2 DEF OneActive, TransferOK, MountOK, StageOK, HandoffActive, InStarter, AfterControllers,
                AfterRoot, AfterSources, AfterNested
  <1>4. TabletOK /\ MountedIsVerified /\ Begun = {}
    BY DEF HandoffInit, Fresh, TabletOK, MountedIsVerified, Begun, ExposesNone
  <1>5. QED
    BY <1>1, <1>3, <1>4 DEF HandoffInv, ResidueOK

\* A run that is alone only has to look at itself.
LEMMA InvOfStep ==
    ASSUME TypeInv', NEW h \in Hosts, Alone(h), \A g \in Hosts \ {h} : pc'[g] = pc[g],
           TransferOK(h)', MountOK(h)', StageOK(h)', TabletOK', MountedIsVerified',
           Begun' \subseteq residue' \cup LeftUndone(h)'
    PROVE  HandoffInv'
  <1>1. \A g \in Hosts \ {h} : pc'[g] \notin HandoffActive
    BY DEF Alone
  <1>2. OneActive'
    BY <1>1 DEF OneActive
  <1>3. ASSUME NEW g \in Hosts \ {h}
        PROVE  TransferOK(g)' /\ MountOK(g)' /\ StageOK(g)'
    BY <1>1, <1>3 DEF TransferOK, MountOK, StageOK, HandoffActive, InStarter, AfterControllers,
                      AfterRoot, AfterSources, AfterNested
  <1>4. ResidueOK'
    BY DEF ResidueOK
  <1>5. QED
    BY <1>2, <1>3, <1>4 DEF HandoffInv

\* What is begun and unfinished is the residue of an earlier run, or what the
\* one that is under way is just at.
LEMMA ResidueOfAlone ==
    ASSUME HandoffInv, NEW h \in Hosts, Alone(h)
    PROVE  Begun \subseteq residue \cup LeftUndone(h)
  <1>1. ASSUME NEW g \in Hosts \ {h}
        PROVE  LeftUndone(g) = {}
    <2>1. pc[g] \notin HandoffActive
      BY <1>1 DEF Alone
    <2>2. QED
      BY <2>1, LeftUndoneAt DEF HandoffActive, InStarter
  <1>2. QED
    BY <1>1 DEF HandoffInv, ResidueOK

\* An order and its positions.
LEMMA BeforeFacts ==
    ASSUME NEW Range0, NEW order \in Seq(Range0)
    PROVE  /\ Before(order, 1) = {}
           /\ Before(order, Len(order) + 1) = {order[i] : i \in DOMAIN order}
           /\ \A n \in DOMAIN order : Before(order, n + 1) = Before(order, n) \cup {order[n]}
  <1>1. DOMAIN order = 1 .. Len(order) /\ Len(order) \in Nat
    OBVIOUS
  <1>2. Before(order, 1) = {}
    BY <1>1 DEF Before
  <1>3. {j \in DOMAIN order : j < Len(order) + 1} = DOMAIN order
    BY <1>1
  <1>4. ASSUME NEW n \in DOMAIN order
        PROVE  Before(order, n + 1) = Before(order, n) \cup {order[n]}
    <2>1. \A j \in DOMAIN order : j < n + 1 <=> j < n \/ j = n
      BY <1>1
    <2>2. QED
      BY <2>1 DEF Before
  <1>5. QED
    BY <1>2, <1>3, <1>4 DEF Before

LEMMA OrderPositions ==
    /\ Before(ControllerOrder, 1) = {} /\ Before(SourceOrder, 1) = {} /\ Before(NestedOrder, 1) = {}
    /\ Before(ControllerOrder, Len(ControllerOrder) + 1) = Controllers
    /\ Before(SourceOrder, Len(SourceOrder) + 1) = Sources
    /\ Before(NestedOrder, Len(NestedOrder) + 1) = Nested
    /\ \A n \in DOMAIN ControllerOrder :
         Before(ControllerOrder, n + 1) = Before(ControllerOrder, n) \cup {ControllerOrder[n]}
    /\ \A n \in DOMAIN SourceOrder :
         Before(SourceOrder, n + 1) = Before(SourceOrder, n) \cup {SourceOrder[n]}
    /\ \A n \in DOMAIN NestedOrder :
         Before(NestedOrder, n + 1) = Before(NestedOrder, n) \cup {NestedOrder[n]}
  BY HandoffAssumption, BeforeFacts DEF Controllers, Sources, Nested

\* What is mounted and how: everything the predicates about the tablet read.
LEMMA SameMounts ==
    ASSUME UNCHANGED <<unified, exposed, mountVars>>
    PROVE  /\ Begun' = Begun /\ TabletOK' = TabletOK /\ ExposesNone' = ExposesNone
           /\ UNCHANGED <<cgroups, mountPoints, loop, rootfs, loopState, binds, slaved>>
  BY DEF mountVars, Begun, TabletOK, ExposesNone

\* A step of a run that mounts nothing: it may move on to a place that claims
\* no more than was known before.
LEMMA QuietStepKeeps ==
    ASSUME HandoffInv, TypeInv', NEW h \in Hosts, Alone(h), UNCHANGED <<unified, exposed, skipPush, mountVars>>,
           NEW to, pc' = [pc EXCEPT ![h] = to], verified \subseteq verified',
           residue' = residue \cup LeftUndone(h), LeftUndone(h)' = {},
           TransferOK(h)', MountOK(h)', StageOK(h)'
    PROVE  HandoffInv'
  <1>1. \A g \in Hosts \ {h} : pc'[g] = pc[g]
    BY DEF HandoffInv, TypeInv, HandoffTypeOK
  <1>2. Begun' \subseteq residue' \cup LeftUndone(h)'
    BY ResidueOfAlone, SameMounts
  <1>3. TabletOK' /\ MountedIsVerified'
    BY SameMounts DEF HandoffInv, MountedIsVerified
  <1>4. QED
    BY <1>1, <1>2, <1>3, InvOfStep

\* The places of the starter.
LEMMA PlacesOfStarter ==
    /\ AfterControllers = {"root", "losetup", "mount", "loopState", "binds", "slave", "nested", "nestedSlave",
                           "sshd", "dockerd"}
    /\ AfterRoot = {"binds", "slave", "nested", "nestedSlave", "sshd", "dockerd"}
    /\ AfterSources = {"nested", "nestedSlave", "sshd", "dockerd"}
    /\ AfterNested = {"sshd", "dockerd"}
  BY DEF AfterControllers, AfterRoot, AfterSources, AfterNested

LEMMA TransferStepsKeep ==
    ASSUME HandoffInv, TypeInv', MaxActive <= 1, NEW h \in Hosts,
           UNCHANGED <<boot, mode, recoveryVars, argumentVars>>,
           CheckTablet(h) \/ AdbFails(h) \/ PushImage(h) \/ FinishPush(h) \/ VerifyPush(h)
           \/ PushStarter(h) \/ Forward(h) \/ HealthCheck(h)
    PROVE  HandoffInv'
  <1>1. UNCHANGED <<unified, exposed, skipPush, mountVars, residue>>
    BY DEF CheckTablet, AdbFails, PushImage, FinishPush, VerifyPush, PushStarter, Forward, HealthCheck, Pass,
           recoveryVars, argumentVars
  <1>2. pc[h] \notin InStarter /\ (pc[h] \in HandoffActive \/ CheckTablet(h))
    BY DEF CheckTablet, AdbFails, PushImage, FinishPush, VerifyPush, PushStarter, Forward, HealthCheck, Pass,
           HandoffActive, InStarter
  <1>3. Alone(h)
    BY <1>2, ActiveIsAlone, StartIsAlone DEF HandoffInv
  <1>4. PICK to : pc' = [pc EXCEPT ![h] = to]
    <2>1. pc = [pc EXCEPT ![h] = pc[h]]
      BY TypesOfMounts DEF HandoffInv
    <2>2. QED
      BY <2>1 DEF CheckTablet, AdbFails, PushImage, FinishPush, VerifyPush, PushStarter, Forward, HealthCheck,
                  Pass, Go
  <1>5. pc'[h] = to
    BY <1>4 DEF HandoffInv, TypeInv, HandoffTypeOK
  <1>6. pc'[h] \notin InStarter \ {"starter"}
    BY <1>5, <1>2, <1>4 DEF HandoffInv, TypeInv, HandoffTypeOK,
         CheckTablet, AdbFails, PushImage, FinishPush, VerifyPush, PushStarter, Forward, HealthCheck, Pass, Go,
         InStarter
  <1>7. verified \subseteq verified'
    BY DEF CheckTablet, AdbFails, PushImage, FinishPush, VerifyPush, PushStarter, Forward, HealthCheck, Pass
  <1>8. pc'[h] \in {"pushStarter", "starter"} /\ ~skipPush[h] => tmpImage' \in verified' \cup {Absent}
    BY <1>2, <1>4 DEF HandoffInv, TypeInv, HandoffTypeOK, TransferOK, HashMatches, tmpVars,
           CheckTablet, AdbFails, PushImage, FinishPush, VerifyPush, PushStarter, Forward, HealthCheck, Pass, Go,
           InStarter
  <1>9. TransferOK(h)' /\ MountOK(h)' /\ StageOK(h)'
    BY <1>1, <1>6, <1>8, PlacesOfStarter DEF TransferOK, MountOK, StageOK, InStarter
  <1>10. LeftUndone(h) = {} /\ LeftUndone(h)' = {}
    BY <1>2, <1>6, LeftUndoneAt, LeftUndoneThen DEF InStarter
  <1>11. QED
    BY <1>1, <1>3, <1>4, <1>7, <1>9, <1>10, QuietStepKeeps

\* A run that stops has, at worst, left what it was at.
LEMMA StopsKeep ==
    ASSUME HandoffInv, TypeInv', NEW h \in Hosts,
           UNCHANGED <<boot, mode, recoveryVars, argumentVars>>, HostDies(h)
    PROVE  HandoffInv'
  <1>1. /\ UNCHANGED <<unified, exposed, skipPush, mountVars, verified>>
        /\ residue' = residue \cup LeftUndone(h)
        /\ pc' = [pc EXCEPT ![h] = "dead"]
    BY DEF HostDies, Go, recoveryVars, argumentVars
  <1>2. Alone(h)
    BY ActiveIsAlone DEF HandoffInv, HostDies
  <1>3. pc'[h] = "dead"
    BY <1>1 DEF HandoffInv, TypeInv, HandoffTypeOK
  <1>4. TransferOK(h)' /\ MountOK(h)' /\ StageOK(h)'
    BY <1>3, PlacesOfStarter DEF TransferOK, MountOK, StageOK
  <1>5. LeftUndone(h)' = {}
    BY <1>3, LeftUndoneThen
  <1>6. QED
    BY <1>1, <1>2, <1>4, <1>5, QuietStepKeeps

\* A step of the starter has its own stage to show.
LEMMA StarterStepKeeps ==
    ASSUME HandoffInv, TypeInv', NEW h \in Hosts, pc[h] \in InStarter,
           NEW to, pc' = [pc EXCEPT ![h] = to],
           TransferOK(h)', MountOK(h)', StageOK(h)', TabletOK', MountedIsVerified',
           Begun' \subseteq residue' \cup LeftUndone(h)'
    PROVE  HandoffInv'
  <1>1. Alone(h)
    BY ActiveIsAlone DEF HandoffInv, HandoffActive
  <1>2. \A g \in Hosts \ {h} : pc'[g] = pc[g]
    BY DEF HandoffInv, TypeInv, HandoffTypeOK
  <1>3. QED
    BY <1>1, <1>2, InvOfStep

\* What the invariant says of a run inside the starter.
LEMMA StarterKnows ==
    ASSUME HandoffInv, NEW h \in Hosts, pc[h] \in InStarter
    PROVE  /\ Begun \subseteq residue \cup LeftUndone(h)
           /\ \A to : pc' = [pc EXCEPT ![h] = to] => pc'[h] = to
           /\ \A n : count' = [count EXCEPT ![h] = n] => count'[h] = n
           /\ TypeInv /\ TabletOK /\ MountedIsVerified
           /\ TransferOK(h) /\ MountOK(h) /\ StageOK(h)
           /\ pc = [pc EXCEPT ![h] = pc[h]]
  <1>1. Alone(h)
    BY ActiveIsAlone DEF HandoffInv, HandoffActive
  <1>2. QED
    BY <1>1, ResidueOfAlone DEF HandoffInv, TypeInv, HandoffTypeOK

LEMMA CgroupStepsKeep ==
    ASSUME HandoffInv, TypeInv', NEW h \in Hosts,
           UNCHANGED <<boot, mode, recoveryVars, argumentVars>>,
           PrepareCgroups(h) \/ MountController(h)
    PROVE  HandoffInv'
  <1>1. /\ pc[h] \in {"cgroup", "controllers"} /\ pc[h] \in InStarter
        /\ UNCHANGED <<unified, exposed, skipPush, tmpImage, verified, loop, rootfs, loopState, binds, slaved>>
    BY DEF PrepareCgroups, MountController, InStarter, recoveryVars, argumentVars, tmpVars
  <1>2. MountedIsVerified' /\ ExposesNone' = ExposesNone
    BY <1>1 DEF HandoffInv, MountedIsVerified, ExposesNone
  <1>3. /\ ~skipPush[h] => tmpImage \in verified
        /\ tmpImage # Absent
    BY <1>1 DEF HandoffInv, TransferOK
  <1>4. \A to \in {"controllers", "root", "failed"} :
          pc' = [pc EXCEPT ![h] = to] => pc'[h] = to /\ TransferOK(h)' /\ MountOK(h)'
    <2>1. ASSUME NEW to \in {"controllers", "root", "failed"}, pc' = [pc EXCEPT ![h] = to]
          PROVE  pc'[h] = to
      BY <1>1, <2>1, StarterKnows
    <2>2. QED
      BY <1>1, <1>3, <2>1, PlacesOfStarter DEF TransferOK, MountOK
  <1>5. exposed \subseteq cgroups /\ binds \subseteq Sources \cup mountPoints
        /\ (rootfs # Absent => loop[rootfs] # Absent)
    BY DEF HandoffInv, TabletOK
  <1>6. CASE PrepareCgroups(h)
    <2>1. pc[h] = "cgroup" /\ UNCHANGED <<cgroups, residue>>
      BY <1>6 DEF PrepareCgroups
    <2>2. LeftUndone(h) = {}
      BY <2>1, LeftUndoneAt
    <2>3. Begun' = Begun
      BY <1>1, <1>2, <2>1 DEF Begun
    <2>4. Begun' \subseteq residue' \cup LeftUndone(h)'
      BY <1>1, <2>1, <2>2, <2>3, StarterKnows
    <2>5. mountPoints \subseteq mountPoints'
      BY <1>6 DEF PrepareCgroups
    <2>6. TabletOK'
      BY <1>1, <1>5, <2>1, <2>5 DEF TabletOK
    <2>7. CASE NoCgroups /\ Go(h, "controllers") /\ SetCount(h, 1)
      <3>1. pc' = [pc EXCEPT ![h] = "controllers"] /\ count'[h] = 1
        BY <1>1, <2>7, StarterKnows DEF Go, SetCount
      <3>2. Before(ControllerOrder, count'[h]) = {}
        BY <3>1, OrderPositions
      <3>3. ExposesNone
        BY <1>5, <2>7 DEF NoCgroups, ExposesNone
      <3>4. StageOK(h)'
        BY <1>2, <1>4, <3>1, <3>2, <3>3, PlacesOfStarter DEF StageOK
      <3>5. QED
        BY <1>1, <1>2, <1>4, <2>4, <2>6, <3>1, <3>4, StarterStepKeeps
    <2>8. CASE ~NoCgroups /\ Go(h, "root")
      <3>1. pc' = [pc EXCEPT ![h] = "root"]
        BY <2>8 DEF Go
      <3>2. unified \/ cgroups # {}
        BY <2>8 DEF NoCgroups
      <3>3. StageOK(h)'
        BY <1>1, <1>4, <2>1, <3>1, <3>2, PlacesOfStarter DEF StageOK
      <3>4. QED
        BY <1>1, <1>2, <1>4, <2>4, <2>6, <3>1, <3>3, StarterStepKeeps
    <2>9. QED
      BY <1>6, <2>7, <2>8 DEF PrepareCgroups
  <1>7. CASE MountController(h)
    <2>1. pc[h] = "controllers" /\ UNCHANGED mountPoints
      BY <1>7 DEF MountController
    <2>2. ExposesNone /\ Before(ControllerOrder, count[h]) \subseteq cgroups
      BY <2>1 DEF HandoffInv, StageOK
    <2>3. count[h] \in 1 .. Len(ControllerOrder) + 1 /\ cgroups \in SUBSET Controllers
      BY <2>1 DEF HandoffInv, TypeInv, CountsOK, HandoffTypeOK
    <2>4. LeftUndone(h) = {x \in {"controllers"} : cgroups \notin {{}, Controllers}}
      BY <2>1, LeftUndoneAt
    <2>5. Begun \subseteq residue \cup LeftUndone(h)
      BY <1>1, StarterKnows
    <2>6. CASE /\ count[h] \in DOMAIN ControllerOrder
               /\ cgroups' = cgroups \cup {ControllerOrder[count[h]]}
               /\ SetCount(h, count[h] + 1)
               /\ UNCHANGED <<pc, residue>>
      <3>1. count'[h] = count[h] + 1 /\ pc' = [pc EXCEPT ![h] = "controllers"]
        BY <1>1, <2>1, <2>6, StarterKnows DEF SetCount
      <3>2. Before(ControllerOrder, count'[h])
              = Before(ControllerOrder, count[h]) \cup {ControllerOrder[count[h]]}
        BY <2>6, <3>1, OrderPositions
      <3>3. StageOK(h)'
        BY <1>2, <1>4, <2>2, <2>6, <3>1, <3>2, PlacesOfStarter DEF StageOK
      <3>4. Begun' \subseteq Begun \cup {x \in {"controllers"} : cgroups' \notin {{}, Controllers}}
        BY <1>1, <1>2 DEF Begun
      <3>5. LeftUndone(h)' = {x \in {"controllers"} : cgroups' \notin {{}, Controllers}}
        BY <1>4, <3>1, LeftUndoneThen
      <3>6. "controllers" \in Begun' => cgroups' \notin {{}, Controllers}
        <4>1. "controllers" \notin binds
          BY TypesOfMounts, HandoffAssumption DEF HandoffInv, Marks
        <4>2. QED
          BY <1>1, <4>1 DEF Begun
      <3>7. Begun' \subseteq residue' \cup LeftUndone(h)'
        BY <2>4, <2>5, <2>6, <3>4, <3>5, <3>6
      <3>8. TabletOK'
        BY <1>1, <1>5, <2>1, <2>6 DEF TabletOK
      <3>9. QED
        BY <1>1, <1>2, <1>4, <3>1, <3>3, <3>7, <3>8, StarterStepKeeps
    <2>7. CASE Go(h, "failed") /\ residue' = residue \cup LeftUndone(h) /\ UNCHANGED cgroups
      <3>1. pc' = [pc EXCEPT ![h] = "failed"]
        BY <2>7 DEF Go
      <3>2. StageOK(h)'
        BY <1>4, <3>1, PlacesOfStarter DEF StageOK
      <3>3. Begun' = Begun /\ TabletOK'
        BY <1>1, <1>2, <1>5, <2>1, <2>7 DEF Begun, TabletOK
      <3>4. QED
        BY <1>1, <1>2, <1>4, <2>5, <2>7, <3>1, <3>2, <3>3, StarterStepKeeps
    <2>8. CASE count[h] \notin DOMAIN ControllerOrder /\ Go(h, "root") /\ UNCHANGED <<cgroups, residue>>
      <3>1. pc' = [pc EXCEPT ![h] = "root"]
        BY <2>8 DEF Go
      <3>2. count[h] = Len(ControllerOrder) + 1
        BY <2>3, <2>8, OrderFacts
      <3>3. cgroups = Controllers
        BY <2>2, <2>3, <3>2, OrderPositions
      <3>4. StageOK(h)'
        BY <1>4, <2>8, <3>1, <3>3, SomeController, PlacesOfStarter DEF StageOK
      <3>5. LeftUndone(h) = {}
        BY <2>4, <3>3
      <3>6. Begun' = Begun /\ TabletOK'
        BY <1>1, <1>2, <1>5, <2>1, <2>8 DEF Begun, TabletOK
      <3>7. QED
        BY <1>1, <1>2, <1>4, <2>5, <2>8, <3>1, <3>4, <3>5, <3>6, StarterStepKeeps
    <2>9. QED
      BY <1>7, <2>6, <2>7, <2>8 DEF MountController
  <1>8. QED
    BY <1>6, <1>7

LEMMA BeginKeeps ==
    ASSUME HandoffInv, TypeInv', NEW h \in Hosts,
           UNCHANGED <<boot, mode, recoveryVars, argumentVars>>, RunStarter(h)
    PROVE  HandoffInv'
  <1>1. /\ pc[h] = "starter" /\ pc[h] \in InStarter
        /\ UNCHANGED <<unified, exposed, skipPush, tmpImage, mountVars, verified, residue>>
    BY DEF RunStarter, Pass, recoveryVars, argumentVars, tmpVars, InStarter
  <1>2. Alone(h)
    BY <1>1, ActiveIsAlone DEF HandoffInv, HandoffActive
  <1>3. PICK to \in {"cgroup", "failed"} :
           pc' = [pc EXCEPT ![h] = to] /\ (to = "cgroup" => tmpImage # Absent)
    BY DEF RunStarter, Pass, Go
  <1>4. pc'[h] = to
    BY <1>1, <1>3, StarterKnows
  <1>5. ~skipPush[h] => tmpImage \in verified \cup {Absent}
    BY <1>1 DEF HandoffInv, TransferOK
  <1>6. TransferOK(h)'
    BY <1>1, <1>3, <1>4, <1>5 DEF TransferOK
  <1>7. MountOK(h)' /\ StageOK(h)'
    BY <1>4, PlacesOfStarter DEF MountOK, StageOK
  <1>8. LeftUndone(h) = {} /\ LeftUndone(h)' = {}
    BY <1>1, <1>4, LeftUndoneAt, LeftUndoneThen
  <1>9. QED
    BY <1>1, <1>2, <1>3, <1>6, <1>7, <1>8, QuietStepKeeps

\* What is begun, one by one.
LEMMA BegunIs ==
    ASSUME HandoffInv
    PROVE  /\ (binds \ slaved) \cap Marks = {}
           /\ "controllers" \in Begun <=> ExposesNone /\ cgroups \notin {{}, Controllers}
           /\ "loop device" \in Begun <=> \E g \in Hosts : loop[g] # Absent /\ g # rootfs
           /\ "loop record" \in Begun <=> rootfs # Absent /\ loopState # rootfs
           /\ \A x \in Begun : x \in binds \ slaved \/ x \in Marks
           /\ \A x \in binds \ slaved : x \in Begun
  <1>1. (binds \ slaved) \cap Marks = {}
    BY HandoffAssumption DEF HandoffInv, TypeInv, HandoffTypeOK
  <1>2. QED
    BY <1>1 DEF Begun, Marks

LEMMA RootStepsKeep ==
    ASSUME HandoffInv, TypeInv', NEW h \in Hosts,
           UNCHANGED <<boot, mode, recoveryVars, argumentVars>>,
           CheckRoot(h) \/ SetUpLoop(h) \/ MountRoot(h) \/ RecordLoop(h)
    PROVE  HandoffInv'
  <1>1. /\ pc[h] \in {"root", "losetup", "mount", "loopState"} /\ pc[h] \in InStarter
        /\ pc[h] \in AfterControllers
        /\ UNCHANGED <<unified, exposed, skipPush, tmpImage, verified, cgroups, mountPoints, binds, slaved,
                       residue>>
    BY PlacesOfStarter
       DEF CheckRoot, SetUpLoop, MountRoot, RecordLoop, InStarter, recoveryVars, argumentVars, tmpVars, mountVars
  <1>2. /\ Begun \subseteq residue \cup LeftUndone(h)
        /\ TransferOK(h) /\ MountOK(h) /\ StageOK(h) /\ TabletOK /\ MountedIsVerified
        /\ \A to : pc' = [pc EXCEPT ![h] = to] => pc'[h] = to
    BY <1>1, StarterKnows
  <1>3. unified \/ cgroups # {}
    BY <1>1, <1>2 DEF StageOK
  <1>4. ExposesNone' = ExposesNone
    BY <1>1 DEF ExposesNone
  <1>5. Absent \notin Hosts /\ loop \in [Hosts -> Versions \cup {Absent, Damaged}]
    BY HandoffAssumption, TypesOfMounts DEF HandoffInv
  <1>6. CASE CheckRoot(h)
    <2>1. /\ UNCHANGED mountVars /\ pc[h] = "root"
          /\ count'[h] = 1
      <3>1. count' = [count EXCEPT ![h] = 1]
        BY <1>6 DEF CheckRoot, SetCount
      <3>2. QED
        BY <1>1, <1>6, <3>1, StarterKnows DEF CheckRoot
    <2>2. PICK to \in {"binds", "losetup"} :
             pc' = [pc EXCEPT ![h] = to] /\ (to = "binds" <=> rootfs # Absent)
      BY <1>6 DEF CheckRoot, Go, IsRootMounted
    <2>3. pc'[h] = to /\ rootfs' = rootfs
      BY <1>2, <2>1, <2>2 DEF mountVars
    <2>4. TransferOK(h)'
      BY <1>1, <1>2, <2>1, <2>3 DEF TransferOK
    <2>5. MountOK(h)'
      <3>1. pc'[h] = "binds" \/ (pc'[h] = "losetup" /\ pc'[h] \notin AfterRoot)
        BY <2>2, <2>3, PlacesOfStarter
      <3>2. pc'[h] = "binds" <=> rootfs' # Absent
        BY <2>2, <2>3
      <3>3. QED
        BY <3>1, <3>2 DEF MountOK
    <2>6. StageOK(h)'
      BY <1>1, <1>3, <2>1, <2>2, <2>3, OrderPositions, PlacesOfStarter DEF StageOK
    <2>7. LeftUndone(h) = {} /\ LeftUndone(h)' = {}
      BY <2>1, <2>2, <2>3, LeftUndoneAt, LeftUndoneThen
    <2>8. Alone(h)
      BY <1>1, ActiveIsAlone DEF HandoffInv, HandoffActive
    <2>9. QED
      BY <1>1, <2>1, <2>2, <2>4, <2>5, <2>6, <2>7, <2>8, QuietStepKeeps
  <1>7. CASE SetUpLoop(h)
    <2>1. /\ pc[h] = "losetup" /\ UNCHANGED <<rootfs, loopState>>
          /\ pc' = [pc EXCEPT ![h] = "mount"] /\ loop' = [loop EXCEPT ![h] = tmpImage]
      BY <1>7 DEF SetUpLoop, Go
    <2>2. pc'[h] = "mount" /\ loop'[h] = tmpImage /\ \A g \in Hosts \ {h} : loop'[g] = loop[g]
      BY <1>2, <1>5, <2>1
    <2>3. rootfs = Absent /\ tmpImage # Absent /\ (~skipPush[h] => tmpImage \in verified)
      BY <1>2, <2>1 DEF MountOK, TransferOK
    <2>4. LeftUndone(h) = {} /\ LeftUndone(h)' = {"loop device"}
      BY <2>1, <2>2, LeftUndoneAt, LeftUndoneThen
    <2>5. OtherLoop(h)' => "loop device" \in residue'
      <3>1. OtherLoop(h)' => \E g \in Hosts : loop[g] # Absent /\ g # rootfs
        BY <1>5, <2>2, <2>3 DEF OtherLoop
      <3>2. QED
        BY <1>1, <1>2, <2>4, <3>1, BegunIs
    <2>6. Begun' \subseteq Begun \cup {"loop device"}
      BY <1>1, <1>4, <2>1 DEF Begun
    <2>7. Begun' \subseteq residue' \cup LeftUndone(h)'
      BY <1>1, <1>2, <2>4, <2>6
    <2>8. TransferOK(h)' /\ MountOK(h)' /\ StageOK(h)'
      <3>1. TransferOK(h)'
        BY <1>1, <2>2, <2>3 DEF TransferOK
      <3>2. MountOK(h)'
        <4>1. pc'[h] = "mount" /\ pc'[h] \notin AfterRoot /\ rootfs' = Absent /\ loop'[h] # Absent
          BY <2>1, <2>2, <2>3, PlacesOfStarter
        <4>2. QED
          BY <2>5, <4>1 DEF MountOK
      <3>3. StageOK(h)'
        BY <1>1, <1>3, <2>2, PlacesOfStarter DEF StageOK
      <3>4. QED
        BY <3>1, <3>2, <3>3
    <2>9. TabletOK' /\ MountedIsVerified'
      BY <1>1, <1>2, <2>1, <2>3 DEF TabletOK, MountedIsVerified
    <2>10. QED
      BY <1>1, <2>1, <2>7, <2>8, <2>9, StarterStepKeeps
  <1>8. CASE MountRoot(h)
    <2>1. pc[h] = "mount" /\ loopState' = loopState
      BY <1>8 DEF MountRoot
    <2>2. /\ rootfs = Absent /\ loop[h] # Absent
          /\ OtherLoop(h) => "loop device" \in residue
          /\ ~skipPush[h] => loop[h] \in verified
      BY <1>2, <2>1 DEF MountOK, TransferOK
    <2>3. Begun \subseteq residue \cup {"loop device"}
      BY <1>2, <2>1, LeftUndoneAt
    <2>4. /\ binds \ slaved \subseteq residue
          /\ ExposesNone /\ cgroups \notin {{}, Controllers} => "controllers" \in residue
      BY <2>3, BegunIs DEF Marks
    <2>5. CASE rootfs' = h /\ Go(h, "loopState") /\ UNCHANGED loop
      <3>1. pc' = [pc EXCEPT ![h] = "loopState"] /\ pc'[h] = "loopState"
        BY <1>2, <2>5 DEF Go
      <3>2. LeftUndone(h)' = {"loop record"}
        BY <3>1, LeftUndoneThen
      <3>3. (\E g \in Hosts : loop'[g] # Absent /\ g # rootfs') => "loop device" \in residue
        BY <2>2, <2>5 DEF OtherLoop
      <3>4. Begun' \subseteq residue' \cup LeftUndone(h)'
        BY <1>1, <1>4, <2>4, <3>2, <3>3 DEF Begun
      <3>5. TransferOK(h)' /\ MountOK(h)' /\ StageOK(h)'
        <4>1. TransferOK(h)'
          BY <3>1 DEF TransferOK
        <4>2. MountOK(h)'
          <5>1. pc'[h] = "loopState"
            BY <3>1
          <5>2. QED
            BY <5>1, <2>5, PlacesOfStarter DEF MountOK
        <4>3. StageOK(h)'
          BY <1>1, <1>3, <3>1, PlacesOfStarter DEF StageOK
        <4>4. QED
          BY <4>1, <4>2, <4>3
      <3>6. TabletOK' /\ MountedIsVerified'
        BY <1>1, <1>2, <2>2, <2>5 DEF TabletOK, MountedIsVerified
      <3>7. QED
        BY <1>1, <3>1, <3>4, <3>5, <3>6, StarterStepKeeps
    <2>6. CASE loop' = [loop EXCEPT ![h] = Absent] /\ Go(h, "failed") /\ UNCHANGED rootfs
      <3>1. pc' = [pc EXCEPT ![h] = "failed"] /\ pc'[h] = "failed"
        BY <1>2, <2>6 DEF Go
      <3>2. (\E g \in Hosts : loop'[g] # Absent /\ g # rootfs') => "loop device" \in residue
        BY <1>5, <2>2, <2>6 DEF OtherLoop
      <3>3. Begun' \subseteq residue' \cup LeftUndone(h)'
        BY <1>1, <1>4, <2>2, <2>4, <2>6, <3>2 DEF Begun
      <3>4. TransferOK(h)' /\ MountOK(h)' /\ StageOK(h)'
        <4>1. TransferOK(h)'
          BY <3>1 DEF TransferOK
        <4>2. MountOK(h)'
          <5>1. pc'[h] = "failed"
            BY <3>1
          <5>2. QED
            BY <5>1, PlacesOfStarter DEF MountOK
        <4>3. StageOK(h)'
          BY <3>1, PlacesOfStarter DEF StageOK
        <4>4. QED
          BY <4>1, <4>2, <4>3
      <3>5. TabletOK' /\ MountedIsVerified'
        BY <1>1, <1>2, <2>2, <2>6 DEF TabletOK, MountedIsVerified
      <3>6. QED
        BY <1>1, <3>1, <3>3, <3>4, <3>5, StarterStepKeeps
    <2>7. QED
      BY <1>8, <2>5, <2>6 DEF MountRoot
  <1>9. CASE RecordLoop(h)
    <2>1. /\ pc[h] = "loopState" /\ UNCHANGED <<loop, rootfs>> /\ loopState' = h
          /\ pc' = [pc EXCEPT ![h] = "binds"]
          /\ count' = count
      BY <1>9 DEF RecordLoop, Go
    <2>2. pc'[h] = "binds" /\ rootfs = h /\ count'[h] = 1
      BY <1>2, <2>1 DEF MountOK, HandoffInv, TypeInv
    <2>3. Begun \subseteq residue \cup {"loop record"}
      BY <1>2, <2>1, LeftUndoneAt
    <2>4. /\ binds \ slaved \subseteq residue
          /\ ExposesNone /\ cgroups \notin {{}, Controllers} => "controllers" \in residue
          /\ (\E g \in Hosts : loop[g] # Absent /\ g # rootfs) => "loop device" \in residue
      BY <2>3, BegunIs DEF Marks
    <2>5. Begun' \subseteq residue'
      BY <1>1, <1>4, <2>1, <2>2, <2>4 DEF Begun
    <2>6. TransferOK(h)' /\ MountOK(h)'
      BY <1>5, <2>1, <2>2, PlacesOfStarter DEF TransferOK, MountOK
    <2>7. StageOK(h)'
      BY <1>1, <1>3, <2>2, OrderPositions, PlacesOfStarter DEF StageOK
    <2>8. TabletOK' /\ MountedIsVerified'
      BY <1>1, <1>2, <2>1 DEF TabletOK, MountedIsVerified
    <2>9. QED
      BY <1>1, <2>1, <2>5, <2>6, <2>7, <2>8, StarterStepKeeps
  <1>10. QED
    BY <1>6, <1>7, <1>8, <1>9

\* The steps of the two bind loops leave the rest of the tablet alone.
LEMMA BindKnows ==
    ASSUME HandoffInv, NEW h \in Hosts, UNCHANGED <<boot, mode, recoveryVars, argumentVars>>,
           BindSource(h) \/ SlaveSource(h) \/ BindNested(h) \/ SlaveNested(h)
    PROVE  /\ pc[h] \in {"binds", "slave", "nested", "nestedSlave"} /\ pc[h] \in InStarter
           /\ UNCHANGED <<unified, exposed, skipPush, tmpImage, verified, cgroups, mountPoints, loop, rootfs,
                          loopState, residue>>
           /\ Alone(h) /\ TabletOK /\ StageOK(h) /\ TypeInv
           /\ rootfs # Absent /\ (unified \/ cgroups # {})
           /\ count[h] \in Nat /\ ExposesNone' = ExposesNone /\ MountedIsVerified'
           /\ Begun \subseteq residue \cup LeftUndone(h)
           /\ \A to : pc' = [pc EXCEPT ![h] = to] => pc'[h] = to
           /\ \A n : count' = [count EXCEPT ![h] = n] => count'[h] = n
           /\ pc = [pc EXCEPT ![h] = pc[h]]
  <1>1. /\ pc[h] \in {"binds", "slave", "nested", "nestedSlave"} /\ pc[h] \in InStarter
        /\ pc[h] \in AfterControllers /\ pc[h] \in AfterRoot
        /\ UNCHANGED <<unified, exposed, skipPush, tmpImage, verified, cgroups, mountPoints, loop, rootfs,
                       loopState, residue>>
    BY PlacesOfStarter
       DEF BindSource, SlaveSource, BindNested, SlaveNested, InStarter, recoveryVars, argumentVars, tmpVars
  <1>2. Alone(h)
    BY <1>1, ActiveIsAlone DEF HandoffInv, HandoffActive
  <1>3. rootfs # Absent /\ (unified \/ cgroups # {})
    BY <1>1, StarterKnows DEF MountOK, StageOK
  <1>4. ExposesNone' = ExposesNone /\ MountedIsVerified'
    BY <1>1 DEF HandoffInv, MountedIsVerified, ExposesNone
  <1>5. count[h] \in Nat
    BY TypesOfMounts DEF HandoffInv
  <1>6. QED
    BY <1>1, <1>2, <1>3, <1>4, <1>5, StarterKnows

\* A step of the two loops that moves on, with what its new place claims of
\* the binds.
LEMMA BindMoves ==
    ASSUME HandoffInv, TypeInv', NEW h \in Hosts, UNCHANGED <<boot, mode, recoveryVars, argumentVars>>,
           BindSource(h) \/ SlaveSource(h) \/ BindNested(h) \/ SlaveNested(h),
           NEW to \in {"binds", "slave", "nested", "nestedSlave", "sshd"}, pc' = [pc EXCEPT ![h] = to],
           binds \subseteq binds', binds' \subseteq Sources \cup mountPoints,
           to = "binds" => Before(SourceOrder, count'[h]) \subseteq binds',
           to = "slave" => Before(SourceOrder, count'[h] + 1) \subseteq binds',
           to \in AfterSources => Sources \subseteq binds',
           to = "nested" => Before(NestedOrder, count'[h]) \cap mountPoints \subseteq binds',
           to = "nestedSlave" => Before(NestedOrder, count'[h] + 1) \cap mountPoints \subseteq binds'
                                 /\ NestedOrder[count'[h]] \in binds',
           to = "sshd" => mountPoints \subseteq binds',
           binds' \ slaved' \subseteq residue \cup LeftUndone(h)',
           \A x \in Marks : x \in LeftUndone(h) => x \in residue
    PROVE  HandoffInv'
  <1>1. pc'[h] = to
    BY BindKnows
  <1>2. TransferOK(h)' /\ MountOK(h)'
    BY <1>1, BindKnows, PlacesOfStarter DEF TransferOK, MountOK
  <1>3. to \in AfterNested <=> to = "sshd"
    BY PlacesOfStarter
  <1>4. StageOK(h)'
    BY <1>1, <1>3, BindKnows DEF StageOK
  <1>5. TabletOK'
    BY BindKnows DEF TabletOK
  <1>6. Begun' \subseteq residue' \cup LeftUndone(h)'
    <2>1. \A x \in Marks : x \in Begun => x \in residue
      BY BindKnows
    <2>2. ASSUME NEW x \in Begun'
          PROVE  x \in residue' \cup LeftUndone(h)'
      <3>1. x \in binds' \ slaved' \/ (x \in Marks /\ x \in Begun)
        BY BindKnows DEF Begun, Marks
      <3>2. QED
        BY <2>1, <3>1, BindKnows
    <2>3. QED
      BY <2>2
  <1>7. QED
    BY <1>2, <1>4, <1>5, <1>6, BindKnows, StarterStepKeeps

LEMMA SourceStepsKeep ==
    ASSUME HandoffInv, TypeInv', NEW h \in Hosts,
           UNCHANGED <<boot, mode, recoveryVars, argumentVars>>,
           BindSource(h) \/ SlaveSource(h)
    PROVE  HandoffInv'
  <1>1. /\ Begun \subseteq residue \cup LeftUndone(h)
        /\ binds \subseteq Sources \cup mountPoints
        /\ count[h] \in Nat
        /\ \A to : pc' = [pc EXCEPT ![h] = to] => pc'[h] = to
        /\ \A n : count' = [count EXCEPT ![h] = n] => count'[h] = n
        /\ pc = [pc EXCEPT ![h] = pc[h]]
    BY BindKnows DEF TabletOK
  <1>2. \A x \in binds \ slaved : x \in Begun /\ x \notin Marks
    BY BegunIs
  <1>3. CASE BindSource(h)
    <2>1. pc[h] = "binds" /\ slaved' = slaved
      BY <1>3 DEF BindSource
    <2>2. LeftUndone(h) = {}
      BY <2>1, LeftUndoneAt
    <2>3. Before(SourceOrder, count[h]) \subseteq binds /\ count[h] \in 1 .. Len(SourceOrder) + 1
      BY <2>1, BindKnows DEF StageOK, TypeInv, HandoffTypeOK, CountsOK
    <2>4. CASE count[h] \notin DOMAIN SourceOrder /\ Go(h, "nested") /\ SetCount(h, 1) /\ binds' = binds
      <3>1. pc' = [pc EXCEPT ![h] = "nested"] /\ count'[h] = 1
        BY <1>1, <2>4 DEF Go, SetCount
      <3>2. count[h] = Len(SourceOrder) + 1
        BY <2>3, <2>4, OrderFacts
      <3>3. Sources \subseteq binds
        BY <2>3, <3>2, OrderPositions
      <3>4. Before(NestedOrder, count'[h]) = {}
        BY <3>1, OrderPositions
      <3>5. binds' \ slaved' \subseteq residue \cup LeftUndone(h)'
        BY <1>1, <1>2, <2>1, <2>2, <2>4
      <3>6. QED
        BY <1>1, <1>3, <2>2, <2>4, <3>1, <3>3, <3>4, <3>5, BindMoves
    <2>5. CASE /\ count[h] \in DOMAIN SourceOrder /\ SourceOrder[count[h]] \in binds
               /\ SetCount(h, count[h] + 1) /\ binds' = binds /\ pc' = pc
      <3>1. pc' = [pc EXCEPT ![h] = "binds"] /\ count'[h] = count[h] + 1
        BY <1>1, <2>1, <2>5 DEF SetCount
      <3>2. Before(SourceOrder, count'[h]) \subseteq binds'
        BY <2>3, <2>5, <3>1, OrderPositions
      <3>3. binds' \ slaved' \subseteq residue \cup LeftUndone(h)'
        BY <1>1, <1>2, <2>1, <2>2, <2>5
      <3>4. "binds" \notin AfterSources
        BY PlacesOfStarter
      <3>5. QED
        BY <1>1, <1>3, <2>2, <2>5, <3>1, <3>2, <3>3, <3>4, BindMoves
    <2>6. CASE /\ count[h] \in DOMAIN SourceOrder /\ binds' = binds \cup {SourceOrder[count[h]]}
               /\ Go(h, "slave") /\ count' = count
      <3>1. pc' = [pc EXCEPT ![h] = "slave"] /\ pc'[h] = "slave"
        BY <1>1, <2>6 DEF Go
      <3>2. Before(SourceOrder, count'[h] + 1) \subseteq binds'
        BY <2>3, <2>6, OrderPositions
      <3>3. LeftUndone(h)' = {SourceOrder[count[h]]}
        BY <2>6, <3>1, LeftUndoneThen
      <3>4. binds' \ slaved' \subseteq residue \cup LeftUndone(h)'
        BY <1>1, <1>2, <2>1, <2>2, <2>6, <3>3
      <3>5. "slave" \notin AfterSources /\ binds' \subseteq Sources \cup mountPoints
        BY <1>1, <2>6, OrderFacts, PlacesOfStarter
      <3>6. QED
        BY <1>1, <1>3, <2>2, <2>6, <3>1, <3>2, <3>4, <3>5, BindMoves
    <2>7. QED
      BY <1>3, <2>4, <2>5, <2>6 DEF BindSource
  <1>4. CASE SlaveSource(h)
    <2>1. /\ pc[h] = "slave" /\ binds' = binds /\ slaved' = slaved \cup {SourceOrder[count[h]]}
          /\ pc' = [pc EXCEPT ![h] = "binds"] /\ count'[h] = count[h] + 1
      BY <1>1, <1>4 DEF SlaveSource, SlavedWith, SetCount, Go
    <2>2. LeftUndone(h) = {SourceOrder[count[h]]}
      BY <2>1, LeftUndoneAt
    <2>3. Before(SourceOrder, count'[h]) \subseteq binds' /\ count[h] \in DOMAIN SourceOrder
      BY <2>1, BindKnows DEF StageOK, TypeInv, HandoffTypeOK, CountsOK
    <2>4. binds' \ slaved' \subseteq residue
      BY <1>1, <1>2, <2>1, <2>2
    <2>5. \A x \in Marks : x \notin LeftUndone(h)
      BY <2>2, <2>3, OrderFacts, HandoffAssumption
    <2>6. "binds" \notin AfterSources
      BY PlacesOfStarter
    <2>7. QED
      BY <1>1, <1>4, <2>1, <2>3, <2>4, <2>5, <2>6, BindMoves
  <1>5. QED
    BY <1>3, <1>4

LEMMA NestedStepsKeep ==
    ASSUME HandoffInv, TypeInv', NEW h \in Hosts,
           UNCHANGED <<boot, mode, recoveryVars, argumentVars>>,
           BindNested(h) \/ SlaveNested(h)
    PROVE  HandoffInv'
  <1>1. /\ Begun \subseteq residue \cup LeftUndone(h)
        /\ binds \subseteq Sources \cup mountPoints
        /\ count[h] \in Nat
        /\ \A to : pc' = [pc EXCEPT ![h] = to] => pc'[h] = to
        /\ \A n : count' = [count EXCEPT ![h] = n] => count'[h] = n
        /\ pc = [pc EXCEPT ![h] = pc[h]]
    BY BindKnows DEF TabletOK
  <1>2. \A x \in binds \ slaved : x \in Begun /\ x \notin Marks
    BY BegunIs
  <1>3. Sources \subseteq binds
    BY BindKnows, PlacesOfStarter DEF StageOK, BindNested, SlaveNested
  <1>4. CASE BindNested(h)
    <2>1. pc[h] = "nested" /\ slaved' = slaved
      BY <1>4 DEF BindNested
    <2>2. LeftUndone(h) = {}
      BY <2>1, LeftUndoneAt
    <2>3. /\ Before(NestedOrder, count[h]) \cap mountPoints \subseteq binds
          /\ count[h] \in 1 .. Len(NestedOrder) + 1
          /\ mountPoints \subseteq Nested
      BY <2>1, BindKnows DEF StageOK, TypeInv, HandoffTypeOK, CountsOK
    <2>4. CASE count[h] \notin DOMAIN NestedOrder /\ Go(h, "sshd") /\ binds' = binds
      <3>1. pc' = [pc EXCEPT ![h] = "sshd"]
        BY <2>4 DEF Go
      <3>2. count[h] = Len(NestedOrder) + 1
        BY <2>3, <2>4, OrderFacts
      <3>3. mountPoints \subseteq binds
        BY <2>3, <3>2, OrderPositions
      <3>4. binds' \ slaved' \subseteq residue \cup LeftUndone(h)'
        BY <1>1, <1>2, <2>1, <2>2, <2>4
      <3>5. QED
        BY <1>1, <1>3, <1>4, <2>2, <2>4, <3>1, <3>3, <3>4, BindMoves
    <2>5. CASE /\ count[h] \in DOMAIN NestedOrder /\ ~NeedsBind(NestedOrder[count[h]])
               /\ SetCount(h, count[h] + 1) /\ binds' = binds /\ pc' = pc
      <3>1. pc' = [pc EXCEPT ![h] = "nested"] /\ count'[h] = count[h] + 1
        BY <1>1, <2>1, <2>5 DEF SetCount
      <3>2. Before(NestedOrder, count'[h]) \cap mountPoints \subseteq binds'
        BY <2>3, <2>5, <3>1, OrderPositions DEF NeedsBind
      <3>3. binds' \ slaved' \subseteq residue \cup LeftUndone(h)'
        BY <1>1, <1>2, <2>1, <2>2, <2>5
      <3>4. QED
        BY <1>1, <1>3, <1>4, <2>2, <2>5, <3>1, <3>2, <3>3, BindMoves
    <2>6. CASE /\ count[h] \in DOMAIN NestedOrder /\ NeedsBind(NestedOrder[count[h]])
               /\ binds' = binds \cup {NestedOrder[count[h]]}
               /\ Go(h, "nestedSlave") /\ count' = count
      <3>1. pc' = [pc EXCEPT ![h] = "nestedSlave"] /\ pc'[h] = "nestedSlave"
        BY <1>1, <2>6 DEF Go
      <3>2. Before(NestedOrder, count'[h] + 1) \cap mountPoints \subseteq binds'
        BY <2>3, <2>6, OrderPositions
      <3>3. LeftUndone(h)' = {NestedOrder[count[h]]}
        BY <2>6, <3>1, LeftUndoneThen
      <3>4. binds' \ slaved' \subseteq residue \cup LeftUndone(h)'
        BY <1>1, <1>2, <2>1, <2>2, <2>6, <3>3
      <3>5. binds' \subseteq Sources \cup mountPoints
        BY <1>1, <2>6 DEF NeedsBind
      <3>6. NestedOrder[count'[h]] \in binds' /\ binds \subseteq binds' /\ Sources \subseteq binds'
        BY <1>3, <2>6
      <3>7. QED
        BY <1>1, <1>4, <2>2, <3>1, <3>2, <3>4, <3>5, <3>6, BindMoves
    <2>7. QED
      BY <1>4, <2>4, <2>5, <2>6 DEF BindNested
  <1>5. CASE SlaveNested(h)
    <2>1. /\ pc[h] = "nestedSlave" /\ binds' = binds /\ slaved' = slaved \cup {NestedOrder[count[h]]}
          /\ pc' = [pc EXCEPT ![h] = "nested"] /\ count'[h] = count[h] + 1
      BY <1>1, <1>5 DEF SlaveNested, SlavedWith, SetCount, Go
    <2>2. LeftUndone(h) = {NestedOrder[count[h]]}
      BY <2>1, LeftUndoneAt
    <2>3. Before(NestedOrder, count'[h]) \cap mountPoints \subseteq binds' /\ count[h] \in DOMAIN NestedOrder
      BY <2>1, BindKnows DEF StageOK, TypeInv, HandoffTypeOK, CountsOK
    <2>4. binds' \ slaved' \subseteq residue
      BY <1>1, <1>2, <2>1, <2>2
    <2>5. \A x \in Marks : x \notin LeftUndone(h)
      BY <2>2, <2>3, OrderFacts, HandoffAssumption
    <2>6. QED
      BY <1>1, <1>3, <1>5, <2>1, <2>3, <2>4, <2>5, BindMoves
  <1>6. QED
    BY <1>4, <1>5

LEMMA ServiceStepsKeep ==
    ASSUME HandoffInv, TypeInv', NEW h \in Hosts,
           UNCHANGED <<boot, mode, recoveryVars, argumentVars>>,
           StartSshd(h) \/ StartDockerd(h)
    PROVE  HandoffInv'
  <1>1. /\ pc[h] \in {"sshd", "dockerd"} /\ pc[h] \in InStarter
        /\ UNCHANGED <<unified, exposed, skipPush, mountVars, verified, residue>>
    BY DEF StartSshd, StartDockerd, InStarter, recoveryVars, argumentVars
  <1>2. PICK to \in {"dockerd", "failed", "forward"} :
           pc' = [pc EXCEPT ![h] = to] /\ (to = "dockerd" => pc[h] = "sshd")
    BY DEF StartSshd, StartDockerd, Go
  <1>3. pc'[h] = to
    BY <1>1, <1>2, StarterKnows
  <1>4. TransferOK(h)'
    BY <1>2, <1>3 DEF TransferOK
  <1>5. MountOK(h)'
    <2>1. rootfs # Absent /\ rootfs' = rootfs
      BY <1>1, StarterKnows, PlacesOfStarter DEF MountOK, mountVars
    <2>2. QED
      BY <1>2, <1>3, <2>1, PlacesOfStarter DEF MountOK
  <1>6. StageOK(h)'
    <2>1. /\ unified \/ cgroups # {}
          /\ Sources \subseteq binds
          /\ mountPoints \subseteq binds
      BY <1>1, StarterKnows, PlacesOfStarter DEF StageOK
    <2>2. UNCHANGED <<unified, cgroups, binds, mountPoints>>
      BY <1>1 DEF mountVars
    <2>3. QED
      BY <1>2, <1>3, <2>1, <2>2, PlacesOfStarter DEF StageOK
  <1>7. LeftUndone(h) = {} /\ LeftUndone(h)' = {}
    BY <1>1, <1>2, <1>3, LeftUndoneAt, LeftUndoneThen
  <1>8. Alone(h)
    BY <1>1, ActiveIsAlone DEF HandoffInv, HandoffActive
  <1>9. QED
    BY <1>1, <1>2, <1>4, <1>5, <1>6, <1>7, <1>8, QuietStepKeeps

LEMMA RebootKeeps ==
    ASSUME HandoffInv, TypeInv', Reboot
    PROVE  HandoffInv'
  <1>1. \A h \in Hosts : pc'[h] = "failed" \/ (pc'[h] = pc[h] /\ pc[h] \notin InStarter)
    BY DEF Reboot
  <1>2. \A h \in Hosts : pc'[h] \notin InStarter
    BY <1>1 DEF InStarter
  <1>3. OneActive'
    <2>1. \A h \in Hosts : pc'[h] \in HandoffActive => pc[h] \in HandoffActive
      BY <1>1 DEF HandoffActive, InStarter
    <2>2. QED
      BY <2>1 DEF HandoffInv, OneActive
  <1>4. TabletOK' /\ MountedIsVerified'
    BY DEF Reboot, recoveryVars, TabletOK, MountedIsVerified
  <1>5. Begun' = {}
    BY DEF Reboot, recoveryVars, Begun, ExposesNone
  <1>6. ASSUME NEW h \in Hosts
        PROVE  TransferOK(h)' /\ MountOK(h)' /\ StageOK(h)'
    <2>1. tmpImage' = Absent
      BY DEF Reboot
    <2>2. TransferOK(h)'
      BY <1>2, <2>1 DEF TransferOK, InStarter
    <2>3. MountOK(h)' /\ StageOK(h)'
      BY <1>2, PlacesOfStarter DEF MountOK, StageOK, InStarter
    <2>4. QED
      BY <2>2, <2>3
  <1>7. QED
    BY <1>3, <1>4, <1>5, <1>6 DEF HandoffInv, ResidueOK

\* Neither the daemon's fate nor a stutter touches what the invariant reads.
LEMMA QuietStepsKeep ==
    ASSUME HandoffInv, TypeInv', DockerdSettles \/ UNCHANGED handoffVars
    PROVE  HandoffInv'
  <1>1. UNCHANGED <<unified, exposed, tmpImage, mountVars, pc, skipPush, count, verified, residue>>
    BY DEF DockerdSettles, handoffVars, recoveryVars, tmpVars, argumentVars
  <1>2. OneActive' /\ TabletOK' /\ MountedIsVerified' /\ Begun' = Begun
    BY <1>1, SameMounts DEF HandoffInv, OneActive, MountedIsVerified, mountVars
  <1>3. ASSUME NEW h \in Hosts
        PROVE  TransferOK(h)' /\ MountOK(h)' /\ StageOK(h)' /\ LeftUndone(h)' = LeftUndone(h)
    <2>1. TransferOK(h)' /\ MountOK(h)'
      BY <1>1 DEF HandoffInv, TransferOK, MountOK, OtherLoop, mountVars
    <2>2. StageOK(h)'
      BY <1>1 DEF HandoffInv, StageOK, ExposesNone, mountVars
    <2>3. LeftUndone(h)' = LeftUndone(h)
      BY <1>1 DEF LeftUndone, mountVars
    <2>4. QED
      BY <2>1, <2>2, <2>3
  <1>4. ResidueOK'
    BY <1>1, <1>2, <1>3 DEF HandoffInv, ResidueOK
  <1>5. QED
    BY <1>2, <1>3, <1>4 DEF HandoffInv

LEMMA InvStep ==
    ASSUME MaxActive <= 1, HandoffInv, [HandoffNext]_handoffVars
    PROVE  HandoffInv'
  <1>1. TypeInv'
    BY TypeInvStep DEF HandoffInv
  <1>2. ASSUME NEW h \in Hosts, RunStep(h) PROVE HandoffInv'
    BY <1>1, <1>2, TransferStepsKeep, BeginKeeps, CgroupStepsKeep, RootStepsKeep, SourceStepsKeep,
       NestedStepsKeep, ServiceStepsKeep DEF RunStep, HostStep
  <1>3. ASSUME NEW h \in Hosts, RunDies(h) PROVE HandoffInv'
    BY <1>1, <1>3, StopsKeep DEF RunDies
  <1>4. CASE Reboot
    BY <1>1, <1>4, RebootKeeps
  <1>5. CASE DockerdSettles \/ UNCHANGED handoffVars
    BY <1>1, <1>5, QuietStepsKeep
  <1>6. QED
    BY <1>2, <1>3, <1>4, <1>5 DEF HandoffNext

THEOREM HandoffInvHolds ==
    ASSUME MaxActive <= 1
    PROVE  HandoffSpec => []HandoffInv
  <1>1. HandoffInv /\ [HandoffNext]_handoffVars => HandoffInv'
    BY InvStep
  <1>2. QED
    BY InvInit, <1>1, PTL DEF HandoffSpec
-----------------------------------------------------------------------------
\* With runs that follow each other, however they end and whatever the tablet
\* goes through between them: a root that is mounted holds an image some run
\* has verified there, unless the run that mounted it skipped the transfer.
THEOREM OnlyVerifiedIsMounted ==
    ASSUME MaxActive <= 1
    PROVE  HandoffSpec => []MountedIsVerified
  <1>1. HandoffInv => MountedIsVerified
    BY DEF HandoffInv
  <1>2. QED
    BY HandoffInvHolds, <1>1, PTL

\* With runs that follow each other, and wherever those before it on this boot
\* were cut off: a run enters the chroot with the root mounted and everything
\* bound, and lacks at most what one of them was cut off at in the very step
\* that makes it.
THEOREM ChrootIsEnteredComplete ==
    ASSUME MaxActive <= 1
    PROVE  HandoffSpec => []ChrootFindsRootComplete
  <1>1. HandoffInv => ChrootFindsRootComplete
    <2> SUFFICES ASSUME HandoffInv, NEW h \in Hosts, pc[h] = "sshd"
                 PROVE  RootBound /\ Unfinished \subseteq residue
      BY DEF ChrootFindsRootComplete
    <2>1. pc[h] \in InStarter
      BY DEF InStarter
    <2>2. /\ Begun \subseteq residue
          /\ TabletOK
          /\ rootfs # Absent
          /\ Sources \subseteq binds /\ mountPoints \subseteq binds
          /\ unified \/ cgroups # {}
      <3>1. LeftUndone(h) = {}
        BY LeftUndoneAt
      <3>2. QED
        BY <2>1, <3>1, StarterKnows, PlacesOfStarter DEF MountOK, StageOK
    <2>3. RootBound
      BY <2>2 DEF RootBound, TabletOK
    <2>4. Unfinished \subseteq Begun
      <3>1. rootfs \in Hosts
        BY <2>2, TypesOfMounts DEF HandoffInv
      <3>2. {g \in Hosts : loop[g] # Absent} # {rootfs} => \E g \in Hosts : loop[g] # Absent /\ g # rootfs
        BY <2>2, <3>1 DEF TabletOK
      <3>3. QED
        BY <2>2, <3>2 DEF Unfinished, Begun, ExposesNone
    <2>5. QED
      BY <2>2, <2>3, <2>4
  <1>2. QED
    BY HandoffInvHolds, <1>1, PTL

\* A step of a starter that finds the root complete.
LEMMA StarterChangesNothing ==
    ASSUME HandoffInv, RootComplete, NEW h \in Hosts, HostStep(h)
    PROVE  UNCHANGED mountVars
  <1>1. /\ rootfs # Absent /\ loopState = rootfs
        /\ binds = Sources \cup mountPoints /\ binds \subseteq slaved
        /\ ExposesNone => cgroups = Controllers
        /\ mountPoints \subseteq Nested
    <2>1. \A x : x \notin Unfinished
      BY DEF RootComplete
    <2>2. binds \subseteq slaved
      BY <2>1 DEF Unfinished
    <2>3. loopState = rootfs /\ (ExposesNone => cgroups = Controllers)
      BY <2>1 DEF Unfinished
    <2>4. mountPoints \subseteq Nested
      BY TypesOfMounts DEF HandoffInv
    <2>5. QED
      BY <2>2, <2>3, <2>4 DEF RootComplete, RootBound
  <1>2. CASE \/ CheckTablet(h) \/ AdbFails(h) \/ PushImage(h) \/ FinishPush(h) \/ VerifyPush(h)
             \/ PushStarter(h) \/ RunStarter(h) \/ CheckRoot(h) \/ StartSshd(h) \/ StartDockerd(h)
             \/ Forward(h) \/ HealthCheck(h)
    BY <1>2 DEF CheckTablet, AdbFails, PushImage, FinishPush, VerifyPush, PushStarter, RunStarter, Pass,
                CheckRoot, StartSshd, StartDockerd, Forward, HealthCheck
  <1>3. CASE PrepareCgroups(h)
    <2>1. ~NoCgroups
      <3>1. NoCgroups => ExposesNone /\ cgroups = {}
        BY DEF NoCgroups, ExposesNone, HandoffInv, TabletOK
      <3>2. QED
        BY <1>1, <3>1, SomeController
    <2>2. QED
      BY <1>3, <2>1 DEF PrepareCgroups, mountVars
  <1>4. CASE MountController(h)
    <2>1. cgroups = Controllers
      BY <1>1, <1>4 DEF MountController, HandoffInv, StageOK
    <2>2. cgroups' = cgroups
      BY <1>4, <2>1, OrderFacts DEF MountController
    <2>3. QED
      BY <1>4, <2>2 DEF MountController, mountVars
  <1>5. CASE SetUpLoop(h) \/ MountRoot(h)
    BY <1>1, <1>5 DEF SetUpLoop, MountRoot, HandoffInv, MountOK
  <1>6. CASE RecordLoop(h)
    BY <1>1, <1>6 DEF RecordLoop, HandoffInv, MountOK, mountVars
  <1>7. CASE BindSource(h)
    <2>1. binds' = binds
      BY <1>1, <1>7, OrderFacts DEF BindSource
    <2>2. QED
      BY <1>7, <2>1 DEF BindSource, mountVars
  <1>8. CASE SlaveSource(h)
    <2>1. SourceOrder[count[h]] \in Sources
      BY <1>8, OrderFacts DEF SlaveSource, HandoffInv, TypeInv, HandoffTypeOK, CountsOK
    <2>2. slaved' = slaved
      BY <1>1, <1>8, <2>1 DEF SlaveSource, SlavedWith
    <2>3. QED
      BY <1>8, <2>2 DEF SlaveSource, mountVars
  <1>9. CASE BindNested(h)
    <2>1. \A x : ~NeedsBind(x)
      BY <1>1 DEF NeedsBind
    <2>2. binds' = binds
      BY <1>9, <2>1 DEF BindNested
    <2>3. QED
      BY <1>9, <2>2 DEF BindNested, mountVars
  <1>10. CASE SlaveNested(h)
    <2>1. NestedOrder[count[h]] \in binds
      BY <1>10 DEF SlaveNested, HandoffInv, StageOK
    <2>2. slaved' = slaved
      BY <1>1, <1>10, <2>1 DEF SlaveNested, SlavedWith
    <2>3. QED
      BY <1>10, <2>2 DEF SlaveNested, mountVars
  <1>11. QED
    BY <1>2, <1>3, <1>4, <1>5, <1>6, <1>7, <1>8, <1>9, <1>10 DEF HostStep

\* With runs that follow each other, whatever happened to them before: a run
\* on a complete root, to the end or cut off anywhere, changes no mount.
THEOREM RerunsChangeNothing ==
    ASSUME MaxActive <= 1
    PROVE  HandoffSpec => RerunChangesNothing
  <1>1. HandoffInv /\ [HandoffNext]_handoffVars =>
          [RootComplete /\ boot' = boot => UNCHANGED mountVars]_handoffVars
    <2> SUFFICES ASSUME HandoffInv, HandoffNext, RootComplete, boot' = boot
                 PROVE  UNCHANGED mountVars
      OBVIOUS
    <2>1. ASSUME NEW h \in Hosts, RunStep(h) PROVE UNCHANGED mountVars
      BY <2>1, StarterChangesNothing DEF RunStep
    <2>2. ASSUME NEW h \in Hosts, RunDies(h) PROVE UNCHANGED mountVars
      BY <2>2 DEF RunDies, HostDies
    <2>3. CASE DockerdSettles
      BY <2>3 DEF DockerdSettles
    <2>4. CASE Reboot
      <3>1. boot \in Nat
        BY OrderFacts DEF HandoffInv, TypeInv, HandoffTypeOK
      <3>2. QED
        BY <2>4, <3>1 DEF Reboot
    <2>5. QED
      BY <2>1, <2>2, <2>3, <2>4 DEF HandoffNext
  <1>2. QED
    BY HandoffInvHolds, <1>1, PTL DEF HandoffSpec, RerunChangesNothing
=============================================================================
