-------------------------- MODULE RecoveryHandoff --------------------------
(***************************************************************************)
(* scripts/start-recovery-linux.ps1 on the host, and what it starts on the *)
(* tablet: scripts/rt7-recovery-linux-start.sh, then                       *)
(* rootfs/bin/rt7-chroot-start inside the mounted Debian image.            *)
(*                                                                         *)
(* A run of the host script is followed from its checks to the health      *)
(* check; the starter is an adb shell command of it and dies with it.  The *)
(* tablet keeps what a dead run has mounted until it reboots, and the next *)
(* run starts on top of that.                                              *)
(***************************************************************************)
EXTENDS Naturals, FiniteSets, Sequences

CONSTANTS
    Hosts,            \* runs of the host script
    Versions,         \* contents of the ext4 image on the host
    ControllerOrder,  \* the cgroup-v1 controllers the starter mounts, in order
    Required,         \* those without which dockerd does not come up
    SourceOrder,      \* /dev, /proc, /sys: what the starter binds into the root
    NestedOrder,      \* /dev/pts, /sys/fs/cgroup: mounts below these, bound after them
    CgroupMount,      \* /sys/fs/cgroup
    MaxAttempts,      \* health-check attempts
    MaxBoots,         \* bound: how often the tablet reboots
    MaxActive,        \* bound: runs the operator has going at once
    Absent,           \* no file, no loop device, no mount
    Damaged           \* an image file that is incomplete or corrupt

Controllers == {ControllerOrder[i] : i \in DOMAIN ControllerOrder}

Sources == {SourceOrder[i] : i \in DOMAIN SourceOrder}

Nested == {NestedOrder[i] : i \in DOMAIN NestedOrder}

Binds == Sources \cup Nested

\* What else, besides a bind, a starter may leave unfinished.
Marks == {"controllers", "loop device", "loop record"}

ASSUME HandoffAssumption ==
    /\ IsFiniteSet(Hosts)
    /\ ControllerOrder \in Seq(Controllers)
    /\ ControllerOrder # <<>>
    /\ SourceOrder \in Seq(Sources)
    /\ NestedOrder \in Seq(Nested)
    /\ Required \subseteq Controllers
    /\ CgroupMount \in Nested
    /\ MaxAttempts \in Nat \ {0}
    /\ {MaxBoots, MaxActive} \subseteq Nat
    /\ {Absent, Damaged} \cap Versions = {}
    /\ Absent \notin Hosts
    /\ Binds \cap Marks = {}

VARIABLES
    \* the tablet
    boot,        \* how often it has rebooted
    mode,        \* ro.bootmode: "recovery" or another
    unified,     \* whether recovery's init mounts a cgroup2 hierarchy
    exposed,     \* the cgroup-v1 controllers it mounts, anywhere
    ownPoints,   \* which of the nested sources it makes mount points
    tmpImage,    \* /tmp/rt7-debian-recovery-test.ext4
    tmpStarter,  \* whether /tmp holds the starter
    cgroups,     \* cgroup-v1 controllers that are mounted
    mountPoints, \* nested sources that are mount points
    loop,        \* loop[h]: the image behind the loop device run h set up, or Absent
    rootfs,      \* the run whose loop device is mounted as the root, or Absent
    loopState,   \* the run that wrote /tmp/rt7-debian.loop, or Absent
    binds,       \* directories bound into the root
    slaved,      \* those whose propagation was made rslave
    sshd,        \* whether sshd runs
    dockerd,     \* "down", "starting" (no pid file yet) or "up"
    \* the host
    pc,          \* what each run does next
    imageOf,     \* the image it transfers
    skipPush,    \* -SkipPush
    count,       \* position in the controller or source order, or attempts made
    \* histories of the current boot
    verified,    \* images a run has verified on the tablet
    residue      \* what starters that stopped had begun and not finished

mountVars == <<cgroups, mountPoints, loop, rootfs, loopState, binds, slaved>>

recoveryVars == <<unified, exposed, ownPoints>>

tmpVars == <<tmpImage, tmpStarter>>

daemonVars == <<sshd, dockerd>>

argumentVars == <<imageOf, skipPush>>

handoffVars == <<boot, mode, recoveryVars, tmpVars, mountVars, daemonVars,
                 pc, argumentVars, count, verified, residue>>

\* Control points inside the adb shell command that runs the starter.
InStarter == {"starter", "cgroup", "controllers", "root", "losetup", "mount",
              "loopState", "binds", "slave", "nested", "nestedSlave", "sshd", "dockerd"}

HandoffActive == InStarter \cup {"push", "pushing", "verify", "pushStarter", "forward", "health"}

HandoffFinished == {"refused", "failed", "dead", "ready"}

Fresh ==
    /\ tmpImage = Absent /\ tmpStarter = FALSE
    /\ cgroups = exposed /\ mountPoints = ownPoints
    /\ loop = [h \in Hosts |-> Absent] /\ rootfs = Absent /\ loopState = Absent
    /\ binds = {} /\ slaved = {}
    /\ sshd = FALSE /\ dockerd = "down"
    /\ verified = {} /\ residue = {}

HandoffInit ==
    /\ boot = 0
    /\ mode \in {"recovery", "other"}
    /\ unified \in BOOLEAN
    /\ exposed \in SUBSET Controllers
    /\ ownPoints \in SUBSET Nested
    /\ unified => CgroupMount \in ownPoints
    /\ Fresh
    /\ pc = [h \in Hosts |-> "start"]
    /\ imageOf \in [Hosts -> Versions]
    /\ skipPush \in [Hosts -> BOOLEAN]
    /\ count = [h \in Hosts |-> 0]
-----------------------------------------------------------------------------
Go(h, to) == pc' = [pc EXCEPT ![h] = to]

SetCount(h, n) == count' = [count EXCEPT ![h] = n]

\* Any step of run h that only moves on.
Pass(h, from, to) ==
    /\ pc[h] = from
    /\ Go(h, to)
    /\ UNCHANGED <<tmpVars, mountVars, daemonVars, count, verified, residue>>

\* Files, adb container, recovery mode and hardware are checked.
CheckTablet(h) ==
    /\ Cardinality({g \in Hosts : pc[g] \in HandoffActive}) < MaxActive
    /\ \/ /\ mode = "recovery"
          /\ Pass(h, "start", IF skipPush[h] THEN "starter" ELSE "push")
       \/ Pass(h, "start", "refused")

\* A tablet that has meanwhile left recovery has no /tmp to push to.
AdbFails(h) ==
    /\ mode # "recovery"
    /\ \E from \in {"push", "pushing", "pushStarter"} : Pass(h, from, "failed")

\* adb push unlinks the file there is and writes a new one.
PushImage(h) ==
    /\ pc[h] = "push"
    /\ mode = "recovery"
    /\ tmpImage' = Damaged
    /\ Go(h, "pushing")
    /\ UNCHANGED <<tmpStarter, mountVars, daemonVars, count, verified, residue>>

FinishPush(h) ==
    /\ pc[h] = "pushing"
    /\ mode = "recovery"
    /\ tmpImage' \in {imageOf[h], Damaged}
    /\ Go(h, "verify")
    /\ UNCHANGED <<tmpStarter, mountVars, daemonVars, count, verified, residue>>

\* Slip: that sha256sum runs is enough.
HashMatchesMutant(h) == tmpImage # Absent

\* sha256sum on the tablet prints the host's hash.
HashMatches(h) == tmpImage = imageOf[h]

VerifyPush(h) ==
    /\ pc[h] = "verify"
    /\ \/ /\ HashMatches(h)
          /\ verified' = verified \cup {imageOf[h]}
          /\ Go(h, "pushStarter")
       \/ /\ ~HashMatches(h)
          /\ Go(h, "failed")
          /\ UNCHANGED verified
    /\ UNCHANGED <<tmpVars, mountVars, daemonVars, count, residue>>

PushStarter(h) ==
    /\ pc[h] = "pushStarter"
    /\ mode = "recovery"
    /\ tmpStarter' = TRUE
    /\ Go(h, "starter")
    /\ UNCHANGED <<tmpImage, mountVars, daemonVars, count, verified, residue>>
-----------------------------------------------------------------------------
\* The starter.  A failing command ends it (set -e), and the host script with it.

\* It is there, runs as root (recovery only), and finds the image.
RunStarter(h) ==
    \/ /\ tmpStarter /\ tmpImage # Absent /\ mode = "recovery"
       /\ Pass(h, "starter", "cgroup")
    \/ /\ ~(tmpStarter /\ tmpImage # Absent /\ mode = "recovery")
       /\ Pass(h, "starter", "failed")

\* What a starter that stops here has begun and not finished, and no later one
\* looks for.
LeftUndone(h) ==
    CASE pc[h] = "controllers" /\ cgroups \notin {{}, Controllers} -> {"controllers"}
      [] pc[h] = "mount" -> {"loop device"}
      [] pc[h] = "loopState" -> {"loop record"}
      [] pc[h] = "slave" -> {SourceOrder[count[h]]}
      [] pc[h] = "nestedSlave" -> {NestedOrder[count[h]]}
      [] OTHER -> {}

\* No cgroup2 controllers file and no cgroup mount of any kind, anywhere.
NoCgroups == ~unified /\ cgroups = {}

\* mount -t tmpfs on /sys/fs/cgroup, if there is no hierarchy at all.
PrepareCgroups(h) ==
    /\ pc[h] = "cgroup"
    /\ \/ /\ NoCgroups
          /\ mountPoints' = mountPoints \cup {CgroupMount}
          /\ Go(h, "controllers")
          /\ SetCount(h, 1)
       \/ /\ ~NoCgroups
          /\ Go(h, "root")
          /\ UNCHANGED <<mountPoints, count>>
    /\ UNCHANGED <<tmpVars, cgroups, loop, rootfs, loopState, binds, slaved, daemonVars, verified, residue>>

\* One controller of the loop; the mount fails if the kernel does not have it.
MountController(h) ==
    /\ pc[h] = "controllers"
    /\ \/ /\ count[h] \in DOMAIN ControllerOrder
          /\ cgroups' = cgroups \cup {ControllerOrder[count[h]]}
          /\ SetCount(h, count[h] + 1)
          /\ UNCHANGED <<pc, residue>>
       \/ /\ count[h] \in DOMAIN ControllerOrder
          /\ Go(h, "failed")
          /\ residue' = residue \cup LeftUndone(h)
          /\ UNCHANGED <<cgroups, count>>
       \/ /\ count[h] \notin DOMAIN ControllerOrder
          /\ Go(h, "root")
          /\ UNCHANGED <<cgroups, count, residue>>
    /\ UNCHANGED <<tmpVars, mountPoints, loop, rootfs, loopState, binds, slaved, daemonVars, verified>>

\* Slip: the record of the loop device is taken for the mount.
IsRootMountedByRecord == loopState # Absent

\* Slip: the root is mounted whether or not it is a mount point.
IsRootMountedMutant == FALSE

\* mountpoint -q "$root"
IsRootMounted == rootfs # Absent

CheckRoot(h) ==
    /\ pc[h] = "root"
    /\ Go(h, IF IsRootMounted THEN "binds" ELSE "losetup")
    /\ SetCount(h, 1)
    /\ UNCHANGED <<tmpVars, mountVars, daemonVars, verified, residue>>

SetUpLoop(h) ==
    /\ pc[h] = "losetup"
    /\ loop' = [loop EXCEPT ![h] = tmpImage]
    /\ Go(h, "mount")
    /\ UNCHANGED <<tmpVars, cgroups, mountPoints, rootfs, loopState, binds, slaved, daemonVars, count, verified, residue>>

\* mount of the loop device; when it fails the device is detached again.
MountRoot(h) ==
    /\ pc[h] = "mount"
    /\ \/ /\ rootfs' = h
          /\ Go(h, "loopState")
          /\ UNCHANGED loop
       \/ /\ loop' = [loop EXCEPT ![h] = Absent]
          /\ Go(h, "failed")
          /\ UNCHANGED rootfs
    /\ UNCHANGED <<tmpVars, cgroups, mountPoints, loopState, binds, slaved, daemonVars, count, verified, residue>>

RecordLoop(h) ==
    /\ pc[h] = "loopState"
    /\ loopState' = h
    /\ Go(h, "binds")
    /\ UNCHANGED <<tmpVars, cgroups, mountPoints, loop, rootfs, binds, slaved, daemonVars, count, verified, residue>>

\* mount --rbind of the next source, unless its target is a mount point.
BindSource(h) ==
    /\ pc[h] = "binds"
    /\ \/ /\ count[h] \notin DOMAIN SourceOrder
          /\ Go(h, "nested")
          /\ SetCount(h, 1)
          /\ UNCHANGED binds
       \/ /\ count[h] \in DOMAIN SourceOrder
          /\ SourceOrder[count[h]] \in binds
          /\ SetCount(h, count[h] + 1)
          /\ UNCHANGED <<binds, pc>>
       \/ /\ count[h] \in DOMAIN SourceOrder
          /\ SourceOrder[count[h]] \notin binds
          /\ binds' = binds \cup {SourceOrder[count[h]]}
          /\ Go(h, "slave")
          /\ UNCHANGED count
    /\ UNCHANGED <<tmpVars, cgroups, mountPoints, loop, rootfs, loopState, slaved, daemonVars, verified, residue>>

\* Slip: rslave is forgotten for what was bound first.
SlavedWithMutant(source) == slaved \cup ({source} \ {SourceOrder[1]})

\* mount -o rslave none "$target"
SlavedWith(source) == slaved \cup {source}

SlaveSource(h) ==
    /\ pc[h] = "slave"
    /\ slaved' = SlavedWith(SourceOrder[count[h]])
    /\ SetCount(h, count[h] + 1)
    /\ Go(h, "binds")
    /\ UNCHANGED <<tmpVars, cgroups, mountPoints, loop, rootfs, loopState, binds, daemonVars, verified, residue>>

\* A nested source is bound if it is a mount point and its target is not one:
\* the bind of the directory above has not carried it along.
NeedsBind(source) == source \in mountPoints /\ source \notin binds

BindNested(h) ==
    /\ pc[h] = "nested"
    /\ \/ /\ count[h] \notin DOMAIN NestedOrder
          /\ Go(h, "sshd")
          /\ UNCHANGED <<binds, count>>
       \/ /\ count[h] \in DOMAIN NestedOrder
          /\ ~NeedsBind(NestedOrder[count[h]])
          /\ SetCount(h, count[h] + 1)
          /\ UNCHANGED <<binds, pc>>
       \/ /\ count[h] \in DOMAIN NestedOrder
          /\ NeedsBind(NestedOrder[count[h]])
          /\ binds' = binds \cup {NestedOrder[count[h]]}
          /\ Go(h, "nestedSlave")
          /\ UNCHANGED count
    /\ UNCHANGED <<tmpVars, cgroups, mountPoints, loop, rootfs, loopState, slaved, daemonVars, verified, residue>>

SlaveNested(h) ==
    /\ pc[h] = "nestedSlave"
    /\ slaved' = SlavedWith(NestedOrder[count[h]])
    /\ SetCount(h, count[h] + 1)
    /\ Go(h, "nested")
    /\ UNCHANGED <<tmpVars, cgroups, mountPoints, loop, rootfs, loopState, binds, daemonVars, verified, residue>>

\* rt7-chroot-start up to sshd: mounts, keys and configuration are checked.
StartSshd(h) ==
    /\ pc[h] = "sshd"
    /\ \/ /\ Sources \subseteq binds
          /\ sshd' = TRUE
          /\ Go(h, "dockerd")
       \/ /\ Go(h, "failed")
          /\ UNCHANGED sshd
    /\ UNCHANGED <<tmpVars, mountVars, dockerd, count, verified, residue>>

\* dockerd is launched in the background unless its pid file names a process.
StartDockerd(h) ==
    /\ pc[h] = "dockerd"
    /\ dockerd' = IF dockerd = "up" THEN "up" ELSE "starting"
    /\ Go(h, "forward")
    /\ UNCHANGED <<tmpVars, mountVars, sshd, count, verified, residue>>
-----------------------------------------------------------------------------
Forward(h) ==
    /\ pc[h] = "forward"
    /\ SetCount(h, 1)
    /\ Go(h, "health")
    /\ UNCHANGED <<tmpVars, mountVars, daemonVars, verified, residue>>

\* Slip: the attempt is not counted.
NextAttemptMutant(h) == count[h]

NextAttempt(h) == count[h] + 1

\* Slip: one attempt too many.
MoreAttemptsMutant(h) == count[h] <= MaxAttempts

\* $attempt -le 30, before the next one
MoreAttempts(h) == count[h] < MaxAttempts

\* rt7-healthcheck over ssh: docker info answers.  An attempt may fail although
\* everything is up: it was not in time.
HealthCheck(h) ==
    /\ pc[h] = "health"
    /\ \/ /\ sshd /\ dockerd = "up"
          /\ Go(h, "ready")
          /\ UNCHANGED count
       \/ /\ MoreAttempts(h)
          /\ SetCount(h, NextAttempt(h))
          /\ UNCHANGED pc
       \/ /\ ~MoreAttempts(h)
          /\ Go(h, "failed")
          /\ UNCHANGED count
    /\ UNCHANGED <<tmpVars, mountVars, daemonVars, verified, residue>>

\* An adb command fails, or the operator stops the script.
HostDies(h) ==
    /\ pc[h] \in HandoffActive
    /\ Go(h, "dead")
    /\ residue' = residue \cup LeftUndone(h)
    /\ UNCHANGED <<tmpVars, mountVars, daemonVars, count, verified>>

\* The pid file appears, or the daemon gives up (external).  It only sees a
\* hierarchy that was bound into the root.
DockerdSettles ==
    /\ dockerd = "starting"
    /\ \/ /\ CgroupMount \in binds
          /\ unified \/ Required \subseteq cgroups
          /\ dockerd' = "up"
       \/ dockerd' = "down"
    /\ UNCHANGED <<boot, mode, recoveryVars, tmpVars, mountVars, sshd, pc, argumentVars, count, verified, residue>>

\* Everything the handoff made lives in RAM and is gone.
Reboot ==
    /\ boot < MaxBoots
    /\ boot' = boot + 1
    /\ mode' \in {"recovery", "other"}
    /\ tmpImage' = Absent /\ tmpStarter' = FALSE
    /\ cgroups' = exposed /\ mountPoints' = ownPoints
    /\ loop' = [h \in Hosts |-> Absent] /\ rootfs' = Absent /\ loopState' = Absent
    /\ binds' = {} /\ slaved' = {}
    /\ sshd' = FALSE /\ dockerd' = "down"
    /\ verified' = {} /\ residue' = {}
    /\ pc' = [h \in Hosts |-> IF pc[h] \in InStarter THEN "failed" ELSE pc[h]]
    /\ UNCHANGED <<recoveryVars, argumentVars, count>>
-----------------------------------------------------------------------------
HostStep(h) ==
    \/ CheckTablet(h)
    \/ AdbFails(h)
    \/ PushImage(h)
    \/ FinishPush(h)
    \/ VerifyPush(h)
    \/ PushStarter(h)
    \/ RunStarter(h)
    \/ PrepareCgroups(h)
    \/ MountController(h)
    \/ CheckRoot(h)
    \/ SetUpLoop(h)
    \/ MountRoot(h)
    \/ RecordLoop(h)
    \/ BindSource(h)
    \/ SlaveSource(h)
    \/ BindNested(h)
    \/ SlaveNested(h)
    \/ StartSshd(h)
    \/ StartDockerd(h)
    \/ Forward(h)
    \/ HealthCheck(h)

RunStep(h) ==
    /\ HostStep(h)
    /\ UNCHANGED <<boot, mode, recoveryVars, argumentVars>>

RunDies(h) ==
    /\ HostDies(h)
    /\ UNCHANGED <<boot, mode, recoveryVars, argumentVars>>

HandoffNext == (\E h \in Hosts : RunStep(h) \/ RunDies(h)) \/ DockerdSettles \/ Reboot

HandoffSpec == HandoffInit /\ [][HandoffNext]_handoffVars
-----------------------------------------------------------------------------
\* Where the counters of the three loops and of the health check stand.
CountsOK ==
    \A h \in Hosts :
        /\ pc[h] = "controllers" => count[h] \in 1 .. Len(ControllerOrder) + 1
        /\ pc[h] = "binds" => count[h] \in 1 .. Len(SourceOrder) + 1
        /\ pc[h] = "slave" => count[h] \in DOMAIN SourceOrder
        /\ pc[h] = "nested" => count[h] \in 1 .. Len(NestedOrder) + 1
        /\ pc[h] = "nestedSlave" => count[h] \in DOMAIN NestedOrder
        /\ pc[h] = "health" => count[h] \in 1 .. MaxAttempts

\* The types, and each counter within its loop: the health check is tried
\* MaxAttempts times at most, and no position lies outside its list.
HandoffTypeOK ==
    /\ boot \in 0 .. MaxBoots
    /\ mode \in {"recovery", "other"}
    /\ {unified, tmpStarter, sshd} \subseteq BOOLEAN
    /\ {exposed, cgroups} \subseteq SUBSET Controllers
    /\ {ownPoints, mountPoints} \subseteq SUBSET Nested
    /\ tmpImage \in Versions \cup {Absent, Damaged}
    /\ loop \in [Hosts -> Versions \cup {Absent, Damaged}]
    /\ {rootfs, loopState} \subseteq Hosts \cup {Absent}
    /\ {binds, slaved} \subseteq SUBSET Binds
    /\ dockerd \in {"down", "starting", "up"}
    /\ pc \in [Hosts -> HandoffActive \cup HandoffFinished \cup {"start"}]
    /\ imageOf \in [Hosts -> Versions]
    /\ skipPush \in [Hosts -> BOOLEAN]
    /\ count \in [Hosts -> Nat]
    /\ verified \in SUBSET Versions
    /\ residue \subseteq Binds \cup Marks
    /\ CountsOK

ExposesNone == ~unified /\ exposed = {}

\* What there is of the root that is not as the starter is there to make it:
\* every bind a slave; where recovery exposes no hierarchy, all the controllers;
\* one loop device, which is the mounted one; and the record of it.
Unfinished ==
    (binds \ slaved)
    \cup {x \in {"controllers"} : ExposesNone /\ cgroups # Controllers}
    \cup {x \in {"loop device"} : {h \in Hosts : loop[h] # Absent} # {rootfs}}
    \cup {x \in {"loop record"} : loopState # rootfs}

\* The root is mounted, and every source that is there is bound into it.
RootBound == rootfs # Absent /\ binds = Sources \cup mountPoints

\* Whatever became of the runs before it, a run enters the chroot with the root
\* mounted and every source bound, nested ones included; and nothing else is
\* missing but what a starter on this boot was cut off at in the very step
\* that makes it: an rslave, the record, a loop device that was set up and not
\* mounted, or the controllers after the one it had come to.  That last one
\* is no small thing: line 27 takes the part for the whole hierarchy.
ChrootFindsRootComplete ==
    \A h \in Hosts : pc[h] = "sshd" => RootBound /\ Unfinished \subseteq residue

RootComplete == RootBound /\ Unfinished = {}

\* The starter is idempotent: another run on a complete root, to the end or cut
\* off anywhere, mounts nothing, binds nothing and takes no loop device.
RerunChangesNothing ==
    [][RootComplete /\ boot' = boot => UNCHANGED mountVars]_handoffVars

\* Only an image some run has verified on the tablet is mounted, unless that
\* run was told to skip the transfer: damaged and interrupted transfers of
\* this or an earlier run never get there.
MountedIsVerified ==
    rootfs # Absent => skipPush[rootfs] \/ loop[rootfs] \in verified

\* Every run comes to an end: with a verdict of the health check after a
\* bounded number of attempts, or with an error.  Each run keeps running.
HandoffFairSpec == HandoffSpec /\ \A h \in Hosts : WF_handoffVars(RunStep(h))

EveryRunEnds == \A h \in Hosts : <>(pc[h] \in HandoffFinished)

\* docs/recovery-linux.md:12-16: the run transfers an image, validates it and
\* starts it; so what it reports ready is that image.
ReadyRunsItsImage ==
    [][\A h \in Hosts : pc[h] # "ready" /\ pc'[h] = "ready" /\ ~skipPush[h]
          => rootfs # Absent /\ loop[rootfs] = imageOf[h]]_handoffVars
=============================================================================
