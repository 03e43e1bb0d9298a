# Models and proofs for the RT7 Linux bring-up

This directory holds TLA+ models of the programs that bring Linux to the Oukitel
RT7 tablet, the TLC configurations that check them on small instances, and proofs
that TLAPS checks for every instance. Paths such as `scripts/...` are relative to
the repository's `src/`.

The repository is a set of host scripts (Python, PowerShell, POSIX shell) and a few
tablet-side scripts. Each one is sequential, but none works alone. The tablet
reconnects over USB whenever it likes. Commands that take hours are killed and
started again. Two invocations may run at once. Every script starts on top of what
the last one left on a disk or in the tablet's RAM. The models are about that.

Contents: [inventory](#inventory), [plan](#plan), [modules and code](#modules-and-code),
[runs](#runs), [fairness](#fairness), [proofs](#proofs), [findings](#findings),
[what is not modelled](#what-is-not-modelled), [running it](#running-it).

## Inventory

### Recovery capture: `scripts/capture-recovery-baseline.py`

- **State.** An output directory with `pass1/`, `pass2/` (one file per artifact: `gpt`,
  `gpt_backup`, 17 partitions, 2 preloaders), and two metadata files,
  `SHA256SUMS.txt` and `capture-manifest.json`.
- **Operations.** Check the inputs and build the plan; dry run; `mkdir(exist_ok=False)`;
  start mtkclient with a script of all commands for both passes; validate pass 1,
  pass 2 (missing, unexpected and malformed artifacts, GPT); compare the passes; write
  the listing; write the manifest.
- **Interactions.** mtkclient writes the artifacts. The copy script, and the operator,
  take a directory with a complete manifest for a rollback baseline.
- **Hard.** mtkclient exits with 0 after skipping a command; a read comes out wrong but
  well formed; a run dies between two writes; a retry, or an overlapping run, names the
  same directory.
- **Correct when** a complete manifest exists only over two identical and valid passes
  it describes; no run touches another run's directory, nor one that a run has left;
  and a good capture is never rejected and does get its manifest.

### GPT capture and parsing: `containers/mtkclient/mtkclient-gpt-capture.patch`, `parse_gpt_pair`

- **State.** The GPT on the flash: boot record, two headers, two entry arrays; two spans
  of it, read into two files.
- **Operations.** `da_gpt` computes the spans from the primary header and reads them;
  `parse_gpt_pair` recomputes the geometry from the bytes of the files, finds headers and
  arrays in them, checks each, and compares them.
- **Hard.** The same geometry is computed twice, in different units, by code in two
  programs; both are sums and differences of LBAs next to their boundaries. The sector
  size is a guess. A re-partition that was cut off leaves copies of two generations.
- **Correct when** what is read lies inside the flash and outside the partitions; a
  standard layout always parses; and what parses is one table, on the flash twice, whose
  partitions lie between the two spans.

### Independent recovery copy: `scripts/copy-verified-recovery.ps1`

- **State.** The source directory; `<root>\<name>.copying` (staging) and
  `<root>\<name>` (final) on another physical disk; and in each invocation the expected
  checksums, the listing and the paths seen.
- **Operations.** Check source and disks; read the manifest; read the listing and check
  its length; check it line by line; check the targets; dry run; create the staging
  directory; copy; enumerate the source; compare file by file; rename.
- **Interactions.** Reads what capture wrote. May overlap with captures and with copiers.
- **Hard.** Targets are looked at long before they are used; a copy dies half way; the
  destination damages a file; the source disk changes a file after it was checked.
- **Correct when** the line-by-line check leaves no artifact out; a staging directory
  has one writer; what is published proves itself by its own metadata; published files
  are never changed; an unfinished staging directory is left for inspection.

### Boot transport: `scripts/wait-bind-rt7-brom.ps1`

- **State.** usbipd's persisted bindings and attached clients; the last state the
  script read (bus id, PID, binding, client); the deadline.
- **Operations.** Argument check; unbind of non-forced bindings; poll; bind; second
  state query; attach; go on from preloader to BootROM.
- **Interactions.** usbipd (commands by bus id), Windows PnP, the tablet.
- **Hard.** The preloader is connected for a few seconds only, so the tablet may be
  another device between any two commands; usbipd may claim success without effect;
  the deadline is only looked at in the loop condition.
- **Correct when** BootROM is reported only with the binding asked for; nothing is
  changed without `-Execute` and elevation; the wait ends; the wait gets to BootROM.

### Recovery Linux handoff: `scripts/start-recovery-linux.ps1`, `scripts/rt7-recovery-linux-start.sh`, `rootfs/bin/rt7-chroot-start`, `rootfs/bin/rt7-healthcheck`

- **State.** On the tablet, all in RAM: the image and the starter in `/tmp`, cgroup
  mounts, loop devices, the mounted root, the loop state file, binds and their
  propagation, sshd, dockerd. On the host: the position of each run.
- **Operations.** Host: checks, push, verify, push the starter, run it, forward the
  port, poll the health check. Starter: cgroups, loop device, mount, state file, binds,
  chroot. Chroot: sshd, dockerd.
- **Interactions.** The host script calls the starter through `adb shell`, the starter
  calls the chroot script, the health check comes back over ssh.
- **Hard.** Every step looks at what is there and skips what seems done; runs are cut
  off; the tablet reboots; a transfer is damaged and its file stays.
- **Correct when** the chroot is entered with the root complete; what is mounted was
  verified; a re-run changes nothing; every run ends.

### Boot image assembly: `scripts/build-test-boot-image.py`, `scripts/prepare-recovery-ramdisk.sh`, artifacts of `scripts/build-kernel.sh`

- **State.** The output and its manifest, each with a temporary file; the personalized
  ramdisk; the artifact directory of the kernel build with its `SHA256SUMS`; and in each
  run the image in its temporary directory and the manifest so far.
- **Operations.** Check inputs; stock round trip; pack; unpack and compare; hash the
  ramdisk; write the image; hash the kernel and the image; write the manifest. The kernel
  build copies its artifacts one by one and lists their checksums. The ramdisk script
  moves its candidate into place unless there is one.
- **Interactions.** Through files under the work directory only.
- **Hard.** The inputs are read several times while others publish them; a run dies
  between image and manifest; a later run has other options and the same output.
- **Correct when** image and manifest are a pair; success means the image that was asked
  for; neither is ever replaced; a run that died can be repeated.

### BootROM handshake probe: `scripts/probe-mtk-handshake.py`

- **State.** The deadline; the device handle, the endpoint pair, the byte to be sent. On
  the other side: the tablet's place in the sequence, a claim on the interface, and two
  pipes, which outlive a probe.
- **Operations.** Load the backend; wait for a transport; get or set the configuration;
  choose an interface; detach a driver and claim it; two CDC requests whose errors are
  ignored; four times write a byte and read its complement.
- **Interactions.** The tablet, the USB stack, kernel drivers, other probes.
- **Hard.** The tablet comes and goes between any two calls. A probe that times out
  leaves its byte, and later the answer, to the next one. The interface that answers is
  not always the first with two endpoints.
- **Correct when** success means that the tablet is in sync; a tablet that has just
  connected is reached; every probe ends.

### Kernel and tool sources: `scripts/prepare-kernel-source.sh`, `prepare-android-boot-tools.sh`, `prepare-toolchain.sh`, `apply-kernel-patches.sh`, `link-kernel-sources.sh`, `fetch-moby-check-config.sh`

- **State.** Checkouts (`HEAD` and files), the patches in them, the toolchain archive, the
  unpacked toolchain.
- **Operations.** Look whether something is prepared; clone, check out, verify; download,
  verify, unpack, try; apply each patch unless it is applied.
- **Interactions.** Through directories of one volume only; `build-kernel.sh` takes what
  it finds there.
- **Hard.** Each script fills its destination in place, and each asks of what is there
  only a part of what it needs. All of them are interrupted and run again.
- **Correct when** what is compiled is whole, and a re-run completes or refuses.

### Parts without a module

- **Kernel build** (`scripts/build-kernel.sh`, `merge-kernel-config.sh`,
  `audit-kernel-config.sh`): make, and text filters. Only the publication is modelled.
- **Root filesystem packing** (`rootfs/pack-ext4.sh`, `scripts/build-rootfs.ps1`): an
  image is made under its final name and then checked.
- **Inspection and one-shot attachment** (`inspect-rt7-fastboot.ps1`,
  `attach-rt7-usb.ps1`, `collect-device-info.sh`): a fixed sequence of queries, or one
  guarded command.
- **Containers, root configuration, kernel fragments**: declarative, no behaviour.

## Plan

Ordered by what would hurt most. A wrong rollback baseline is found out when the tablet
has to be restored from it, so the recovery scripts come first; then what runs
unattended against a device that comes and goes; then the builds, which can be repeated.

| | module | builds on | state |
|---|---|---|---|
| 1 | `RecoveryFiles`, `RecoveryCapture` | | modelled, checked, safety proved |
| 2 | `GptSpans` | | modelled, checked, proved |
| 3 | `RecoveryCopy` | `RecoveryFiles` | modelled, checked, safety proved |
| 4 | `RollbackBaseline` (abstract), `RecoveryChain` | 1, 3 | modelled, refinement checked |
| 5 | `BootTransport` | | modelled, checked |
| 6 | `RecoveryHandoff` | | modelled, checked |
| 7 | `RecoveryChainProofs`: `ChainSpec => KeepsThePromise` | 1, 3, 4 | proved, with the other safety properties of 4 |
| 8 | `BootRomProofs`, `RecoveryHandoffProofs`, `BootImageProofs`: safety | 5, 6, 10, 12 | proved |
| 9 | pid file and process identities of dockerd in `RecoveryHandoff` | 6 | to do |
| 10 | `BootImage`: assembly against concurrent kernel builds and re-runs | | modelled, checked, safety proved; overlapping assemblies to do |
| 11 | `SourcePrep`: preparation steps, interrupted and re-run | | modelled, checked, safety proved |
| 12 | `Handshake` | | modelled, checked, safety proved |

What is left is 9 and the overlapping assemblies of 10. An abstract specification worth
adding to 10 is "a published artifact is made from one version of its inputs", with
assembly and kernel build as implementations of it. The invariants of the proofs say
what overlapping assemblies would lack: `OneRuns` of `BootImageProofs` is used where a
run fills its temporary file and moves it.

## Modules and code

The data are abstract and the control is not. A file's contents are a model value, and
the SHA-256 of a file is identified with its contents. What the code decides by looking
at contents is a constant: `WellFormed` stands for the size and magic checks,
`ParsedGpt` and `CompleteGpts` of `RecoveryCapture` for the parser and the partition
table it must find. The parser itself is in `GptSpans`.

**`RecoveryFiles`**: names and types of the files of a capture, and the store on the
work disk (`made`, `store`), shared by 1, 3 and 4. `Partial` is a file that was opened
and not closed. `Verified(d)` is a complete manifest.

**`RecoveryCapture`**: several runs of `capture-recovery-baseline.py`.

| model | code |
|---|---|
| `CheckInputs` | `main` up to the dry-run return |
| `MakeDir`, `MakeDirFails` | `output.mkdir(exist_ok=False)` |
| `StartMtk` | pass directories, plan file, `subprocess.run` |
| `MtkCommand`, `MtkStray`, `MtkExits`, `MtkFails` | mtkclient and the tablet (environment) |
| `ValidatePass1/2` | `validate_capture_pass` |
| `Compare` | `validate_capture` up to its failure check |
| `OpenSums`, `WriteSums`, `OpenManifest`, `WriteManifest` | the two `write_text` calls, each in its two effects |
| `Crash` | the process or its container is killed |

**`GptSpans`**: one capture and parse of a GPT pair. A layout is what a partitioning tool
writes: geometry, entry arrays, table. The flash has an old and a new one, and `fresh`
says which of the five parts are of the new one, in any combination. An old part under a
fresh one can no longer be read.

| model | code |
|---|---|
| `CaptureGpt`, `CaptureFails`, `SafeGeometry` | `da_gpt` |
| `Truncate`, `Damage` | files and reads that go wrong (environment) |
| `SeenSize`, `LengthsMatch`, `HeadersMirror`, `PairIsGood`, `ParsePair` | `parse_gpt_pair` |
| `HeadersAt` | `parse_gpt_header` |
| `EntryGeometryIsGood`, `ArrayIsGood`, `EntriesAreGood` | `parse_gpt_entries` |

A checksum is identified with what it covers: a header or an array is read if all of it
lies at that place of the file, undamaged. The signature, the revision and the disk GUID
go with the header. Numbers are unbounded integers, as in Python, which both programs are
written in. The parser does not look whether partitions overlap each other, and neither
does any property.

**`RecoveryCopy`**: several invocations ("copiers") of `copy-verified-recovery.ps1`,
with one action per check or loop iteration. `inner` holds what `Move-Item` does when the
final directory exists: it moves the source into it. `CopyFile` may write damaged
contents, `Drift` changes a source artifact, `CopierDies` cleans nothing up.
`drifted` is a history variable: the source artifacts that changed after some copier had
verified them. A change before that has to be found, and is excepted from nothing.

**`RollbackBaseline`**: the promise without the mechanism. A capture directory becomes a
baseline once, in one step, and stays; a copy appears in one step, on another disk, with
exactly the content of a baseline, and stays. **`RecoveryChain`** is both scripts on one
work disk. Its refinement mapping shows a directory as a baseline when its manifest is
complete, and a copy when the final directory exists. `CopiesAreBaselines` is what the
promise comes to at any one time.

**`BootTransport`**: one run of `wait-bind-rt7-brom.ps1`.

| model | code |
|---|---|
| `CheckArguments`, `Unbind` | option checks, removal of non-forced bindings |
| `Poll` | loop condition, the `usbipd state` query, the report of a dry run |
| `QueryFails` | a state query that cannot be run or read, which ends the script |
| `Decide`, `Bind`, `Recheck` | the branch on `BindingReady`, `usbipd bind`, the second query |
| `Attach`, `Conclude` | `usbipd attach`, preloader or BootROM |
| `Reconnect`, `Expire` | the tablet, the clock (environment) |

usbipd is external. It binds whatever is connected to the bus id, may report a binding
it did not persist, and attaches a device that is bound and free.

**`RecoveryHandoff`**: successive runs of the host script on one tablet, each followed
into the starter and the chroot. The control points `InStarter` lie within one
`adb shell` call, which a reboot ends. Mounts, loop devices and files are the tablet's
and outlive a run; a reboot clears them all.

| model | code |
|---|---|
| `CheckTablet`, `PushImage`, `FinishPush`, `VerifyPush`, `PushStarter`, `Forward`, `AdbFails` | `start-recovery-linux.ps1` up to the port forward |
| `HealthCheck`, `MoreAttempts`, `NextAttempt` | its last loop, with `rt7-healthcheck`; an attempt may fail although all is up |
| `RunStarter`, `PrepareCgroups`, `MountController` | `rt7-recovery-linux-start.sh` up to the controllers |
| `CheckRoot`, `SetUpLoop`, `MountRoot`, `RecordLoop` | loop device, mount and state file |
| `BindSource`, `SlaveSource` | the loop over `/dev`, `/proc` and `/sys` |
| `BindNested`, `SlaveNested`, `NeedsBind` | the loop over `/dev/pts` and `/sys/fs/cgroup` |
| `StartSshd`, `StartDockerd` | `rt7-chroot-start` |
| `RunDies`, `DockerdSettles`, `Reboot` | the operator, dockerd, the tablet (environment) |

What recovery itself sets up is a choice made in `HandoffInit`, the same after each
reboot: whether there is a cgroup2 hierarchy (`unified`), which cgroup-v1 controllers are
mounted, wherever that is (`exposed`), and which of `/dev/pts` and `/sys/fs/cgroup` are
mount points (`ownPoints`). The starter asks two different questions: `NoCgroups`, whether
a hierarchy is mounted *anywhere* (line 27), and `NeedsBind`, whether `/sys/fs/cgroup` is
a *mount point* (line 72). All combinations of the answers are initial states. A bind that
carries along what is mounted below it is not told apart from one that does not: then the
target is a mount point, `NeedsBind` is false in the code, and the bind is there.

`residue` is a history variable. When a starter stops, by a failure or cut off, it takes
up what that starter had begun in that very step and no later one looks for
(`LeftUndone`): a bind without rslave, a loop device without a mount, a mounted root
without its record, or the controllers after the one the loop had come to.

**`BootImage`**: successive runs of `build-test-boot-image.py` with one output.

| model | code |
|---|---|
| `StartPublishing`, `PublishArtifact`, `PublishSums`, `BuildDies` | `build-kernel.sh` from its artifacts on: each `cp` or `gzip`, `sha256sum`; and a kill |
| `MoveRamdisk`, `MoveDies` | the end of `prepare-recovery-ramdisk.sh`, whose `mv` is a copy between file systems |
| `CheckInputs`, `RoundTrip`, `Pack`, `CompareKernel`, `CompareRest` | `main` up to the payload size check; a kernel may be published between the two comparisons |
| `NoteRamdisk`, `HashInputs` | the two places where inputs are hashed for the manifest |
| `CheckExisting`, `OpenTemporary`, `FillTemporary`, `Replace` | `write_idempotent`, for the image and then for the manifest |
| `AssemblyDies` | an exception or a kill anywhere |

A boot image is a record of the parts it was packed from. With bad tools (`toolsGood`)
mkbootimg gets one of the parts wrong; the stock round trip may or may not show it.
`stale` is a history variable: the runs whose `Image.gz` was published again after they
had compared it and before they hashed it, or whose personalized ramdisk changed between
the same two looks. No other change excuses a run.

**`Handshake`**: probes on one USB port.

| model | code |
|---|---|
| `LoadBackend`, `Wait` | `load_backend`, `wait_for_transport` |
| `PrepareConfiguration`, `FindEndpointPair` | `prepare_configuration`, `find_endpoint_pair` |
| `DetachDriver`, `ClaimInterface`, `ConfigureCdc` | `claim_interface`, `configure_cdc` |
| `WriteByte`, `ReadEcho`, `ReadFails` | one iteration of `run_handshake`, its two calls apart |
| `Finish` | the returns of `main` |
| `Connect`, `Disconnect`, `TabletReceives`, `DeadlinePasses`, `ProbeDies` | the tablet, the clock, the operator (environment) |

The tablet is what the script takes it for: it echoes the complement of a byte if it
accepts it as the next of the four. Of any other byte it may make nothing, or start
again. `SuccessMeansInSync` rests on this; with a tablet that echoes whatever comes, four
right answers say nothing. `good` is a choice made at the start: calls on an open handle
succeed and answers are in time, or any call may fail. A read that finds the pipe empty
does not fail while a good tablet still has the byte before it; otherwise it may.

**`SourcePrep`**: workers, that is shells, each of which runs one script after another.

| model | code |
|---|---|
| `CheckRepo`, `Clone`, `Fetch`, `Checkout`, `VerifyRepo` | `prepare_repo` of the two scripts; a clone sets `HEAD` before it writes files |
| `CheckToolchain`, `LookForArchive`, `Download`, `CheckArchive` | `prepare-toolchain.sh` up to its checks; the test for the archive and the `mv` are steps apart |
| `OpenArchive`, `StartMember`, `WriteMember`, `EndUnpack`, `TryToolchain` | `tar`, member by member, and the trial of clang |
| `CheckPrepared`, `CheckPatch`, `ApplyPatch`, `Compile`, `EndCompile` | `build-kernel.sh` up to `make`, with `apply-kernel-patches.sh` |
| `Dies` | a worker is killed, or git, curl or tar fails |

`LooksPrepared` has the one difference between the two `prepare_repo`: the boot tools are
also asked for local changes. The toolchain is a row of members, each absent, torn or
whole; one of them holds clang. `prepare-toolchain.sh` asks whether clang runs, which a
torn one may; `build-kernel.sh` only whether it is there (`ClangIsThere`).

`left` is a history variable: the destinations that can be taken for whole although they
are not. A cut-off run adds its destination only if that already looked prepared, or
another run was about to make it so (`LeavesHidden`): a kernel or modules checkout with
`HEAD` pinned or with some files there, a toolchain with bin/clang there. A download adds
the toolchain if it puts a wrong archive in the place of one that was checked and not yet
opened. Those are the gaps of the scripts (hazards at `prepare-toolchain.sh:43` and
`prepare-kernel-source.sh:17`), and the property says exactly that there are no others:
what is cut off *earlier* is refused or completed, a damaged download never passes, and
the boot tools and the patches are whole wherever a run was cut off. The
refusal of a destination with anything in it (`ls -A`) is modelled, but no property
depends on it: without it a new run writes every member again.

Each model module also holds *slips*: operators next to the one they replace,
named `...Mutant`, each a plausible mistake in that code. They are not used by the
specification. With a slip in place the property it is paired with in `PROJECT.json`
fails, which shows that the property depends on the code being as it is.

## Runs

All bounds are in the configurations. `CHECK_DEADLOCK FALSE` is given wherever the
invocations are counted, because every script really stops: a state in which all of them
have finished has no successor. `source_prep`, whose workers always have another script
to run, is checked for deadlock.

| run | states | what it asks |
|---|---|---|
| `capture_values` | 958k | Every combination of good, differing, malformed, missing and stray artifacts, two runs on one directory: is a manifest complete only over a sound capture, and is nothing good rejected? |
| `gpt_spans` | 1.3M | All small geometries around every boundary, faulty tables, and re-partitions of which any part was written; then damaged or cut short: is what parses one table, and does what should parse do so? |
| `copy` | 397k | One copier on every listing of up to three lines and every manifest over one artifact in two passes, missing and truncated ones included; three copiers where listing and manifest are those of a capture, dying anywhere, with damage and with artifacts that change at any time. |
| `copy_nested` | violation | See finding 1. |
| `chain_refinement` | 213k | Two capture runs, overlapping, retried and killed, and two copiers, two roots: do they implement `RollbackBaseline`, is a directory that was left never touched again, and does a good capture get its manifest? |
| `transport` | 627k | Two ports, all options, five kinds of persisted bindings, reconnects and failing queries anywhere. |
| `transport_attached` | violation | See finding 2. |
| `handoff` | 1.1M | Two successive runs with either of two images, cut off anywhere, with or without a transfer, whatever recovery exposes, one reboot. |
| `handoff_repush` | violation | See finding 3. |
| `boot_image` | 1.0M | Two successive assemblies with either set of options, a kernel build and a ramdisk published meanwhile, deaths anywhere: do image and manifest stay a pair, does success mean what was asked for, and can a dead run be repeated? |
| `handshake` | 123k | Two probes and a tablet that comes and goes, with four kinds of interfaces, prompt or not: is success ever a stale answer, is a fresh tablet reached, does every probe end? |
| `source_prep` | 6.0M | Two workers, any scripts in any order, any number of times, cut off anywhere: is what is reported as prepared, and what is compiled, whole? |

Why the bounds are enough:

- *Capture.* A run meets another one only through its directory, so two runs show
  every conflict, and the second one may start after the first has died. Three
  contents are needed: a good one, another good one (a misread that passes every check
  but the comparison) and a malformed one. The two GPT spans come from one command, the
  one partition from another, as in the plan. `capture_values` has two runs on one
  directory because the values of a directory do not depend on those of another.
- *GPT.* Geometry enters by comparisons of sums of LBAs. The headers lie on both sides
  of each comparison, and the entry arrays take less than a sector, one, two, and two
  and a fraction. Tables have none, one or two entries, or one of each fault that
  `parse_gpt_entries` looks for. Re-partitions go between any two of eight layouts that
  differ in one number each. The proofs cover the other sizes and layouts.
- *Copy.* A listing of up to three lines for two expected ones has too few, too many,
  repeated, unknown-hash and wrong-hash lines. Three copiers of one target are a copier,
  one that overtakes it, and one that finds the result. Two roots, one on the source's
  own disk, decide the disk check. `OverlapOnCapturedMetadata` lets copiers overlap on
  the metadata a capture writes only; what they do with other metadata does not depend on
  each other.
- *Boot image.* A kernel may have been published before, so `MaxBuilds = 1` gives the
  change from one build to the next. Two of the four artifacts show every mixture of two
  builds. One of the two kernels is too large. The two sets of options are those of
  `docs/boot-image.md`. Assemblies follow each other: a guard of `CheckInputs`, since
  nothing in the script claims to support overlapping ones.
- *Chain.* One artifact, captured by one command, since each script on its own has more
  in its own runs; here the question is the hand-over.
- *Transport.* A second port is needed for "more than one transport" and for a reconnect
  elsewhere. Nothing depends on a third.
- *Handoff.* Two controllers, one of them required by dockerd, give no hierarchy, a
  partial one that dockerd accepts, a partial one that it does not, and a whole one. Two
  sources are the first and a later iteration of the bind loop; the second loop has its
  two sources, as in the script. `MaxActive = 1`: runs
  follow each other. `MaxAttempts = 2` (30 in the script) has a retry and a last attempt.
- *Handshake.* Two probes give one that talks and one that spoke before it or talks at
  the same time. The configurations decide every branch of `find_endpoint_pair`. Nothing
  bounds reconnects.
- *Sources.* A worker may run any number of scripts, so two show every overlap of two.
  `Series` has a patch of the kernel and one of the modules. Builds follow each other: a
  guard of `Start`, since two of them would compile in the same directory. The toolchain
  has three members (`Members = 3`), the second of which is clang, so that a `tar` can be
  cut off before it, in it and after it.

Symmetry is used where a run checks no liveness, on runs, copiers and workers, which
nothing tells apart.

What the properties say is in the comment above each. In short:

- `ExclusiveOwner`, `LeftStaysAsLeft`, `VerifiedIsSound`, `RejectedForCause`,
  `SoundReadsGetVerified`: one owner per directory, left means left, a manifest means a
  sound capture, rejection has a cause, a sound capture is verified.
- `SpansAreSafe`, `StandardLayoutParses`, `ParsedMeansOneTable`, `PartitionsLieBetween`:
  reader and parser agree, neither strays, and what parses can be restored from.
- `VerificationIsComplete`, `PublishedProvesItself`, `OneStagingWriter`,
  `PublishedFilesStay`, `StagingIsLeft`: the copy is what was verified, for good.
- `CopiersWorkOnFinishedCaptures`, `KeepsThePromise`: the two scripts fit together.
- `ReadyIsBoundAsAsked`, `BindingsNeedConsent`, `WaitEnds`, `FollowsToBootRom`: the wait
  binds what was asked for, only with consent, ends, and ends with BootROM if it stays.
- `SumsMeanOneBuild`, `PairIsConsistent`, `ReportedIsRequested`, `PublishedImageStays`,
  `RepeatedRunCompletes`: what is published belongs together, for good, and a run can be
  repeated.
- `ChrootFindsRootComplete`, `MountedIsVerified`, `RerunChangesNothing`, `EveryRunEnds`:
  the starter's skipping of what seems done is right. Wherever the runs before it were cut
  off, a run enters the chroot with the root mounted and every source bound, the nested
  ones included. Nothing else is missing but what a starter was cut off at in the very
  step that makes it (`residue`). For an rslave, the state file or a stray loop device
  that is a small thing. For the controllers it is not: the next run finds a cgroup mount
  (`rt7-recovery-linux-start.sh:27`), takes the part for the whole, and enters the chroot
  with it, until the tablet reboots. No document of the repository promises otherwise, so
  this is a hazard and not a finding. The property does not cover it; it says that it is
  the only way to a part of a hierarchy that the starter was there to make.
- `SuccessMeansInSync`, `FreshTabletIsReached`, `ProbeEnds`: a probe's verdict is about
  the tablet and not about what is left in the pipes.
- `PreparedIsWhole`: whatever is interrupted, no half of a patch is compiled and no half
  of the boot tools is reported; a checkout or toolchain that is compiled or reported is
  whole unless a run is still at it or it is in `left`.

## Fairness

- `ChainFairSpec`: weak fairness of each capture run's own steps (`ScriptStep`). They are
  plain sequential code that waits for nothing. mtkclient's steps have none: it may hang
  for ever, and there is no timeout. `Crash` is never forced and always allowed. Copiers
  have none either, since no liveness property is about them.
- `TransportFairSpec`: weak fairness of the script's steps only. The tablet and the clock
  have none. That the deadline passes is a hypothesis of `WaitEnds`; that BootROM stays is
  one of `FollowsToBootRom`, together with an elevated `-Execute`, no stale binding and no
  state query that fails.
- `HandoffFairSpec`: weak fairness of each run. `adb` and `ssh` calls return or fail, and
  a call that hangs is stopped by the operator, which is `RunDies`. dockerd's own start
  has no fairness: it may stay "starting" for ever, and the run still ends.
- `ImageFairSpec`: weak fairness of each assembly's own steps. The kernel build and the
  ramdisk script have none; that they rest is a hypothesis of `RepeatedRunCompletes`.
- `HandshakeFairSpec`: weak fairness of each probe's steps: every call has a time limit
  of its own (100 ms, 250 ms, the control transfers of libusb). That the deadline passes
  is a hypothesis of `ProbeEnds`. A tablet answers (`TabletReceives`) if it is `good`,
  and that nothing else disturbs it is a hypothesis of `FreshTabletIsReached`.

## Proofs

TLAPS checks these for every value of the constants that satisfies the named
assumptions. Every safety invariant and action property of the runs that pass has a
theorem; the state spaces of the runs are finite, the theorems are about any number of
runs, copiers, probes, workers, directories, files, bytes, ports and patches.

| assumption | says | because |
|---|---|---|
| `FilesAssumption`, `LineOrderAssumption` | absent and partial files are not contents; the listing names each expected file once | the listing is written from a sorted dictionary |
| `CaptureAssumption`, `CopyAssumption`, `GptAssumption` | the GPT files are expected ones; constants are well typed | the plan of the capture always has them |
| `ChainAssumption` | "no artifacts" is not a set of artifacts | type only |
| `TransportAssumption`, `HandshakeAssumption` | there is a port; the serving interface is one of the configuration and has endpoints | types of the environment |
| `BootImageAssumption`, `ContentsAssumption` | markers of absent, partial and damaged files are not contents; the artifacts have distinct names, `Image.gz` among them | `build-kernel.sh` names them |
| `HandoffAssumption` | finitely many runs; markers are no runs, images or directories; the orders list at least one controller, the sources and the nested sources, of which `/sys/fs/cgroup` is one | types, and the lists of the starter |
| `PrepAssumption` | patches are for the kernel or the modules, and there are some for each; clang is a member of the toolchain | `patches/kernel` and `patches/modules` are not empty, and without any patch `apply_series` does not look at that checkout |

**`RecoveryCaptureProofs`**: types, `ExclusiveOwner`, `VerifiedIsSound`,
`RejectedForCause` and `LeftStaysAsLeft`. "A complete manifest means a sound capture" is
not inductive: the step that writes the manifest looks at nothing. `CaptureInv` adds

- `StageOK`: what each control point knows of the run's directory. Past a pass's
  validation that pass is valid; past the comparison the passes agree and the digests
  are of the files there; the manifest is absent until it is opened;
- `ExclusiveOwner`: otherwise another run could falsify `StageOK`. It is inductive by
  `mkdir` being the only way to become an owner;
- `UnmadeIsEmpty`: a directory that does not exist yet is empty, so that `StageOK` holds
  when a run starts in it;
- `RejectionStands`: a rejected directory has no owner, so that it stays unsound.

Type correctness needs the same invariant. The listing consists of hashes, rather than
of absent files, only because the passes were validated.

**`RecoveryCopyProofs`**: types, `VerificationIsComplete`, `OneStagingWriter`,
`PublishedProvesItself`, `PublishedFilesStay` and `StagingIsLeft`. `CopyInv` adds

- `LinesOK`: the paths seen are expected ones, and as many as the lines passed. With a
  listing as long as the set of expected paths, at the end they are all of them. This is
  the counting argument the script rests on, over finite sets of any size;
- `SourceOK`: manifest and listing are what they were when they were read, and each path
  seen has the recorded hash or changed since it was verified;
- `ComparedOK`: every source file no longer to be compared equals its copy, or changed
  since it was verified. It needs `OneStagingWriter`, or another copier could undo the comparison.

**`GptSpansProofs`**: types, `SpansAreSafe`, `ParsedMeansOneTable`, `PartitionsLieBetween`
and `StandardLayoutParses`, for all layouts, cut-off re-partitions and flash sizes.
`GptInv` states the spans as products of sectors and sector size, reduced by one sector
where a file was truncated, and ties the verdict to `PairIsGood`. The argument rests on

- `LengthsTell`: the two lengths differ by one sector, which rules out a truncated file
  and a wrong sector size together;
- `GoodPair`: the header the parser went by is therefore the one `da_gpt` went by;
- `AddressesAgree`: an offset in a file and an address on the flash are the same place,
  so that what was found in the files is on the flash (`GoodArrayIsOnFlash`).

**`RecoveryChainProofs`**: `KeepsThePromise`, `CopiersWorkOnFinishedCaptures` and, for
both scripts together, `LeftStaysAsLeft`. `ChainInv` is `CaptureInv` and `CopyInv`
side by side, that nothing drifts, and `DisksDiffer`. Each half is kept by the steps of the other script
for one reason: a complete manifest exists only in a directory that no run owns
(`VerifiedIsLeft`), and a copier past the manifest has found it complete
(`CopiersSourceIsVerified`), so no run writes what a copier goes by. The refinement then
has two steps that show: `WriteManifest`, which by `StageOK` completes a sound capture,
and `Publish`, which by `ComparedOK` moves what equals the baseline. `CopiesStayBaselines`
adds what the promise is worth: an offline copy has the artifacts of its baseline, on
another disk. It is proved of `RollbackBaseline` and reaches the scripts through the mapping.

**`BootRomProofs`**: the wait and the probe. For the wait, types,
`ReadyIsBoundAsAsked` and `BindingsNeedConsent`. `ScriptKnows` states at each command
what the script still knows of the state it read. It survives `Reconnect`, because a
binding belongs to a hardware instance and not to what is connected to the port now; no such
statement holds of `client`, which is finding 2. For the probe, types and
`SuccessMeansInSync`. The invariant adds

- `LastEchoMeansInSync`: the complement of the last byte is in the pipe only when the
  tablet has taken all four. The four complements differ, so a stale answer can pass
  only for the byte it answers;
- `HandlesAreLive`: an open handle is of the present connection, since a disconnection
  closes it and empties the pipes. `ReadEcho` succeeds only on such a handle;
- `TalkersHoldTheInterface`, which also gives `OneProbeTalks`: the claim keeps a second
  probe out. `SuccessMeansInSync` does not need it.

The lemma `EndpointPairIsFirst` says what `find_endpoint_pair` returns for every
configuration: the first data interface with both endpoints, or else the first of all.

**`BootImageProofs`**: types, `SumsMeanOneBuild`, `PairIsConsistent`,
`ReportedIsRequested` and `PublishedImageStays`. The run's own copy of the parts is what
it compared, and the inputs under it may change at any time. `ImageInv` therefore says
of each stage what is known for good (`ComparedOK`: what was packed is what the options
ask for) and, under the condition that the run is not `stale`, what its manifest says of
it (`NotedOK`). `BuildsOK` is what makes a list of checksums one build's: files that
are published so far are of the present build. `WritingOK`, that `final` has nothing
where a run is about to write, carries `PublishedImageStays`; it rests on `OneRuns`.

**`RecoveryHandoffProofs`**: types for runs that overlap in any way; and, under
`MaxActive <= 1`, `MountedIsVerified`, `ChrootFindsRootComplete` and
`RerunChangesNothing`. The hypothesis is that runs follow each other, however they end:
nothing in the scripts keeps two starters apart, and two of them at once mount two roots.
Each starter skips what it finds done, so its invariant is about what an earlier one can
have left. It has, besides types, `OneActive` and

- `StageOK`: for each control point, which of the steps before it are done. The loops are
  summed up by `Before(order, n)`: the entries of the first iterations are mounted;
- `MountOK`: where the root and the loop devices are while one starter makes them;
- `TabletOK`: what holds of the mounts whoever is about to do what;
- `ResidueOK`: whatever is begun and unfinished on the tablet (`Begun`) was left by a
  starter that stopped, or some run is just at it. It is what makes a starter that was
  cut off harmless to the next one, and is needed because `Unfinished` says nothing while
  a starter is in the middle of its work;
- `TransferOK`: it follows an image from its verification to the mount. A run that does
  not skip the transfer mounts only what it has verified, since a failed verification ends
  it and a reboot takes the files away.

**`SourcePrepProofs`**: `PreparedIsWhole`. Everything in the invariant is about a
destination, and there is one conjunct for each way in which it can be less than whole:

- `OneClones`: two workers never fill the same checkout. `git clone` takes an empty directory only;
- `ReposOK`: a checkout that may pass is whole, or being filled, or in `left`;
- `ToolchainOK`: the toolchain is in `left`, or nobody would take it for one, or each
  member is whole or still to be written by a `tar` on the right archive (`WillWrite`).
  Two workers may unpack at once, and each may undo for a while what the other has done;
- `ArchiveOK`: what was checked is what is opened, but for a replaced archive;
- `BuildOK`, `PassedOK`: what a build and a preparation have looked at, which only stays
  true because no step takes it back;
- `PositionOK`, `CloneOK`: the variables of a worker fit its place in its script.

The lemma `InvOfStep` separates what a step must show of its own worker from what it may
do to others (`Frame`: fill one checkout that is not whole and that nobody else fills,
add to the rest), so that each action is only proved for its own worker.

Only model-checked: the liveness properties (`SoundReadsGetVerified`, `WaitEnds`,
`FollowsToBootRom`, `EveryRunEnds`, `RepeatedRunCompletes`, `FreshTabletIsReached`,
`ProbeEnds`), because the provers reach neither fairness nor ENABLED; and the
counterexamples of the three runs that expect a violation, which TLC exhibits. What
several of these theorems are about is also bounded by a guard of the model and not only by
constants: builds of `SourcePrep` and assemblies of `BootImage` follow each other.

## Findings

1. **A late copier publishes into a published copy** (`copy_nested`).
   `docs/recovery.md:147` says the copy script refuses to overwrite the final or staging
   path. It looks at them before the copy only. If another copier publishes meanwhile,
   `Move-Item` moves the staging directory *into* the published one and reports success.
   `PublishedFilesStay` still holds: no file of the first copy is changed.
2. **Ready for BootROM, attached to something else** (`transport_attached`).
   `docs/recovery.md:98` says the script exits after BootROM is attached. `usbipd attach`
   takes a bus id from a state read earlier. If the tablet reconnects as another bound
   identity in between, that is what is attached, and the script reports BootROM from
   the old state. `ReadyIsBoundAsAsked` holds all the same.
3. **Ready for an image that was not started** (`handoff_repush`).
   `docs/recovery-linux.md:12-16` says the run transfers an image, validates it and starts
   it. With an earlier root still mounted the starter skips the mount, so the run reports
   ready for the earlier image.

## What is not modelled

- In capture: the text of the plan file and of messages; sizes, which are part of what
  `WellFormed` and the hash tell apart; the comparison of the two slots that the manifest
  records without deciding anything by it.
- In GPT parsing: checksums and encodings as such (a checksum stands for what it covers),
  reserved fields, and header sizes other than 92 bytes.
- In the copy: the text format of listing and manifest beyond "parses or does not", and
  ACLs and times of files.
- In the transport: USB devices of other vendors, which the script filters out, and the
  wording of usbipd's output.
- In the copy, and in the boot image: what a change between the last check of a file and
  its use would do (`drifted`, `stale`). The scripts do not look again, so the properties
  except exactly that window; a source disk that fails after verification can still give
  a copy that does not prove itself, and a kernel published in the window a manifest that
  describes another kernel.
- In the handoff: overlapping runs (the scripts have no lock and claim no support for
  them), process identities and the reuse of pids, the ssh key, and stopping a handoff
  other than by reboot.
- In the boot image: overlapping assemblies and overlapping kernel builds; the formats of
  boot images and manifests; the AVB query.
- In the handshake: the wording of errors, descriptors beyond "has both endpoints" and
  the class, and tablets on several ports.
- In the preparation: the symbolic links made after the clones, the file fetched from
  moby, and overlapping builds. `build-kernel.sh` is followed to `make`, and from its
  artifacts on in `BootImage`.
- The components without a module: see the inventory and the plan. The inspection
  scripts and the declarative files have no state worth a model.

`PROJECT.json` lists, for each definition, the lines it models; for each hazard of the
code, the properties about it; and for each property, the slip that breaks it.

## Running it

    tlc -workers 2 -config MCRecoveryCopy.cfg MCRecoveryCopy
    tlapm RecoveryCopyProofs.tla

Each run takes at most about two minutes, each proof module at most a few.
