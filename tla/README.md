# genpack in TLA+

genpack builds Gentoo-based system images and, in the part of the repository under
`obsoleted/`, installs them on machines, boots them and shuts them down. This directory holds
TLA+ models of the parts of genpack that keep state across failures, the TLC
configurations that check them, and TLAPS proofs of their main invariants.
Paths below are relative to the repository; `genpack_artifact.py` and so on
are in `src/`, and `init.cpp` and so on in `obsoleted/init/`, `obsoleted/initlib/` and
`obsoleted/util/`.

    tlc -workers 2 -config update_safe.cfg MCImageUpdate
    tlapm ImageUpdateProofs.tla

## 1. The system

### Components, their state and operations

| component | state it keeps | operations | module |
|---|---|---|---|
| profile preparation, `genpack_profile.py` | `work/<arch>/profiles/<p>/root`: packages, `.stage3-done`, `.done` | `prepare`, `bash`, `extract_stage3`, `extract_portage`, `sync_overlay`, `link_files` | GenpackBuild, TarballCache |
| artifact build and pack, `genpack_artifact.py` | `work/<arch>/artifacts/<a>` with `.genpack/packages`, the outfile | `is_up_to_date`, `build`, `is_outfile_up_to_date`, `pack` | GenpackBuild |
| command line, `__main__.py` | which profiles are prepared, which artifacts are left | `prepare`, `bash`, `build [--keep-going]`, `run`, `clean` | GenpackBuild, TarballCache |
| download cache, `upstream.py`, `user_dir.py` | `~/.genpack`: stage3 and portage tarballs, overlay clone, a lock file each; module globals | `download_if_necessary`, `get_latest_*`, `lockfile` | TarballCache |
| work directory, `workdir.py` | roots, artifact directories, portage tree, trash | `move_to_trash`, `cleanup_trash` | GenpackBuild, TarballCache (the removal only) |
| packages, `package.py` | none | `get_last_modified`, `strip_ver`; `scan_pkg_dep` and what it needs have no caller | GenpackBuild (the time stamps) |
| installer, `genpack-install.cpp`, `install-system-image` | boot partition: `system.img/.cur/.old/.new/.cfg` | `install_self`, `install_to_disk`, the script | ImageUpdate (`install_to_disk` is its initial state) |
| init of a genpack system, `init.cpp`, `initlib.cpp` | the images; read-write layer, swap file and database on the data partition; what is mounted; `boottime.txt` and the FAT of the boot partition; the settings in the new root | `preserve_previous_system_image`, `do_init` (two variants), the `setup_*` hooks, `shutdown` | ImageUpdate, BootLayers, PowerCycle, SystemSettings |
| init of a system image, `init-systemimg.cpp` | the images; what is mounted, `boottime.txt`, the FAT | search of the boot and data partitions, fsck, rotation, mount, `shutdown` | ImageUpdate, BootLayers, PowerCycle |
| overlay init, `overlay_init.py` | the read-write layer | `main` | BootLayers |
| paravirtual init, `init-paravirt.cpp` | what is mounted | mounts `/dev/vdb`, executes overlay-init | PowerCycle |
| layer and snapshot scripts, `expand-rw-layer`, `do-with-lvm-snapshot` | size of `system.dat`, an LVM snapshot | the script | - |
| options, architecture, sudo, qemu, genpack.json | values read once | accessors, command lines | - |
| bootstrap and maintenance scripts | none of their own | wrappers around other programs | - |
| FAT library, `fat.cpp` behind `fat.h` | FAT, directory and FSInfo on the disk; a window of one sector, the free count and a hint in memory | `fat_mount`, `fat_umount`, `fat_file_exists`, `fat_get_free_space`, `fat_file_create` | FatVolume, FileStore |

### How they interact

* `build` prepares each profile it needs and then builds and packs each artifact.
  The two loops share the list of prepared profiles; `--keep-going` catches
  exceptions in each iteration (`__main__.py:60-77`).
* What to skip is decided from modification times: `.done` against the profile, the portage
  snapshot's `metadata/timestamp`, the overlay's Manifests and `/var/db/pkg`; `.genpack/packages` against `.done`, the
  artifact, `packages/` and `build.json`; the outfile against `.genpack/packages`.
* All genpack processes of a user share `~/.genpack` under three `flock`s. The
  work directory has no lock.
* The installer and the init talk through file names on the boot partition only:
  the running image is moved to `system.cur` by the one, and on to `system.old`
  by the other at the next boot.
* The image that is booted decides which init there is. Both find the same data
  partition, and keep the layer in different directories of it.
* The same program runs twice in a power cycle: as `/init`, and, out of the shutdown
  environment that the boot has left in `/run/initramfs`, as `/shutdown`. The second takes down
  what the first has put up, in an order it has no record of.
* The hooks run between the last mount and `switch_root`; each writes what `system.ini` names
  into the new root, which holds what earlier boots, the image and the user wrote. An
  exception in one ends all of them, in `initlib.cpp` with the shutdown environment.
* The FAT library is linked into initlib for the programs derived from it: it makes contiguous
  files on a FAT that is not mounted. Nothing in the repository calls it, so FatVolume admits
  every sequence of calls.

### What is hard

* **Failure between two writes.** Every decision to skip work rests on a time
  stamp, and each stamp is written at some point of a longer operation.
* **Interleaving.** Tarballs are truncated in place, unpacked and looked at by
  processes that share them; two installers share file names.
* **Power failure.** A rename and a copied file reach the disk at different times.
* **Fallbacks.** A boot with another layer must not make the next one go on there.
* **Order.** A file on one mount is the device of the next; a hook removes what another wrote.
* **A cache of one sector.** Every access to another sector of a FAT writes the dirty one
  back: each of them is a point where a call can fail or be killed.
* **Times of other machines.** A portage snapshot and a stage3 carry the time they were published at,
  and are compared with what was written here.
* **Liveness.** Locks, files left by failed attempts, disks that never come up.

`PROJECT.json` lists the hazards one by one with the property that covers each,
or the reason why none does.

### What makes each component correct

* Build: nothing half prepared or half built is used or reported; what is
  reported is made from sources as they were when the command started; nothing
  is rebuilt for no reason.
* Cache: what is marked as extracted is whole and current; processes do not make
  each other fail; nobody waits for ever.
* Installer and init: the running image and the one it replaced are kept, some
  image is always whole, a failure leaves the machine bootable, success is durable.
* Layers: boots that work see what earlier ones wrote; the database is copied
  once; swap is made again after a failed attempt.
* Power cycle: a shutdown unmounts everything, a FAT left dirty is repaired and never while
  it is mounted, and every sequence ends.
* Settings: what `system.ini` names is in force after any boot that works, and the rest is
  as the user left it.
* FAT library: no file loses or shares a cluster, a file that was promised stays, and a
  caller sees a store of whole files.

## 2. The models

Every module keeps the control flow of its source and abstracts the data. A
mishap (a failing call, a kill, a power failure) is a step of its own that is
possible between any two steps, and the number of mishaps is bounded. The mapping from
definitions to lines is in `PROJECT.json` under `map`.

### GenpackBuild

State: `src` (sources), `root` (profile roots), `upper` (artifact directories), `out`
(outfiles), `cmd` (per process: program counter, lists of `build()`, local variables).
Everything with a time stamp also has the *version* of its contents, which the
code cannot see: the properties compare what was skipped with what should have
been done. `clock` gives each write a stamp of its own.

The trees have two stamps of different kinds. `SyncPortage` is `extract_portage`: a later snapshot takes the place
of the tree, and `metadata/timestamp` keeps the time the snapshot was made at (`tar xpf`, `genpack_profile.py:118`), which
may lie before a `.done` that is there already. In `Link`, a pull of the overlay is a new version, whose stamp is that of the newest
`**/Manifest` (`:218`): a pull that brings a Manifest has the time of the pull, one that brings none leaves the stamp as it was.
So a tree can be newer than the root and look older. `root` has the version of each tree it was made from (`trees`), and
`cmd.start` the versions and stamps of all sources when the command began. Left out: a pull that removes the newest Manifest and so turns the
stamp back, and the portage tree that a failed tar leaves half unpacked for the next profile under `--keep-going`.

`Start` .. `EndCommand` follow `prepare()` and `build()` of `__main__.py` and, inside them,
`Profile.prepare` (`SyncPortage`, `KeepStage3`, `TrashRoot`, `Untar`, `Link`, `Decide`, `Emerge`,
`GenpackPrepare`, `WriteDone`, `Verify`), `Profile.bash` (`Shell`), `Artifact.build`
(`TrashUpper`, `Copyup`, `SyncPackages`, `SyncArtifact`, `Finish`) and `pack` (`PackBegin`,
`PackEnd`). `QueryDone` is `get_gentoo_workdir_time`, which unlinks a stale `.done` as it
reads it; every caller's action includes that. `Mishap` raises or kills in a phase
of `Fragile`; `Raise` is where an exception leads. `Run`, `Clean`, `Edit` and `Remove` are
the other commands and the user.

An artifact stands for an artifact:variant pair. Fetching of trees is one step each here (`SyncPortage`, `TrashRoot`,
`Link`): TarballCache has it in detail.

### TarballCache

State: `server`, `file` (`~/.genpack`), `lock`, `tree` (portage tree of a work directory),
`root` (stage3 and overlay in a root), `job` (per process, with the module globals
`_extract_portage_done`, `_downloaded`, `_pull_overlay_done`). A version *is* the time stamp
it has on the server; wget sets the mtime to it when it succeeds, and a file being
written has the time of the write. `AskServer` is `download_if_necessary`: a length
that cannot be asked for counts as right, whatever file is there. `wget -O`
truncates; tar fails unless it reads one whole version. The time in `portage/.done` is the
tarball's; that of `.stage3-done` is the time of extraction, written after the
lock is let go (`MarkRoot`). A failing pull of the overlay is ignored. `Use` is the rest of
`prepare()`, modelled in GenpackBuild.

Assumed: versions have different lengths; git removes a clone it could not finish;
the two HEAD requests of a download agree.

### ImageUpdate

State: `dir` (name -> file; a file is a number that stands for inode and contents),
`whole` and `durable` (contents), `behind` (directories a power failure may bring
back), the boot phase, `running`, and the installers. `lastRun` and `prev` are history
variables. Each call of `install_self` (`genpack-install.cpp:654-704`) and of
`install-system-image` is a step; `Errored` says where its failure leads.
`Preserve` is init.cpp's rename and sync, whose failure is ignored; `Rotate` is
init-systemimg.cpp's removal and rename, whose failure halts the machine.

Assumed: renames reach the disk in order; a squashfs that is cut off does not
mount. Not modelled: a read-only boot partition, renames that a FAT disk
reorders, the installation of boot loaders.

### BootLayers

State: what is on the media (`subvols`, `dirs`, `data`, `mysql`, `swap`), what this boot has found
and mounted (`found`, `rw`, `served`, `swapOn`, `short`), and history variables. There are three
programs: `do_init` of init.cpp, the same with `-DPARAVIRT`, and init-systemimg.cpp
followed by overlay_init.py. A session writes an item, its number, into its
upper directory and the database; `calm` says that every call of this boot has worked,
`kept` and `keptSql` are the items of such sessions. `Upgrade` replaces the image by one with
overlay_init.py, whose compatibility code has to move the layer (`MoveBegin` ..
`MoveFails`).

Assumed: what a session wrote is on the disk. `Upgrade` is admitted on machines
with only a data partition or only `/dev/vda2` (overlay_init.py never looks at
`system.dat`, and leaves the subvolume `mysql` unmounted). Not modelled: LUKS, the docker subvolume,
configuration scripts, swap of the paravirtual variant, directories called `rw` inside old layers.
(The hooks, and a boot partition that is read-only, are in the next two.)

### PowerCycle

State: `phase` and `todo`, the steps still ahead of the running sequence, which `UpPlan` and `DownPlan`
give for each of five programs: init.cpp, the same with `-DPARAVIRT`, initlib.cpp,
init-systemimg.cpp and init-paravirt.cpp; `search` (for the boot partition), `mounted`, `readonly`, `stamp`
(`boottime.txt`), `fat` (the dirty flag, and whether it was set when the kernel mounted it), `env` (the
shutdown environment), and how the machine went off. `LookUp` has each program's
retries, names, EFI variables and halts. Each other step of a boot or a shutdown is an action
with the outcomes the code allows: what it ignores goes on, what it throws halts, and
where `main` has nothing left, process 1 ends (`"panic"`). `PowerFailure` may come between any two.
`Busy` is the rule of the kernel that makes order matter: `system.img` lies on the boot partition, so that
cannot be unmounted before all that is mounted from the image.

Assumed: the dirty flag is set and cleared as Linux's vfat does; systemd leaves what it cannot
unmount mounted, perhaps read-only, and tells loop devices to detach, or fails to (`held`).

### SystemSettings

Extends PowerCycle by what the hooks of init.cpp and initlib.cpp write, and runs the machine: its `Next` is that of
the project's power cycle. State: `ini` (what `system.ini` names), `root` (the settings in the new root, each with who
wrote it: the image, the user, a hook, or a hook that was cut off), `hooks` (the set of those still ahead; `Turn` takes the first of them in the program's order), and `kept` and `touched`, which say what the boots since
the last session have changed. One action per hook and program; `Write` has the outcomes common to them: done, failed
with part of it done, thrown, or the power gone. The differences are what the models are
about: init.cpp empties the directory of networks, initlib.cpp adds files; a generated hostname is looked
for in different places; keys are appended to a file that may end in half a line. `Edit` is the user.

Assumed: what a hook wrote before a power failure stays, and only the hook at work leaves an empty
or torn file. Not modelled: hooks that a derived program overrides, LUKS, wireguard (empty).

### FatVolume and FileStore

FatVolume has fat.h down to the accesses to the disk: one action is what the code does between two of them. State:
`dfat`, `ddir`, `dinfo` (the disk as the kernel shows it), `vfat`, `vdir`, `vinfo` (the contents of each sector
that a power failure can leave: all that was written since the last `syncfs`), `fat` and `dir` (the same through the window), `win`
and `dirty` (`winsect`, `wflag`), `free`, `last`, `fsi` (`free_clst`, `last_clst`, `fsi_flag`), and `call`, the running
call with its locals. An entry that an earlier use of a cluster left there reads like any other; the
mark `old`, which is not on the disk, is for the properties. `MoveWindow` is `move_window` to the sector the next step is about (`Target`); `WriteFails`,
`ReadFails` and their kin are the same accesses with an error, and `Fail` where it leads. `Search`,
`Alloc` and `AllocPastEnd` are `f_expand`, with its turn at the end of the volume; `DirStretch` to `DirZero`
are `dir_next` with `stretch` and `create_chain` (`DirClear` writes the FAT that links the new cluster, `DirZero` the zeros in it: a kill or an
error between the two leaves the directory with what was in that cluster, which `DirFind` and `DirRegister` read as files, end marks and free
entries); `CountSector` is `f_getfree`. `Kill` and `PowerLoss` come between any two; what a power loss leaves in
a cluster outside of the directory is left over from then on (`Aged`).

FileStore is what a caller may rely on: names with sizes, one call at a time, a creation that appears empty, grows at once
or goes again, answers that are true of the files there are, and `settled` names that nothing changes. It says
too what is *not* promised: after a disk error any answer, before `syncfs` any loss. `Implements` maps FatVolume
onto it: the files are the entries that a search through the window for their name comes to (`FilesOf`: no end mark and no entry of that name
before them), `settled` those `promised`. After a fault or a kill *and* a power failure a file in the second cluster of the directory can lie behind
an end mark of the first: it is not found, and shows again once the mark is replaced. A cluster that was linked and not cleared can do the same with left-over
entries: they may be listed at once, or lie behind a left-over end mark and show when `DirRegister` puts an entry there. FileStore allows both (`Shows`,
`Reread`, `Crash`), but only once there has been an error, a kill or a power loss (`Troubled`), and never for a settled name; an answer must be true of
what a search finds, left-over entries included. A cluster that stretches the directory counts as part of it when it is cleared (`Finished`), or when
the call that should have cleared it is over.

Assumed: sectors are written whole. FAT32, one sector per cluster, a root directory of at most two clusters. Not modelled: the second FAT,
which the code writes and never reads, FAT12/16 and exFAT, long names, paths with directories, and the part of FatFs behind
functions that fat.h does not reach.

## 3. The runs

| run | shows | bounds |
|---|---|---|
| `build_failures` | Any step fails, or the process is killed, in any phase; shells change the root; portage snapshots and overlay pulls arrive; packages are removed; with and without `--keep-going`: `PreparedRootIsClean`, `BuildsFromPreparedRoot`, `NoNeedlessRebuild`. | 2 profiles with an artifact each, one mishap, nothing starts after time 4, two versions of a source |
| `build_freshness` | `ReportedIsFresh`, `PackedNeverRegresses`: the sources that `build()` reads late (packages, artifact files) are edited at any time, profile and build.json between commands; snapshots arrive with any time of publication, pulls with and without a Manifest. | 1 profile, 1 artifact, one mishap up to the write of `.genpack/packages`, time 6 |
| `partial_build` | **Violated**: `ReportedIsComplete`. A build that fails after `copyup-packages` is complete for the next command. | 1 artifact, one mishap after the packages file |
| `cache_shared` | Two processes, one work directory, two profiles, `--keep-going`, versions published and HEAD failing at any time: `MarkedIsWhole`, `CalmCommandsSucceed`, `CommandsEnd`. | 3 commands, 2 mishaps |
| `cache_current` | `UsesCurrentTrees`, `KeptRootIsCurrent`. | 2 processes with a work directory each, 3 commands, one mishap |
| `stage3_published` | **Violated**: `KeptRootIsCurrent` when a stage3 is published while a command runs. | 1 process, no mishap |
| `update_safe` | `RunningImageKept`, `ImageSurvives`, `PreviousKept`, `FailureKeepsSystemImage`; both installers, both inits. | one installer at a time, 5 files, 4 mishaps |
| `update_done` | `DoneIsDurable`, `RetrySucceeds` for genpack-install with a losetup that may fail. | 5 files, 3 mishaps |
| `boot_layers` | `SessionsContinue`, `DatabaseContinues`, `SwapHeals`. | every program, six sets of media, 4 boots, 2 mishaps, free space on both sides of each limit |
| `mysql_interrupted` | **Violated**: `ServedIsWhole` after a copy that was cut off. | 2 boots, one mishap |
| `session` | A machine through its power cycles. `CalmEndUnmounts`: a shutdown in which no call fails leaves nothing mounted. `FsckOffline`, `FatHeals`: a FAT is repaired, never while mounted, and clean after the next shutdown that works. `StampGoesLast`. `NamedInForce`: what `system.ini` names is in force after a boot that works, whatever earlier ones left. `SettingsStay`, `KeysOnce`, and `SequencesEnd`. | seven machines, one or two for each program; three system.ini, which between them name each setting; 3 boots, one mishap, one edit |
| `fat_volume` | `FilesIntact`, `UsedClustersStay`, `FreeCountExact`, `PromisedFilesStay`, `CallsEnd`, and `Implements`: FatVolume implements FileStore. | 5 clusters, 2 entries of the FAT and 2 of the directory to a sector; three volumes: an empty root with FSInfo right; a full root with a directory and a file that have a cluster each, no FSInfo, and an end mark before a left-over file in the clusters outside; a deleted entry behind a directory, FSInfo wrong, and left-over files before an end mark; 5 requests, among them a directory's name, a bad name, size 0; one mishap |

**Why the bounds are enough.** Profiles share nothing in GenpackBuild but the sources, so
one profile with one artifact has every interleaving of edits, failures and
commands; the loops and `--keep-going` need two, which `build_failures` has. Six time
stamps allow a complete build, an edit or failure, and another command; with four, a failure or a new tree in the
first command and the one after it (edits of the profile are left to `build_freshness`). In TarballCache two
processes are what contends for a lock; three commands let one fail, and two
succeed after it on its leftovers. Five files are the first image, three updates and a configuration
file: enough to go through each of `img`, `cur`, `old` and `new` and round again.
In BootLayers a session is written, lost sight of in a boot with a fallback, and
looked for in a third; the fourth is for the change of image between them.
In `session` a first boot leaves something, by a failure, the power or the user, a second meets it, and a third shows
that it is mended. Five clusters, of which the second is the root directory and the third taken in two of the volumes, are enough for files of length 2 to
be refused, to fit, and to go round the end of the volume. In the empty root two files with clusters of their own come to stand side by
side, the file of the first request and another one; in the full one two entries have a cluster each from the start, and a new file
stretches the directory by a cluster with left-over entries in it, cleared or not. What follows finds the volume full. With two entries of the FAT to a sector an area lies in one sector
(4, 5), in two of them (5, 6), or at both ends (6, 2).

**What restricts a property**, and does not hold without the restriction:

* `ReportedIsFresh` without kills after the packages file (see `partial_build`) and without removed
  files: a file removed below a subdirectory changes no time that is compared
  (`genpack_artifact.py:79-82`). It does not speak of build.json or profiles edited while
  a command runs: those are read once.
  Of the portage tree and the overlay it says that a root made from an older one than there was at the start is reported only if
  the newer one is stamped no later than the root's `.done` (`TreeNoticed`). More does not hold: a snapshot that was published before
  `.done` was written, and fetched by a later command (which then kept the root or failed), is older than `.done` for
  every command after that (`genpack_profile.py:222`), and they report what was made from the old tree. A pull
  that brings no Manifest is passed over in the same way.
* `UsesCurrentTrees` and `KeptRootIsCurrent` without `--keep-going`, with separate work
  directories, and with nothing published during a command. With `--keep-going`
  a profile after a failed one gets no portage tree (`genpack_profile.py:97`).
* `MarkedIsWhole` needs processes on different profiles (`.stage3-done` is
  written without the lock).
* `RunningImageKept` needs one installer at a time (there is no lock; the catch block at
  `genpack-install.cpp:686` of one takes the other's files away) and a losetup that
  works (an error is taken for "not in use", `:184`).
* `DoneIsDurable` is about genpack-install: the script has no sync.
* `RetrySucceeds` is about an update without `--system-cfg`: a second one always
  fails, as the file exists (`:430`), after the new image is in place.
* `SessionsContinue` leaves out machines on which the move to the new place was cut off:
  the new place exists, so it is never resumed (`overlay_init.py:228`).
* `CalmEndUnmounts` and `FatHeals` leave out shutdowns for which systemd could not detach the loop
  device (`held`). init-systemimg.cpp never unmounts the read-write layer, nor a boot partition that is
  not vfat (`init-systemimg.cpp:529`). Of dirty FATs, init.cpp with `-DPARAVIRT` checks none,
  and initlib.cpp those it has been asked to.
* `NamedInForce` leaves out what initlib.cpp is asked for and does not do (`Neglected`): the password, as chpasswd
  is not connected to the pipe (`initlib.cpp:214-227`), the time zone, a link into the initramfs
  (`:482`), and the first key, for want of `/root/.ssh`. A key put behind a line without an end is no line of its own
  (`init.cpp:629`).
* `SettingsStay` leaves out what the hooks take back on purpose (`Replaced`); a hostname of the image is
  one of them in initlib.cpp, which looks for the file in the read-write layer only.
* `SequencesEnd` leaves out initlib.cpp's chpasswd, which waits for the console.
* `FilesIntact` and `UsedClustersStay` leave power failures out: a directory entry can outlive its chain. `FilesIntact` speaks of
  the files of the volume and those `f_open` made, and says that none of them is hidden, shared or torn. Left-over
  entries in a directory cluster that was linked and never cleared (`fat.cpp:2403`, `:2419`) are listed like files after a kill or a failed write: with their names and
  areas the library may answer that a file exists, or list two files of one name, of which a search finds the caller's own.
* `FreeCountExact` leaves out volumes with an allocation that was not finished or an FSInfo
  that was wrong to begin with. `AllocPastEnd` is one such: an area that goes round the
  end of the volume is refused half-way and its clusters are lost (`fat.cpp:6307`), while the caller reads NOSPACE.

**Fairness.** A genpack process in TarballCache is a sequential program, so its steps are weakly fair:
it goes on when it can, and the programs it starts end. No fairness between waiters of a lock is needed:
commands are finitely many and each holds a lock for finitely many steps.
Installer and boot steps are weakly fair for the same reason. `RetrySucceeds` also has
strong fairness on the user's *start* of a good update, which is what "keeps
trying" means, and its premise is that the machine stays up in the end. In `session` process 1 is one sequence: the
steps of a boot, of a shutdown, the hooks and `switch_root` are weakly fair, but not the hook of initlib.cpp that waits for the
console; nor does a running system ever have to shut down. The calls of the FAT library are plain functions, so one that has been entered
goes on (`WF_vars(Works)`). Commands, edits,
mishaps, publications and the power switch have no fairness. GenpackBuild, BootLayers and the other runs are about safety only.

**Deadlock** is checked in every run but `session`. GenpackBuild, TarballCache and BootLayers have a
stuttering action `Rest` for the one state in which they may stop: nothing is
running (the machine is off) and nobody starts anything. In FatVolume a call can always be made when none runs, so a
state without a step is a call that is stuck. In `session` the machine may be off with its boots used up, or process 1 gone.

## 4. The proofs

| module | theorem | says, for all values of the constants |
|---|---|---|
| GenpackBuildProofs | `TypeCorrect` | `TypeOK` |
| | `RootsAreClean` | `PreparedRootIsClean` |
| | `BuildsAreFromPreparedRoots` | `BuildsFromPreparedRoot` |
| | `ReportsAreFresh` | `ReportedIsFresh`, if `OneCommand` |
| | `RebuildsAreNeeded` | `NoNeedlessRebuild`, if `LateSourcesStill` |
| | `OutfilesNeverRegress` | `PackedNeverRegresses`, if `OwnOutfiles` |
| TarballCacheProofs | `CacheTypeCorrect` | `TypeOK`, which includes the lock discipline |
| | `MarkedTreesAreWhole` | `MarkedIsWhole` |
| | `CalmProcessesSucceed` | `CalmCommandsSucceed` |
| | `KeptRootsAreCurrent` | `KeptRootIsCurrent`, if `QuietUpstream` |
| | `CurrentTreesAreUsed` | `UsesCurrentTrees`, if `QuietUpstream` |
| ImageUpdateProofs | `UpdateTypeCorrect` | `TypeOK` |
| | `RunningImageIsKept` | `RunningImageKept` |
| | `SomeImageSurvives` | `ImageSurvives` |
| | `PreviousIsKept` | `PreviousKept` |
| | `SuccessIsDurable` | `DoneIsDurable` |
| | `FailuresKeepSystemImage` | `FailureKeepsSystemImage` |
| BootLayersProofs | `BootTypeCorrect` | `TypeOK` |
| | `SwapIsMadeAgain` | `SwapHeals` |
| | `SessionsAreContinued` | `SessionsContinue`, if `SameLayer` |
| | `DatabaseIsContinued` | `DatabaseContinues` |
| PowerCycleProofs | `CalmShutdownUnmounts` | `CalmEndUnmounts` |
| | `FatIsHealed` | `FatHeals` |
| | `FsckIsOffline` | `FsckOffline` |
| | `StampIsLast` | `StampGoesLast` |
| SystemSettingsProofs | `SettingsTypeCorrect` | `TypeOK`, of the machine and the settings |
| | `NamedIsInForce` | `NamedInForce` |
| | `UserSettingsStay` | `SettingsStay` |
| | `KeyIsAddedOnce` | `KeysOnce` |
| FatVolumeProofs | `ClustersStay` | `UsedClustersStay` |
| FatFilesProofs | `FatTypeCorrect` | `TypeOK` |
| | `FilesKept` | `FilesIntact` |
| | `PromisesKept` | `PromisedFilesStay` |
| | `StoreImplemented` | `Implements`: FatVolume refines FileStore |
| | `FreeCountRight` | `FreeCountExact` |

**GenpackBuild.** Any number of processes, profiles and artifacts, with mishaps in any
phases, under `DisjointProfiles`: processes at work at the same time have different profiles. (The code takes
no lock on a root, so without it the invariant is false.) `PreparedRootIsClean`
is not inductive: nothing in it says that a merge makes `/var/db/pkg` newer than the
`.done` that is there. `RootInv` adds that `done` and `pkgdb` are never in the future, that a
root touched since its last genpack-prepare (`gen = 0`) has a `.done` older than
the package database or none, and that otherwise `.done`, if it exists, is the one of
that run. For `BuildsFromPreparedRoot`, `ScopeInv` says that a process works on profiles and artifacts
of its own job, a profile being either to do, in hand or prepared, and `ReadyInv` that the roots of
the profiles on the list `prepared` stay untouched; `DisjointProfiles` keeps the other processes away from them.

The other three theorems are about deciding from time stamps. They hold for any number of profiles and artifacts and any
bounds, each under what it needs and no more:

* `ReportsAreFresh` needs `OneCommand`, every part of which answers to a hazard: a single process, because
  another one may pull the overlay between the scan of `link_files` and `.done`, which then looks newer than the pull; no outfile shared by two
  artifacts; no failure between the packages file and the end of mksquashfs (`partial_build` shows why); edits during a command
  only of what `build()` reads late; no removals. Failures and kills anywhere else, shells, `run`
  and `clean` are arbitrary. `FreshInv` carries the argument. A version differs from the one something was made from only if its mtime is newer, from the
  profile to the root (`SeenRoot`), and from sources and root to the upper directory (`SeenUpper`); of the trees nothing of the kind is true, and
  the theorem claims no more of them than that a later one with a stamp after `.done` is not passed over; a root called prepared is
  newer than all it was made from and stays so until the command ends (`RootsCurrent`, with `Scanned` for what the command saw);
  an upper directory nobody is working on is complete, and an image of it is in its outfile (`Settled`: an
  outfile older than its directory exists only while somebody makes it); what is being made is, phase by phase, no older
  than the start of the command (`Made`). Reported artifacts stay fresh to the end of the command, since nobody
  touches their root, directory or outfile (`Listed`).
* `RebuildsAreNeeded` allows any processes, failures, kills and removals. `MadeBefore`: as long as a source is what a build was made from, its mtime
  is older than the packages file, and so is the root's; `is_up_to_date` cannot fail for such a build then (`ReasonGiven`). `LateSourcesStill` is
  needed: a file edited after the packages file was written and before `sync_artifact` copies it is in the build and makes it look old.
* `OutfilesNeverRegress` allows all of that and edits at any time: the parts of a build are each compared
  with what the outfile has (`NewerBuild`), phase by phase (`NewerParts`), and the sources a command started with are no older than what it
  finds in directory and outfile (`NewerStart`).

**TarballCache.** The lock discipline in `TypeOK` (a lock is held by q exactly when q is in a phase
between acquiring and releasing it) makes two processes in the same critical phase
impossible (`PortageHandsOff`), and disjoint jobs do the same for a root (`RootHandsOff`).
The inductive invariant `MarkedInv` says beside `MarkedIsWhole` that a whole file has its version as mtime, that a process
works on one of its own profiles, and what the tree in the hands of a process
is between trash, tar and mark. `HeadMayFail`, `LivePublish` and `--keep-going` are
arbitrary here and in `CalmProcessesSucceed`, which does not even need disjoint jobs: `ServedInv` says that the stage3 in the
cache is never newer than what its lock holder was offered, so that wget runs only where there is something to fetch;
`CalmInv` that a URL a calm process has asked for once is in the cache, or being fetched by that
process, or superseded for good by a newer file, and that the file it hands to tar is whole.
The other two theorems assume `QuietUpstream`: no version is published while a command
runs, lengths can be asked for, and `--keep-going` is not given. Each part is needed. With a publication, a root made from the old tarball
is marked later than the new one's stamp (`stage3_published` shows it); without a length any file counts as
right; and with `--keep-going` a wget that fails before it truncates leaves the old file, which the next profile takes for fetched.
Then `RootsDated` is inductive with what the calm processes know of the upstream (`QuietInv`): a root marked after today's stage3 was published is
made from it. `ReadyInv`, for `UsesCurrentTrees`, says of each process which of the trees it has already
made ready and that they stay so; it needs `DisjointJobs`, and `OneWorkdir`: a command works in one work directory.

**ImageUpdate.** `KeepInv` for one installer and a working losetup: `SavedInv` (the running
image and `system.cur` are durable; while the machine is down all directories that may
be on the disk agree on `system.img`), `RunningImageKept`, `ImageSurvives`, `AsideInv` and `PreviousInv`.
None of the properties is inductive alone: that `Rename("new", "img")`
keeps the running image rests on losetup's answer being still right at `place`
(`AsideInv`: `system.cur` is the running image by then), and `PreviousKept` on where the next boot will
leave the last image in each of the directories a power failure may bring back (`PreviousInv`).
`MadeInv`, for `SuccessIsDurable`, follows the copy: after the end of `CopyEnd` it is whole and keeps the name
`new`, then `img`, until the sync; it allows a losetup that fails, and assumes genpack-install.
`ShownInv`, for `FailuresKeepSystemImage`: `system.img` is away only between the two renames, and a handler that
finds it away was reached by the one call that may fail, so what it does to bring it back works.

**BootLayers.** Any media, any images, any number of boots and mishaps. `MediaInv` says which layers a
phase can have taken, `PlaceInv` that what a place holds is in a directory there is, and that
`new` and `old` both exist while the items are moved. `CalmInv` follows a boot in which every call has worked: `LayerInv` gives the
layer each phase has come to (`CalmLayer`, a function of the media and the image alone), `SubvolumesInv` the subvolumes and the swap file, from which
`SwapHeals` follows. For `SessionsContinue`, `Home` names the place of what was kept: `new` only once
overlay_init.py has moved everything there. The upgrade from init.cpp to overlay_init.py keeps
`Home` only if both take the same layer, which is what `SameLayer` says of the media (`system.dat` is not looked for by overlay_init.py,
and the two programs prefer different disks); the code does nothing about other media. `SqlKept` has the database the same way: past the first boot it is never
`empty` where it is kept, so it is not made again, and no copy goes to that place.

**PowerCycle and SystemSettings.** Any fleet, any `system.ini`, any number of boots, mishaps and edits; the machine is the one SystemSettings
runs, whose hooks are one kind of step for it (`ConfigureStep`). What all the proofs need is an order of `todo`: the plans are sequences in which
each step may follow each earlier one (`FollowsUp`, `FollowsDown`), a tail of an ordered sequence is ordered, and `Left` is
the set of the steps ahead, so that an invariant can say "not yet" and "already" by membership. `MountedInv` says of a calm shutdown that what is mounted is still `Left` to be unmounted; the
boot partition can only be busy while something of it is, and the order puts `boot` after the layers and `fsck` after `boot`.
`FatInv` follows the dirty flag through a calm cycle, together with what it was at the mount (`FatBoot`, `FatDown`).
Of the settings, `Hooked(h)` is what any hook does: `Keeps` (no setting but its own), `AddsLine` (a key only where there is none), `Forces` (its own
setting, if it returns without a failure) and `Entitled` (a name not in `system.ini` is replaced only where that is meant); one lemma for each hook shows it. `HooksInv` relates the hooks ahead
to `todo`, and has the one order that matters: in init.cpp `wifi`, which empties the network directory, comes
before `address`. `ForceInv` is `NamedInForce` for the hooks that have run, before the switch; `SettingsStay` and `KeysOnce` are inductive with the rest.

**FatVolume.** Volumes, sectors and directories of any size, any requests, any number of mishaps; the property itself
leaves the steps of a power failure out. `ClusterInv` has two halves. `FatInv` is about the cache: the library's FAT differs from the disk
in the window at most and only while it is dirty (`Window`), and there only in entries that are free on the disk, or in the end
of the directory (`UsedKept`). So whatever writes the window back, and whichever call does so, loses nothing
(`DiskWritten`: the disk stays, or becomes what the library sees). That `UsedKept` is kept is up to the locals of the running call, `CallInv`:
the run of free clusters that `f_expand` has counted ends at the cluster it looks at or has gone past the end of the volume
(`Searching`), and what `Alloc` has still to write was free from there on (`Allocating`), however wrong the free
count and the hint are; a directory is stretched at an end (`Stretching`).
FatFilesProofs goes on from there to the directory. `WindowInv`: it differs from the disk in the window only (`DirWindow`), and a
sector that could not be cleared, which is zeros in the window and left-over entries on the disk, has none of the callers' files either
way (`Blanked`, `Similar`), whatever it lists. `PlaceInv` says where the running call stands: the name is in none of the
sectors it has passed, so the entry it makes is the only one of that name, and that entry stays empty until `CloseEntry`; `TypeOK` needs it, for `remove` finds
an entry without clusters. `GoodInv`, up to the first power failure, has of the disk and of what the
library sees, for every entry that is not left over: areas chained and disjoint, no cluster of theirs in the directory, a search for its name comes to it (so no end mark
and no left-over entry of that name is before it), and the area that is being allocated nobody's. `PromiseInv` holds through power failures too: a promised file has its entry and its chain in
what the library sees, on the disk and in *every* content a power failure can leave (`Held`), and a call that
makes or removes an entry has another name (`Spared`). That the promise can be made is `SyncFs`: it leaves
one content of each sector, the disk's.

`StoreImplemented` is the refinement, step by step. Under `Shown` most steps change no file (`FilesStay`: the window moves, an entry of
the FAT is written, a cluster is linked that does not count yet, or counts now that it is cleared); the others are an entry made, filled in or removed
(`RegisteredFiles`, `ClosedFiles`, `RemovedFiles`), exactly, as long as nothing has gone wrong, and else without
harm to the settled names. For the first of these `CalmInv` counts the mishaps (`Tallied`), has a clean window show the disk's directory until the first
error (`CalmWindow`), and no left-over entry in the directory until the first mishap (`NoRelics`). These are the promised files, neither more nor fewer (`PromisedFiles`, from `KeptInv`), so
kills, power failures and mounts, which may leave any older content, revert to a store with the same settled files
(`SettledStay`). Each answer is true of the files by `PlaceInv` (a name passed everywhere is absent, a match is a file) and, for "no space" after an unlink,
by `Gone`; the theorem has no bound on mishaps, the run has one.

`FreeCountRight` needs more than that the number of free clusters falls by one with each entry written (`OneTaken`), since the count is
subtracted later, once the whole chain is there. `FreeRight` says phase by phase how far the library's count is ahead: by the one
cluster of a stretched directory until it is linked, by what `Alloc` has written so far. FSInfo may be wrong only while the running call is bound to write it (`InfoDue`):
that a directory just stretched has room for the entry, so that `DirRegister` cannot give up there, is part of that. A mount
drops the window, so it has to be clean whenever no call is writing (`CleanWindow`), and an FSInfo without a count stays without one until the
library has counted (`NoCount`). `f_getfree` counts by sectors of the FAT; what it has is the number of free clusters in the
sectors before the current one (`PartRight`), whatever number of entries a sector has. A fault, a kill, a power failure or an allocation past the
end of the volume sets `torn`, and then nothing is claimed.

**Model-checked only.** Liveness (`CommandsEnd`, `RetrySucceeds`, `SequencesEnd`, `CallsEnd`): temporal proofs of this
kind need ENABLED, which the prover does not handle. Every safety and
action property of a passing run has a theorem.

## 5. What the models show of the code

Three properties that messages of the code state are violated (`findings` in `PROJECT.json`):

1. `partial_build`: a failure after the packages file is written makes the next
   command take the build for up to date and pack it (`genpack_artifact.py:238`).
2. `stage3_published`: "stage3 already extracted" for a root of the previous
   stage3 (`genpack_profile.py:126`).
3. `mysql_interrupted`: "MySQL data subvolume is mounted." for a part of the copy
   (`init.cpp:1204`); the paravirtual variant removes the part.

Met on the way, and not a run of their own:

* Installing from `system.old` removes it before it is copied, so it always fails (`genpack-install.cpp:672`).
* `genpack clean <artifact>` cleans all (`__main__.py:114`); `genpack run` boots the artifact directory in place.
* init-paravirt.cpp mounts `/dev/vdb` as the system and gives overlay-init the same device for data
  (`init-paravirt.cpp:139`).
* init-systemimg.cpp dereferences a boot partition that was not found (`init-systemimg.cpp:415`), and compares the
  result of waitpid with 0 (`:511`), so it takes every unmount for a failure.
* initlib.cpp forks chpasswd without connecting the pipe (`initlib.cpp:214-227`): it reads the console, and a boot with a
  password in `system.ini` waits there. Its time zone is a link into the initramfs (`:482`).
* A root stays on an old portage tree when the later snapshot was published before `.done` was written (`genpack_profile.py:214`, `:222`).
* `dir_clear` links a cluster to the directory before it clears it (`fat.cpp:2403`, `:2419`): a kill or an error in between lists what was there before.
* `f_expand` looks for its contiguous area round the end of the volume (`fat.cpp:6307`). One that begins at the end is refused
  half-way; the entries written stay in use, and no file has them.
* `dir_find` stops at the first end mark (`fat.cpp:3201`), `dir_alloc` fills any free entry (`:2560`): after a failed sync or a kill and then a
  power failure, a file behind an end mark is not found, and is there again once another is created.

## 6. Not modelled, and why

* Option parsing, qemu command lines, accessors and string functions of packages have no state of their own; the
  dependency scan of `package.py` has no caller.
* Of `fat.cpp`: FAT12/16 and exFAT, long names and code pages, paths with directories, the second FAT, and the functions
  fat.h does not reach (reading and writing of file contents, `remove_chain` of a file that has clusters, `f_mkfs`, ...).
* The docker subvolume, LUKS, wireguard and what a derived program overrides in initlib.
* The bootstrap scripts run other programs in a straight line. Partitioning and boot
  loaders end in programs whose effect is not in the repository.

## 7. Plan

Written so far: GenpackBuild, TarballCache, ImageUpdate, BootLayers, PowerCycle with SystemSettings, FatVolume with FileStore as its
abstract specification, and proofs about all of them. Next:

1. **Abstract specifications** of the build (an outfile is replaced as a whole by an
   image of some state of its sources) and of the update (an atomic switch between two bootable images),
   implemented by the detailed modules as FileStore is by FatVolume.
2. **Composition.** TarballCache and GenpackBuild share the root: `TrashRoot`, `Untar` and
   `Link` of the one are many steps of the other, with the overlay pulled by another
   process in between. The trash directory that processes share belongs there.
3. **Wider models.** Variants with one outfile, and a clock
   that stands still, in GenpackBuild; `install_to_disk` before ImageUpdate's `Init`; `do-with-lvm-snapshot` and
   `expand-rw-layer` as small state machines.
4. **Pure algorithms** as operators checked against reference definitions: the expansion of package sets
   (`get_all_sets`) and the selection of disks (`print_installable_disks`, `install_to_disk`).
