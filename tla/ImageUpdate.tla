----------------------------- MODULE ImageUpdate -----------------------------
(***************************************************************************)
(* Updating the system image of a running machine                          *)
(* (src/obsoleted/util/genpack-install.cpp, install-system-image) and what *)
(* the init program does with the images at the next boot                  *)
(* (src/obsoleted/init/init.cpp, init-systemimg.cpp, initlib.cpp).         *)
(*                                                                         *)
(* The boot partition is one directory with the files system.img, .cur,    *)
(* .old, .new and .cfg.  A file is a number, given when it is created,     *)
(* that stands for its inode and its contents; 0 is no file.  Renames      *)
(* reach the disk in order but late: `behind' holds the directories a      *)
(* power failure may still bring back.  The contents of a copied file may  *)
(* be lost too until a sync: a truncated squashfs image has no tables and  *)
(* does not mount.                                                         *)
(***************************************************************************)
EXTENDS Naturals

CONSTANTS
  Procs,           \* processes of an installer
  Installers,      \* which are used: "cpp" (genpack-install), "sh" (install-system-image)
  Inits,           \* which boot: "init" (init.cpp, initlib.cpp), "systemimg" (init-systemimg.cpp)
  WithConfig,      \* whether --system-cfg is given
  LosetupMayFail,  \* losetup may exit with an error
  MaxCopies,       \* bound on the files created
  MaxMishaps       \* bound on failing calls, kills, power failures and
                   \* shutdowns in the middle of an update

ASSUME ConstantsAssumption ==
  /\ Installers \subseteq {"cpp", "sh"}
  /\ Inits \subseteq {"init", "systemimg"}
  /\ WithConfig \subseteq BOOLEAN
  /\ LosetupMayFail \in BOOLEAN
  /\ MaxCopies \in Nat \ {0} /\ MaxMishaps \in Nat

VARIABLES
  dir,      \* the directory of the boot partition: name -> file
  whole,    \* files whose contents are complete
  durable,  \* those whose contents are on the disk
  behind,   \* earlier directories that may be the ones on the disk
  copies,   \* files created so far
  boot,     \* phase of the machine
  running,  \* the file that is loop-mounted as the root filesystem
  lastRun,  \* the one that was before (history)
  prev,     \* the image this one replaced, until the next install (history)
  ins,      \* process -> the installer's state
  mishaps

disk == <<dir, whole, durable, behind, copies>>
machine == <<boot, running, lastRun, prev>>
vars == <<disk, machine, ins, mishaps>>
-----------------------------------------------------------------------------
NoFile == 0
Names == {"img", "cur", "old", "new", "cfg"}
Exists(name) == dir[name] # NoFile

(* good: the image given is whole; file: the copy being made; had: there   *)
(* was a system.img when the installer started; calm: no call has failed.  *)
Idle == [at |-> "idle", kind |-> "none", source |-> "none", good |-> FALSE,
         cfg |-> FALSE, file |-> NoFile, had |-> FALSE, calm |-> TRUE,
         result |-> "none"]

(* install_to_disk has put one image on the partition; it is being booted. *)
Init ==
  /\ dir = [n \in Names |-> IF n = "img" THEN 1 ELSE NoFile]
  /\ whole = {1} /\ durable = {1} /\ behind = {}
  /\ copies = 1
  /\ boot = "off" /\ running = NoFile /\ lastRun = NoFile /\ prev = NoFile
  /\ ins = [q \in Procs |-> Idle]
  /\ mishaps = 0

At(q, phase) == ins[q].at = phase
Become(q, i) == ins' = [ins EXCEPT ![q] = i]
Goto(q, phase) == Become(q, [ins[q] EXCEPT !.at = phase])
Return(q, result) == Become(q, [ins[q] EXCEPT !.at = "idle", !.result = result])

Change(d) == dir' = d /\ behind' = behind \cup {dir}
Remove(name) == Change([dir EXCEPT ![name] = NoFile])
Rename(from, to) == Change([dir EXCEPT ![to] = dir[from], ![from] = NoFile])
Sync == behind' = {} /\ durable' = whole

(* Mutant of Looped: the test is turned round.                             *)
NotLooped == Exists("img") /\ dir["img"] # running

(* is_image_file_loopbacked: losetup -j compares inodes.                   *)
Looped == Exists("img") /\ dir["img"] = running
-----------------------------------------------------------------------------
(* The user starts an installer with an image file from elsewhere, whole   *)
(* or damaged, or goes back to system.old.                                 *)
Start(q, kind, source, good, withCfg) ==
  /\ boot = "up" /\ At(q, "idle")
  /\ copies < MaxCopies
  /\ source = "old" => Exists("old") /\ good = (dir["old"] \in whole)
  /\ kind = "sh" => ~withCfg
  /\ Become(q, [Idle EXCEPT !.at = "check", !.kind = kind, !.source = source,
                            !.good = good, !.cfg = withCfg, !.had = Exists("img")])
  /\ prev' = NoFile
  /\ UNCHANGED <<disk, boot, running, lastRun, mishaps>>

(* check_system_image mounts the file; the script asks file(1), which sees *)
(* the first bytes only.                                                   *)
Check(q) ==
  /\ At(q, "check")
  /\ IF ins[q].good \/ ins[q].kind = "sh"
     THEN Goto(q, "remove_old")
     ELSE Return(q, "failed")
  /\ UNCHANGED <<disk, machine, mishaps>>

(* "Old system image removed to preserve disk space."                      *)
RemoveOld(q) ==
  /\ At(q, "remove_old")
  /\ IF Exists("old") THEN Remove("old") ELSE UNCHANGED <<dir, behind>>
  /\ Goto(q, "copy")
  /\ UNCHANGED <<whole, durable, copies, machine, mishaps>>

(* Where a call that fails leads: the catch block of install_self handles  *)
(* the exceptions of std::filesystem only, the script tests each command   *)
(* by itself.                                                              *)
AfterError(i) ==
  IF i.kind = "cpp"
  THEN IF i.at \in {"copy", "copying", "set_aside", "place"} THEN "handler" ELSE "idle"
  ELSE CASE i.at = "remove_old" -> "copy"
         [] i.at \in {"copy", "copying"} -> "cleanup"
         [] i.at = "place" -> "handler"
         [] OTHER -> "idle"
Errored(i) ==
  [i EXCEPT !.at = AfterError(i),
            !.result = IF AfterError(i) = "idle" THEN "failed" ELSE @]

(* copy_file refuses to overwrite system.new, cp does not; a system.old    *)
(* that was to be copied is gone by now.                                   *)
CanCopy(i) ==
  /\ i.source = "outside" \/ Exists("old")
  /\ i.kind = "cpp" => ~Exists("new")

CopyBegin(q) ==
  /\ At(q, "copy")
  /\ \/ /\ CanCopy(ins[q])
        /\ copies' = copies + 1
        /\ Change([dir EXCEPT !["new"] = copies'])
        /\ Become(q, [ins[q] EXCEPT !.at = "copying", !.file = copies'])
     \/ /\ ~CanCopy(ins[q])
        /\ Become(q, Errored(ins[q]))
        /\ UNCHANGED <<dir, behind, copies>>
  /\ UNCHANGED <<whole, durable, machine, mishaps>>

CopyEnd(q) ==
  /\ At(q, "copying")
  /\ whole' = IF ins[q].good THEN whole \cup {ins[q].file} ELSE whole
  /\ Goto(q, "losetup")
  /\ UNCHANGED <<dir, durable, behind, copies, machine, mishaps>>

AskLosetup(q) ==
  /\ At(q, "losetup")
  /\ Goto(q, IF Looped THEN "set_aside" ELSE "place")
  /\ UNCHANGED <<disk, machine, mishaps>>

(* losetup ran and failed: taken for "no".                                 *)
LosetupFails(q) ==
  /\ At(q, "losetup") /\ LosetupMayFail
  /\ mishaps < MaxMishaps
  /\ mishaps' = mishaps + 1
  /\ Goto(q, "place")
  /\ UNCHANGED <<disk, machine>>

(* "Original system image preserved..."                                    *)
SetAside(q) ==
  /\ At(q, "set_aside")
  /\ IF Exists("img")
     THEN Rename("img", "cur") /\ Goto(q, "place")
     ELSE Become(q, Errored(ins[q])) /\ UNCHANGED <<dir, behind>>
  /\ UNCHANGED <<whole, durable, copies, machine, mishaps>>

Place(q) ==
  /\ At(q, "place")
  /\ IF Exists("new")
     THEN /\ Rename("new", "img")
          /\ IF ins[q].kind = "cpp" THEN Goto(q, "config") ELSE Return(q, "done")
     ELSE Become(q, Errored(ins[q])) /\ UNCHANGED <<dir, behind>>
  /\ UNCHANGED <<whole, durable, copies, machine, mishaps>>

(* Mutant of Restore: the handler only cleans up.                          *)
RestoreNothing(q) ==
  /\ At(q, "handler")
  /\ IF ins[q].kind = "cpp" THEN Goto(q, "cleanup") ELSE Return(q, "failed")
  /\ UNCHANGED <<disk, machine, mishaps>>

(* The catch block puts system.cur back only where system.img is missing,  *)
(* the script ("Restoring original image...") in any case.                 *)
Restore(q) ==
  /\ At(q, "handler")
  /\ IF Exists("cur") /\ (ins[q].kind = "cpp" => ~Exists("img"))
     THEN Rename("cur", "img")
     ELSE UNCHANGED <<dir, behind>>
  /\ IF ins[q].kind = "cpp" THEN Goto(q, "cleanup") ELSE Return(q, "failed")
  /\ UNCHANGED <<whole, durable, copies, machine, mishaps>>

(* Mutant of Cleanup: system.new is left behind.                           *)
CleanupNothing(q) ==
  /\ At(q, "cleanup")
  /\ Return(q, "failed")
  /\ UNCHANGED <<disk, machine, mishaps>>

Cleanup(q) ==
  /\ At(q, "cleanup")
  /\ IF Exists("new") THEN Remove("new") ELSE UNCHANGED <<dir, behind>>
  /\ Return(q, "failed")
  /\ UNCHANGED <<whole, durable, copies, machine, mishaps>>

(* copy_system_cfg_ini: copy_file again, outside of the try block.         *)
CopyConfig(q) ==
  /\ At(q, "config")
  /\ IF ~ins[q].cfg THEN Goto(q, "sync") /\ UNCHANGED <<dir, behind, copies>>
     ELSE IF Exists("cfg")
     THEN Become(q, Errored(ins[q])) /\ UNCHANGED <<dir, behind, copies>>
     ELSE /\ copies' = copies + 1
          /\ Change([dir EXCEPT !["cfg"] = copies'])
          /\ Goto(q, "sync")
  /\ UNCHANGED <<whole, durable, machine, mishaps>>

(* Mutant of SyncDisk: no sync().                                          *)
DoneUnsynced(q) ==
  /\ At(q, "sync")
  /\ Return(q, "done")
  /\ UNCHANGED <<disk, machine, mishaps>>

SyncDisk(q) ==
  /\ At(q, "sync")
  /\ Sync
  /\ Return(q, "done")
  /\ UNCHANGED <<dir, whole, copies, machine, mishaps>>

(* One call of an installer fails; what comes after it works.              *)
Fail(q) ==
  /\ ins[q].at \notin {"idle", "sync"} /\ ins[q].calm
  /\ mishaps < MaxMishaps
  /\ mishaps' = mishaps + 1
  /\ Become(q, Errored([ins[q] EXCEPT !.calm = FALSE]))
  /\ UNCHANGED <<disk, machine>>

Kill(q) ==
  /\ ~At(q, "idle")
  /\ mishaps < MaxMishaps
  /\ mishaps' = mishaps + 1
  /\ Return(q, "killed")
  /\ UNCHANGED <<disk, machine>>
-----------------------------------------------------------------------------
(* Mutant of Stop: installers survive the machine.                         *)
StopMachineOnly ==
  /\ boot' = "off" /\ running' = NoFile
  /\ UNCHANGED <<ins, copies, lastRun, prev>>

(* The machine stops, cleanly or not; installers end with it.              *)
Stop ==
  /\ boot' = "off" /\ running' = NoFile
  /\ ins' = [q \in Procs |-> Idle]
  /\ UNCHANGED <<copies, lastRun, prev>>

Shutdown ==
  /\ boot = "up"
  /\ IF \A q \in Procs : At(q, "idle")
     THEN UNCHANGED mishaps
     ELSE mishaps < MaxMishaps /\ mishaps' = mishaps + 1
  /\ Sync
  /\ Stop
  /\ UNCHANGED <<dir, whole>>

PowerFailure ==
  /\ boot # "off"
  /\ mishaps < MaxMishaps
  /\ mishaps' = mishaps + 1
  /\ dir' \in behind \cup {dir} /\ behind' = {}
  /\ \E saved \in SUBSET (whole \ durable) : whole' = durable \cup saved
  /\ durable' = whole'
  /\ Stop

PowerOn(init) ==
  /\ boot = "off"
  /\ boot' = IF init = "init" THEN "preserve" ELSE "rotate"
  /\ UNCHANGED <<disk, running, lastRun, prev, ins, mishaps>>

(* Mutant of Preserve: it is not tested whether there is a system.cur.     *)
PreserveUnchecked ==
  /\ boot = "preserve"
  /\ dir' = [dir EXCEPT !["old"] = dir["cur"], !["cur"] = NoFile]
  /\ behind' = {} /\ durable' = whole
  /\ boot' = "mount"
  /\ UNCHANGED <<whole, copies, running, lastRun, prev, ins, mishaps>>

(* preserve_previous_system_image; a rename that fails is ignored.         *)
Preserve ==
  /\ boot = "preserve"
  /\ \/ /\ Exists("cur")
        /\ dir' = [dir EXCEPT !["old"] = dir["cur"], !["cur"] = NoFile]
        /\ behind' = {} /\ durable' = whole
        /\ UNCHANGED mishaps
     \/ ~Exists("cur") /\ UNCHANGED <<dir, behind, durable, mishaps>>
     \/ /\ Exists("cur") /\ mishaps < MaxMishaps
        /\ mishaps' = mishaps + 1
        /\ UNCHANGED <<dir, behind, durable>>
  /\ boot' = "mount"
  /\ UNCHANGED <<whole, copies, running, lastRun, prev, ins>>

(* Mutant of Rotate: system.old is removed whether or not there is a       *)
(* system.cur to take its place.                                           *)
RotateUnchecked ==
  /\ boot \in {"rotate", "rotated"}
  /\ \/ /\ boot = "rotate"
        /\ IF Exists("old") THEN Remove("old") ELSE UNCHANGED <<dir, behind>>
        /\ boot' = "rotated"
     \/ /\ boot = "rotated"
        /\ IF Exists("cur") THEN Rename("cur", "old") ELSE UNCHANGED <<dir, behind>>
        /\ boot' = "mount"
  /\ UNCHANGED <<whole, durable, copies, running, lastRun, prev, ins, mishaps>>

(* init-systemimg.cpp renames in two steps, and halts when one fails.      *)
Rotate ==
  /\ boot \in {"rotate", "rotated"}
  /\ \/ /\ boot = "rotate"
        /\ IF Exists("cur") /\ Exists("old") THEN Remove("old") ELSE UNCHANGED <<dir, behind>>
        /\ boot' = "rotated"
        /\ UNCHANGED mishaps
     \/ /\ boot = "rotated"
        /\ IF Exists("cur") THEN Rename("cur", "old") ELSE UNCHANGED <<dir, behind>>
        /\ boot' = "mount"
        /\ UNCHANGED mishaps
     \/ /\ Exists("cur") /\ mishaps < MaxMishaps
        /\ mishaps' = mishaps + 1
        /\ boot' = "off"
        /\ UNCHANGED <<dir, behind>>
  /\ UNCHANGED <<whole, durable, copies, running, lastRun, prev, ins>>

(* Only a whole system.img can be mounted; otherwise the machine halts.    *)
Mount ==
  /\ boot = "mount"
  /\ IF dir["img"] \in whole
     THEN /\ boot' = "up"
          /\ running' = dir["img"] /\ lastRun' = dir["img"]
          /\ prev' = IF lastRun \in {NoFile, dir["img"]} THEN prev ELSE lastRun
     ELSE boot' = "off" /\ UNCHANGED <<running, lastRun, prev>>
  /\ UNCHANGED <<disk, ins, mishaps>>

Install(q) ==
  \/ Check(q) \/ RemoveOld(q) \/ CopyBegin(q) \/ CopyEnd(q) \/ AskLosetup(q)
  \/ SetAside(q) \/ Place(q) \/ Restore(q) \/ Cleanup(q) \/ CopyConfig(q) \/ SyncDisk(q)

Boot == Preserve \/ Rotate \/ Mount

StartSome(q) ==
  \E kind \in Installers, source \in {"outside", "old"}, good \in BOOLEAN,
     withCfg \in WithConfig : Start(q, kind, source, good, withCfg)

Next ==
  \/ \E q \in Procs : StartSome(q) \/ Install(q) \/ LosetupFails(q) \/ Fail(q) \/ Kill(q)
  \/ Shutdown \/ PowerFailure \/ Boot
  \/ \E init \in Inits : PowerOn(init)

Spec == Init /\ [][Next]_vars

(* The user tries until the update is in place.                            *)
FairSpec ==
  /\ Spec
  /\ \A q \in Procs : /\ WF_vars(Install(q))
                      /\ SF_vars(Start(q, "cpp", "outside", TRUE, FALSE))
  /\ WF_vars(Boot) /\ WF_vars(\E init \in Inits : PowerOn(init))
-----------------------------------------------------------------------------
InstallPhases == {"idle", "check", "remove_old", "copy", "copying", "losetup",
                  "set_aside", "place", "handler", "cleanup", "config", "sync"}
BootPhases == {"off", "preserve", "rotate", "rotated", "mount", "up"}
InstallerType ==
  [at : InstallPhases, kind : {"none", "cpp", "sh"}, source : {"none", "outside", "old"},
   good : BOOLEAN, cfg : BOOLEAN, file : Nat, had : BOOLEAN, calm : BOOLEAN,
   result : {"none", "done", "failed", "killed"}]

TypeOK ==
  /\ dir \in [Names -> Nat]
  /\ behind \in SUBSET [Names -> Nat]
  /\ durable \in SUBSET whole
  /\ whole \in SUBSET (Nat \ {NoFile})
  /\ copies \in Nat
  /\ boot \in BootPhases
  /\ running \in Nat /\ lastRun \in Nat /\ prev \in Nat
  /\ ins \in [Procs -> InstallerType]
  /\ \A q \in Procs : /\ At(q, "idle") \/ boot = "up"
                      /\ At(q, "copying") => ins[q].file # NoFile
  /\ mishaps \in 0..MaxMishaps

(* What a power failure in this state may leave on the disk.               *)
OnDisk == behind \cup {dir}

(* The image the machine runs from keeps a name on the boot partition: it  *)
(* is still there when the new one turns out not to boot.                  *)
RunningImageKept ==
  boot = "up" => \A d \in OnDisk : running \in {d["img"], d["cur"]}

(* Wherever an update, a boot or the power is interrupted, some image is   *)
(* left whole under one of the names a rescue looks at.                    *)
ImageSurvives ==
  \A d \in OnDisk : \E name \in {"img", "cur", "old"} : d[name] \in durable

(* An installer that returns, whatever call of it failed, has not made     *)
(* system.img disappear: GRUB finds it at the next boot.                   *)
FailureKeepsSystemImage ==
  \A q \in Procs :
    At(q, "idle") /\ ins[q].result \in {"done", "failed"} /\ ins[q].had => Exists("img")

(* When an installer reports success the new image boots, even after a     *)
(* power failure.                                                          *)
DoneIsDurable ==
  \A q \in Procs :
    ins[q].result = "done" => \A d \in OnDisk : d["img"] \in durable

(* After the boot into an update, the image it replaced is kept until the  *)
(* next installer starts.                                                  *)
PreviousKept ==
  prev # NoFile =>
    prev \in durable /\ \A d \in OnDisk : prev \in {d["cur"], d["old"]}

(* Failures and kills leave nothing that would stop every later attempt: a *)
(* user who keeps trying on a machine that stays up gets the update.       *)
RetrySucceeds ==
  <>[](boot = "up") => <>(\E q \in Procs : ins[q].result = "done")
=============================================================================
