----------------------------- MODULE PowerCycle -----------------------------
(***************************************************************************)
(* A machine between two presses of its power switch: the boot partition   *)
(* is looked for and mounted, the layers of the root filesystem are put on *)
(* top, the real init runs, and the same program, started again as         *)
(* /shutdown, takes everything down.  The image decides which program:     *)
(*   "init"       src/obsoleted/init/init.cpp                              *)
(*   "xen"        the same with -DPARAVIRT                                 *)
(*   "initlib"    src/obsoleted/initlib/initlib.cpp                        *)
(*   "systemimg"  init-systemimg.cpp, and overlay_init.py after it         *)
(*   "paravirt"   init-paravirt.cpp, and overlay_init.py after it          *)
(* What a layer holds is the matter of BootLayers, what is written into    *)
(* the new root that of SystemSettings, which runs the machine.            *)
(***************************************************************************)
EXTENDS Naturals, Sequences, SequencesExt

CONSTANTS
  Machines,   \* the machines: program, boot filesystem, fallback, EFI variables
  MaxBoots,   \* bound on the boots
  MaxMishaps  \* bound on failing calls and power failures

Programs == {"init", "xen", "initlib", "systemimg", "paravirt"}

(* fs "readonly" stands for a write-protected device, squashfs or iso9660; *)
(* fallback: one of /dev/vda1, /dev/sda1, ... exists; persistent: the      *)
(* read-write layer is not a tmpfs.                                        *)
MachineType ==
  [program : Programs, fs : {"vfat", "other", "readonly"}, fallback : BOOLEAN, efi : BOOLEAN,
   persistent : BOOLEAN]

ASSUME PowerAssumption ==
  Machines \subseteq MachineType /\ MaxBoots \in Nat /\ MaxMishaps \in Nat

VARIABLES
  machine,
  phase,     \* "off", "find", "boot", "up", "down", "panic" (process 1 is gone)
  todo,      \* the steps ahead, of the boot or of the shutdown
  search,    \* of the boot partition: what by, and how often
  mounted,   \* what is mounted (when the power went, if the machine is off)
  readonly,  \* the boot partition is mounted read-only
  env,       \* /run/initramfs/shutdown is there, whole
  stamp,     \* boottime.txt is on the boot partition
  fat,       \* of a vfat boot partition: dirty flag, and whether it was set at mount
  held,      \* the loop device of system.img outlives its mount
  repair,    \* the running system has asked for a repair of the boot partition
  checked,   \* "no", "offline", "mounted": how fsck.fat found it at shutdown
  ended,     \* how it has ended, of a machine that is off
  calm,      \* no call has failed since the power came
  boots, mishaps

partition == <<readonly, stamp, fat>>
flags == <<held, repair, checked>>
power == <<machine, phase, todo, search, mounted, partition, env, flags, ended, calm,
           boots, mishaps>>

Idle == [by |-> "none", tries |-> 0]

program == machine.program
Vfat == machine.fs = "vfat"

Works == UNCHANGED <<calm, mishaps>>
Fails == mishaps < MaxMishaps /\ mishaps' = mishaps + 1 /\ calm' = FALSE
-----------------------------------------------------------------------------
(* "check": fsck.fat before mounting; "move": tmpfs on run, and the mounts *)
(* moved under it; "env": the shutdown environment.                        *)
InitBoot ==
  <<"boot", "stamp", "ro", "rw", "root", "move", "env", "configure", "generate", "switch">>

XenBoot == <<"boot", "ro", "rw", "root", "move", "env", "configure", "switch">>

InitlibBoot == <<"boot", "stamp", "ro", "rw", "root", "move", "configure", "env", "switch">>

SystemimgBoot ==
  <<"check", "boot", "stamp", "ro", "move", "env", "rw", "root", "move", "switch">>

ParavirtBoot == <<"ro", "move", "rw", "root", "move", "switch">>

UpPlan ==
  [init |-> InitBoot, xen |-> XenBoot, initlib |-> InitlibBoot, systemimg |-> SystemimgBoot,
   paravirt |-> ParavirtBoot]

(* Mutants of InitShutdown: the boot partition before the layers, and      *)
(* nobody unmounts the system image by itself.                             *)
InitShutdownEager ==
  <<"take", "unstamp", "boot", "root", "ro", "rw", "swap", "fsck", "reboot">>

SystemimgShutdownNoImage == <<"take", "root", "unstamp", "boot", "reboot">>

(* "take": /oldroot/run moved to /mnt; "root": what is left of the old     *)
(* root.                                                                   *)
InitShutdown == <<"take", "root", "ro", "rw", "swap", "unstamp", "boot", "fsck", "reboot">>

(* Without fsck.fat with -DPARAVIRT.                                       *)
XenShutdown == <<"take", "root", "ro", "rw", "swap", "unstamp", "boot", "reboot">>

InitlibShutdown == <<"take", "root", "ro", "rw", "unstamp", "boot", "fsck", "reboot">>

(* The read-write layer is not unmounted.                                  *)
SystemimgShutdown == <<"take", "root", "ro", "unstamp", "boot", "reboot">>

DownPlan ==
  [init |-> InitShutdown, xen |-> XenShutdown,
   initlib |-> InitlibShutdown, systemimg |-> SystemimgShutdown, paravirt |-> <<>>]

PowerInit ==
  /\ machine \in Machines
  /\ phase = "off" /\ todo = <<>>
  /\ search = Idle
  /\ mounted = {} /\ readonly = FALSE /\ env = FALSE
  /\ stamp = FALSE /\ fat = [dirty |-> FALSE, before |-> FALSE]
  /\ held = FALSE /\ repair = FALSE /\ checked = "no"
  /\ ended = "none" /\ calm = TRUE /\ boots = 0 /\ mishaps = 0

(* The machine is about to take this step.                                 *)
Ahead(step) == phase \in {"boot", "down"} /\ todo # <<>> /\ Head(todo) = step
Advance == todo' = Tail(todo) /\ UNCHANGED phase

(* The power goes, or reboot() is called.                                  *)
GoOff(how) == phase' = "off" /\ todo' = <<>> /\ ended' = how

(* An exception of the boot: main prints it and halts.                     *)
Halt == GoOff("halt")
-----------------------------------------------------------------------------
(* How often a program looks again.                                        *)
Retries ==
  CASE program = "systemimg" -> 4
    [] program \in {"init", "initlib"} -> 3
    [] OTHER -> 0

(* hinted: the bootloader has passed boot_partition_uuid.                  *)
PowerOn(hinted) ==
  /\ phase \in {"off", "panic"} /\ boots < MaxBoots
  /\ phase' = "find" /\ boots' = boots + 1
  /\ search' = [by |-> IF hinted \/ Retries = 0 THEN "uuid" ELSE "nothing", tries |-> 0]
  /\ todo' = UpPlan[program]
  /\ mounted' = {} /\ readonly' = FALSE /\ env' = FALSE
  /\ fat' = [fat EXCEPT !.before = FALSE]
  /\ held' = FALSE /\ repair' = FALSE /\ checked' = "no"
  /\ ended' = "none" /\ calm' = TRUE
  /\ UNCHANGED <<machine, stamp, mishaps>>

Found == phase' = "boot" /\ search' = Idle /\ UNCHANGED <<todo, ended>>

(* No partition has come up in time: init.cpp takes a device by its name.  *)
FallBack == program = "init" /\ machine.fallback /\ Works /\ Found

(* init-systemimg.cpp asks the EFI variables, and waits again.             *)
AskEfi ==
  /\ program = "systemimg" /\ machine.efi /\ search.by # "efi"
  /\ \/ Works /\ search' = [by |-> "efi", tries |-> 0] /\ UNCHANGED <<phase, todo, ended>>
     \/ Fails /\ Halt /\ search' = Idle

(* It then prints the name of the partition it has not got: nothing, and   *)
(* an error after that, or the end of process 1.                           *)
EfiTimeOut ==
  /\ program = "systemimg" /\ search.by = "efi"
  /\ Works /\ search' = Idle
  /\ \/ Halt
     \/ phase' = "panic" /\ todo' = <<>> /\ ended' = "panic"

Undetermined ==
  /\ ~(program = "init" /\ machine.fallback)
  /\ ~(program = "systemimg" /\ (machine.efi \/ search.by = "efi"))
  /\ Works /\ Halt /\ search' = Idle

GiveUp == FallBack \/ AskEfi \/ EfiTimeOut \/ Undetermined

(* Mutant of LookAgain: the looks are not counted.                         *)
LookAgainForever ==
  /\ search.by # "nothing" /\ Retries > 0
  /\ search' = [search EXCEPT !.tries = 1 - @]
  /\ UNCHANGED <<phase, todo, ended>>

(* The disk may take its time: a sleep, and another look.                  *)
LookAgain ==
  /\ search.by # "nothing" /\ search.tries < Retries
  /\ search' = [search EXCEPT !.tries = @ + 1]
  /\ UNCHANGED <<phase, todo, ended>>

(* One look at the block devices, where the partition is or is not: by its *)
(* tag, or, by the paravirtual programs, by a name that is fixed.          *)
SeenByTag == Retries > 0 /\ search.by # "nothing" /\ Works /\ Found
SeenByName == Retries = 0 /\ Works /\ Found

LookUp ==
  /\ phase = "find"
  /\ \/ SeenByTag
     \/ SeenByName
     \/ Works /\ LookAgain
     \/ (search.by = "nothing" \/ search.tries >= Retries) /\ GiveUp
  /\ UNCHANGED <<machine, mounted, partition, env, flags, boots>>
-----------------------------------------------------------------------------
(* The flag of the boot sector.                                            *)
Dirty == Vfat /\ fat.dirty

(* Mutant of CheckFat: nobody looks at the dirty flag.                     *)
CheckFatNever ==
  /\ phase = "boot" /\ Ahead("check")
  /\ Advance /\ Works
  /\ UNCHANGED <<machine, search, mounted, partition, env, flags, ended, boots>>

(* "Boot partition not properly unmounted last time. Fixing..."            *)
CheckFat ==
  /\ phase = "boot" /\ Ahead("check")
  /\ Advance
  /\ \/ Works /\ fat' = [fat EXCEPT !.dirty = FALSE]
     \/ Dirty /\ Fails /\ UNCHANGED fat
  /\ UNCHANGED <<machine, search, mounted, readonly, stamp, env, flags, ended, boots>>

(* Linux sets the flag of a FAT it mounts for writing, and clears it when  *)
(* it is done unless it was set before.                                    *)
Opened == IF Vfat THEN [dirty |-> TRUE, before |-> fat.dirty] ELSE fat
Reopened == IF Vfat THEN [fat EXCEPT !.dirty = TRUE] ELSE fat
Closed == IF Vfat THEN [fat EXCEPT !.dirty = fat.before] ELSE fat

(* A device that is write-protected, or holds a squashfs.                  *)
ReadOnlyDevice == machine.fs = "readonly"

MountBoot ==
  /\ phase = "boot" /\ Ahead("boot")
  /\ \/ /\ Works /\ Advance
        /\ mounted' = mounted \cup {"boot"}
        /\ readonly' = ReadOnlyDevice
        /\ fat' = Opened
        /\ UNCHANGED ended
     \/ Fails /\ Halt /\ UNCHANGED <<mounted, readonly, fat>>
  /\ UNCHANGED <<machine, search, stamp, env, flags, boots>>

(* The time of the boot, where the partition is taken for writable.        *)
WriteStamp ==
  /\ phase = "boot" /\ Ahead("stamp")
  /\ Advance
  /\ LET writable == IF program = "systemimg" THEN Vfat ELSE ~readonly
     IN \/ Works /\ stamp' = (stamp \/ writable)
        \/ writable /\ Fails /\ UNCHANGED stamp
  /\ UNCHANGED <<machine, search, mounted, readonly, fat, env, flags, ended, boots>>

(* The system image, the read-write layer (init.cpp: and the subvolume     *)
(* with the swap file) and the overlay over them.  init-paravirt.cpp hands *)
(* on the device of the image itself as the one for the layer: a squashfs, *)
(* on which nothing can be created, or a filesystem that is in use.        *)
MountLayer(layer) ==
  /\ phase = "boot" /\ Ahead(layer)
  /\ \/ /\ Works /\ Advance
        /\ \/ mounted' = mounted \cup {layer}
           \/ /\ layer = "rw" /\ program = "init"
              /\ mounted' = mounted \cup {"rw", "swap"}
        /\ UNCHANGED ended
     \/ Fails /\ Halt /\ UNCHANGED mounted
     \/ layer = "root" /\ program = "paravirt" /\ Works /\ Halt /\ UNCHANGED mounted
  /\ UNCHANGED <<machine, search, partition, env, flags, boots>>

MoveMounts ==
  /\ phase = "boot" /\ Ahead("move")
  /\ \/ Works /\ Advance /\ mounted' = mounted \cup {"run"} /\ UNCHANGED ended
     \/ Fails /\ Halt /\ UNCHANGED mounted
  /\ UNCHANGED <<machine, search, partition, env, flags, boots>>

(* Whether it worked is not looked at.                                     *)
SetUpEnvironment ==
  /\ phase = "boot" /\ Ahead("env")
  /\ Advance
  /\ \/ Works /\ env' = TRUE
     \/ Fails /\ env' = FALSE
  /\ UNCHANGED <<machine, search, mounted, partition, flags, ended, boots>>

(* cp -a, directory by directory.                                          *)
CopyEnvironment == program # "systemimg" /\ SetUpEnvironment

(* Moved file by file out of the initramfs, by then without a name.        *)
MoveEnvironment == program = "systemimg" /\ SetUpEnvironment

(* exec of the init in the new root.                                       *)
SwitchRoot ==
  /\ phase = "boot" /\ Ahead("switch")
  /\ \/ Works /\ phase' = "up" /\ todo' = <<>> /\ UNCHANGED ended
     \/ Fails /\ Halt
  /\ UNCHANGED <<machine, search, mounted, partition, env, flags, boots>>
-----------------------------------------------------------------------------
(* systemd has stopped the services, and has made what it could not        *)
(* unmount read-only; it has told the loop devices to detach, or could     *)
(* not.  Without a shutdown environment it reboots at once.                *)
ShutDown ==
  /\ phase = "up"
  /\ readonly' \in {TRUE} \cup (IF "boot" \in mounted THEN {readonly} ELSE {})
  /\ fat' = IF readonly' /\ ~readonly THEN Closed ELSE fat
  /\ held' \in IF program = "systemimg" THEN BOOLEAN ELSE {FALSE}
  /\ repair' \in IF program = "initlib" THEN BOOLEAN ELSE {FALSE}
  /\ IF env
     THEN phase' = "down" /\ todo' = DownPlan[program] /\ UNCHANGED ended
     ELSE GoOff("without")
  /\ UNCHANGED <<machine, search, mounted, stamp, env, checked, calm, boots, mishaps>>

(* /oldroot/run is moved, or it cannot be.  Then the function of init.cpp  *)
(* returns, and process 1 ends,                                            *)
InitTakeMounts ==
  /\ program \in {"init", "xen"}
  /\ UNCHANGED <<mounted, fat>>
  /\ \/ Works /\ Advance /\ UNCHANGED ended
     \/ Fails /\ phase' = "panic" /\ todo' = <<>> /\ ended' = "panic"

(* initlib.cpp goes on to reboot(),                                        *)
InitlibTakeMounts ==
  /\ program = "initlib"
  /\ UNCHANGED <<mounted, fat, ended>>
  /\ \/ Works /\ Advance
     \/ Fails /\ todo' = <<"reboot">> /\ UNCHANGED phase

(* and init-systemimg.cpp tries to unmount all of /oldroot, and does not   *)
(* find the boot partition.                                                *)
SystemimgTakeMounts ==
  /\ program = "systemimg"
  /\ UNCHANGED ended
  /\ \/ Works /\ Advance /\ UNCHANGED <<mounted, fat>>
     \/ /\ Fails /\ todo' = <<"reboot">> /\ UNCHANGED phase
        /\ mounted' \in SUBSET mounted
        /\ fat' = IF "boot" \in mounted' \/ readonly THEN fat ELSE Closed

TakeMounts ==
  /\ phase = "down" /\ Ahead("take")
  /\ InitTakeMounts \/ InitlibTakeMounts \/ SystemimgTakeMounts
  /\ UNCHANGED <<machine, search, readonly, stamp, env, flags, boots>>

Unmount(what) ==
  /\ phase = "down" /\ Ahead(what)
  /\ Advance
  /\ \/ Works /\ mounted' = mounted \ {what}
     \/ what \in mounted /\ Fails /\ UNCHANGED mounted
  /\ UNCHANGED <<machine, search, partition, env, flags, ended, boots>>

(* The partition is made writable first,                                   *)
Reopen ==
  /\ Advance
  /\ \/ Works /\ stamp' = FALSE /\ readonly' = FALSE /\ fat' = Reopened
     \/ Fails /\ UNCHANGED <<stamp, readonly, fat>>

(* by init.cpp if there is a time to remove,                               *)
InitRemoveStamp ==
  /\ program \in {"init", "xen"}
  /\ \/ stamp /\ Reopen
     \/ ~stamp /\ Works /\ Advance /\ UNCHANGED <<stamp, readonly, fat>>

(* by initlib.cpp not at all,                                              *)
InitlibRemoveStamp ==
  /\ program = "initlib" /\ Works /\ Advance
  /\ stamp' = (stamp /\ readonly) /\ UNCHANGED <<readonly, fat>>

(* and by init-systemimg.cpp if it is vfat, or it leaves it alone.         *)
SystemimgRemoveStamp ==
  /\ program = "systemimg"
  /\ \/ Vfat /\ Reopen
     \/ ~Vfat /\ Works /\ todo' = <<"reboot">> /\ UNCHANGED <<phase, stamp, readonly, fat>>

RemoveStamp ==
  /\ phase = "down" /\ Ahead("unstamp")
  /\ InitRemoveStamp \/ InitlibRemoveStamp \/ SystemimgRemoveStamp
  /\ UNCHANGED <<machine, search, mounted, env, flags, ended, boots>>

(* system.img is on the boot partition: in use while something is mounted  *)
(* from it, the overlay exists, or its loop device is not detached.  Where *)
(* the partition is the image itself (xen) nothing is.  All but            *)
(* init-systemimg.cpp unmount what is left under run with it.              *)
Busy ==
  \/ held
  \/ "root" \in mounted /\ ~(program = "xen" /\ machine.fs = "readonly")
  \/ "ro" \in mounted /\ program = "systemimg"

UnmountBoot ==
  /\ phase = "down" /\ Ahead("boot")
  /\ Advance
  /\ \/ /\ ~Busy /\ Works
        /\ mounted' = IF program = "systemimg" THEN mounted \ {"boot"} ELSE mounted \cap {"root"}
        /\ fat' = IF readonly THEN fat ELSE Closed
     \/ Busy /\ Works /\ UNCHANGED <<mounted, fat>>
     \/ ~Busy /\ Fails /\ UNCHANGED <<mounted, fat>>
  /\ UNCHANGED <<machine, search, readonly, stamp, env, flags, ended, boots>>

(* fsck.fat -a: init.cpp on every vfat, initlib.cpp when it is asked to,   *)
(* and neither looks at whether the partition was unmounted.               *)
RepairFat ==
  /\ phase = "down" /\ Ahead("fsck")
  /\ Advance
  /\ IF Vfat /\ (program = "init" \/ repair)
     THEN /\ checked' = IF "boot" \in mounted THEN "mounted" ELSE "offline"
          /\ \/ Works /\ fat' = [fat EXCEPT !.dirty = FALSE]
             \/ Fails /\ UNCHANGED fat
     ELSE Works /\ UNCHANGED <<checked, fat>>
  /\ UNCHANGED <<machine, search, mounted, readonly, stamp, env, held, repair, ended, boots>>

Reboot ==
  /\ phase = "down" /\ Ahead("reboot")
  /\ GoOff("shutdown")
  /\ UNCHANGED <<machine, search, mounted, partition, env, flags, calm, boots, mishaps>>

PowerFailure ==
  /\ phase \notin {"off", "panic"}
  /\ Fails /\ GoOff("cut")
  /\ UNCHANGED <<machine, search, mounted, partition, env, flags, boots>>

BootStep ==
  \/ LookUp \/ CheckFat \/ MountBoot \/ WriteStamp \/ MoveMounts
  \/ CopyEnvironment \/ MoveEnvironment
  \/ \E layer \in {"ro", "rw", "root"} : MountLayer(layer)

DownStep ==
  \/ TakeMounts \/ RemoveStamp \/ UnmountBoot \/ RepairFat \/ Reboot
  \/ \E what \in {"root", "ro", "rw", "swap"} : Unmount(what)
-----------------------------------------------------------------------------
Steps ==
  {"check", "boot", "stamp", "ro", "rw", "root", "move", "env", "configure", "generate", "switch",
   "take", "swap", "unstamp", "fsck", "reboot"}

PowerTypeOK ==
  /\ machine \in MachineType
  /\ phase \in {"off", "find", "boot", "up", "down", "panic"}
  /\ todo \in Seq(Steps)
  /\ (phase \in {"find", "boot", "down"}) <=> (todo # <<>>)
  /\ search \in [by : {"none", "nothing", "uuid", "efi"}, tries : 0..Retries]
  /\ mounted \in SUBSET {"boot", "ro", "rw", "root", "run", "swap"}
  /\ readonly \in BOOLEAN /\ stamp \in BOOLEAN /\ env \in BOOLEAN
  /\ fat \in [dirty : BOOLEAN, before : BOOLEAN]
  /\ held \in BOOLEAN /\ repair \in BOOLEAN
  /\ checked \in {"no", "offline", "mounted"}
  /\ ended \in {"none", "halt", "without", "shutdown", "panic", "cut"}
  /\ calm \in BOOLEAN /\ boots \in 0..MaxBoots /\ mishaps \in 0..MaxMishaps

(* What is not unmounted: init-systemimg.cpp keeps to vfat, and leaves the *)
(* read-write layer.                                                       *)
NotUnmounted ==
  IF program = "systemimg" THEN {"rw", "run"} \cup (IF Vfat THEN {} ELSE {"boot"}) ELSE {}

(* A session and a shutdown in which no call fails: the boot partition and *)
(* the layers are unmounted, in the only order in which they can be.       *)
CalmEndUnmounts ==
  phase = "off" /\ ended = "shutdown" /\ calm /\ ~held => mounted \subseteq NotUnmounted

(* fsck.fat is never let loose on a boot partition that is mounted, unless *)
(* a call that unmounts has failed.                                        *)
FsckOffline == checked = "mounted" => ~calm

(* The time of the boot is removed last: while it is there, a layer may    *)
(* still have to be closed; once it is gone all of them are, or a call     *)
(* has failed.                                                             *)
StampGoesLast ==
  [][stamp /\ ~stamp' /\ calm =>
       mounted \cap {"root", "ro"} = {} /\ (program = "systemimg" \/ "rw" \notin mounted)]_power

(* Whatever has left the flag set, power failures included, a session and  *)
(* a shutdown in which no call fails leave a clean FAT: init.cpp checks at *)
(* every shutdown, init-systemimg.cpp before it mounts.                    *)
FatHeals ==
  phase = "off" /\ ended = "shutdown" /\ calm /\ ~held /\ Vfat =>
    ~fat.dirty \/ (program = "initlib" /\ ~repair /\ fat.before) \/ program = "xen"
=============================================================================
