----------------------------- MODULE BootLayers -----------------------------
(***************************************************************************)
(* What a booting machine puts over its read-only system image, from the   *)
(* power switch to the start of the real init, boot after boot.  There are *)
(* three programs that do it, and the image that is booted decides which:  *)
(*   "init"     src/obsoleted/init/init.cpp                                *)
(*   "paravirt" the same with -DPARAVIRT                                   *)
(*   "overlay"  init-systemimg.cpp, then src/obsoleted/util/overlay_init.py *)
(* Each mounts a read-write layer, the upper directory of the overlay that *)
(* becomes the root filesystem, and keeps a session's changes there.       *)
(*                                                                         *)
(* A session writes one item, its number, into its upper directory and     *)
(* into the database on /var/lib/mysql.  What a session has written is     *)
(* taken to be on the disk.                                                *)
(***************************************************************************)
EXTENDS Naturals, FiniteSets, FiniteSetsExt

CONSTANTS
  Images,      \* the images that machines are installed with
  MediaSets,   \* the media a machine may have
  Upgradable,  \* media whose machines may go from an "init" to an "overlay" image
  FreeSpace,   \* free space of the data partition, in GiB
  MaxBoots,    \* bound on the boots
  MaxMishaps   \* bound on failing calls and power failures

(* dat: system.dat on the boot partition; vda2: the second partition of a  *)
(* virtual disk; part: a btrfs partition with the label data-<uuid>; host: *)
(* virtiofs, or what a paravirtual machine is given.                       *)
Media == {"dat", "vda2", "part", "host"}
SubvolumeNames == {"rw", "docker", "mysql", "swap"}

ASSUME ConstantsAssumption ==
  /\ Images \subseteq {"init", "paravirt", "overlay"}
  /\ MediaSets \subseteq SUBSET Media
  /\ FreeSpace \subseteq Nat
  /\ MaxBoots \in Nat /\ MaxMishaps \in Nat

VARIABLES
  image, media,  \* what the machine boots, and what it has
  subvols,       \* subvolumes of the data partition
  dirs,          \* the upper directories that exist
  data,          \* upper directory -> the items in it
  mysql,         \* medium -> the database on it
  swap,          \* the swap file: its state, its size, the space there was
  boot,          \* phase of the machine
  transient,     \* started as init-transient
  found,         \* the data partition was found
  rw,            \* the medium mounted as read-write layer
  served,        \* what is on /var/lib/mysql: "image" or "data"
  swapOn,
  short,         \* there was no space for a swap file
  calm,          \* no call has failed in this boot
  kept, keptSql, \* items of calm sessions on persistent media (history)
  torn,          \* a move to the new place was cut off (history)
  boots, mishaps

disk == <<subvols, dirs, data, mysql, swap>>
mounts == <<transient, found, rw, served, swapOn, short>>
history == <<kept, keptSql, torn, boots>>
vars == <<image, media, disk, boot, mounts, calm, history, mishaps>>
-----------------------------------------------------------------------------
(* "old" and "new" are rw/root, in the subvolume rw, and root on the data  *)
(* partition.                                                              *)
Places == {"dat", "vda2", "old", "new", "host", "tmpfs"}
Upper == IF rw # "part" THEN rw ELSE IF image = "overlay" THEN "new" ELSE "old"

EmptyDatabase == [state |-> "empty", items |-> {}]

Init ==
  /\ image \in Images /\ media \in MediaSets
  /\ image = "paravirt" => media = {"host"}
  /\ subvols = {} /\ dirs = {}
  /\ data = [p \in Places |-> {}]
  /\ mysql = [m \in {"part", "host", "tmpfs"} |-> EmptyDatabase]
  /\ swap = [state |-> "none", size |-> 0]
  /\ boot = "off"
  /\ transient = FALSE /\ found = FALSE /\ rw = "none" /\ served = "image"
  /\ swapOn = FALSE /\ short = FALSE /\ calm = TRUE
  /\ kept = {} /\ keptSql = {} /\ torn = FALSE /\ boots = 0 /\ mishaps = 0

Works == UNCHANGED <<calm, mishaps>>
Fails == mishaps < MaxMishaps /\ mishaps' = mishaps + 1 /\ calm' = FALSE
-----------------------------------------------------------------------------
PowerOn(asTransient) ==
  /\ boot = "off" /\ boots < MaxBoots
  /\ image = "overlay" => ~asTransient
  /\ boot' = "find" /\ boots' = boots + 1
  /\ transient' = asTransient /\ calm' = TRUE
  /\ found' = FALSE /\ rw' = "none" /\ served' = "image"
  /\ swapOn' = FALSE /\ short' = FALSE
  /\ UNCHANGED <<image, media, disk, kept, keptSql, torn, mishaps>>

(* The boot partition, and by its UUID the data partition.  A fallback for *)
(* the boot partition has no UUID; without any the machine halts.          *)
FindPartitions ==
  /\ boot = "find"
  /\ \/ Works /\ found' = ("part" \in media) /\ boot' = "layer"
     \/ Fails /\ found' = FALSE /\ boot' \in {"layer", "off"}
  /\ UNCHANGED <<image, media, disk, transient, rw, served, swapOn, short, history>>

(* init.cpp: system.dat, repaired if it cannot be mounted, or /dev/vda2.   *)
MountDatafile ==
  /\ image = "init" /\ boot = "layer"
  /\ LET usable == IF transient THEN {} ELSE media \cap {"dat", "vda2"}
     IN \/ usable = {} /\ Works /\ UNCHANGED rw
        \/ "dat" \in usable /\ Works /\ rw' = "dat"
        \/ "dat" \in usable /\ Fails /\ rw' \in {"dat", "none"}
        \/ usable = {"vda2"} /\ Works /\ rw' = "vda2"
        \/ usable = {"vda2"} /\ Fails /\ UNCHANGED rw
  /\ boot' = IF found /\ ~transient THEN "subvolumes" ELSE "tmpfs"
  /\ UNCHANGED <<image, media, disk, transient, found, served, swapOn, short, history>>

(* Missing subvolumes are created; one that cannot be is left out.         *)
CreateSubvolumes ==
  /\ boot = "subvolumes"
  /\ \/ subvols' = SubvolumeNames /\ Works
     \/ \E more \in SUBSET (SubvolumeNames \ subvols) :
          subvols' = subvols \cup more /\ Fails
  /\ boot' = "rw"
  /\ UNCHANGED <<image, media, dirs, data, mysql, swap, mounts, history>>

MountSubvolume ==
  /\ boot = "rw"
  /\ \/ rw = "none" /\ "rw" \in subvols /\ rw' = "part" /\ Works
     \/ rw = "none" /\ Fails /\ UNCHANGED rw
     \/ (rw # "none" \/ "rw" \notin subvols) /\ Works /\ UNCHANGED rw
  /\ boot' = "swap"
  /\ UNCHANGED <<image, media, disk, transient, found, served, swapOn, short, history>>

(* 4 GiB, halved until twice the size fits.                                *)
SwapSize(free) == Max({size \in {4, 2, 1} : 2 * size <= free})

NewSwap(free, state) == [state |-> state, size |-> SwapSize(free)]

(* Mutant of MakeSwap: a file that is there is never made again.           *)
MakeSwapOnce(results) ==
  \E free \in FreeSpace, result \in results :
    IF free < 2 \/ swap.state # "none"
    THEN short' = (free < 2) /\ UNCHANGED <<swap, swapOn>>
    ELSE /\ swap' = NewSwap(free, IF result = "raw" THEN "raw" ELSE "ready")
         /\ swapOn' = (result = "on")
         /\ UNCHANGED short

(* A new swap file over what there was: "raw" if mkswap was not reached,   *)
(* "off" if swapon fails.                                                  *)
MakeSwap(results) ==
  \E free \in FreeSpace, result \in results :
    IF free < 2
    THEN short' = TRUE /\ UNCHANGED <<swap, swapOn>>
    ELSE /\ swap' = NewSwap(free, IF result = "raw" THEN "raw" ELSE "ready")
         /\ swapOn' = (result = "on")
         /\ UNCHANGED short

(* A swap file that swapon takes is used as it is.                         *)
EnableSwap ==
  /\ boot = "swap"
  /\ \/ "swap" \notin subvols /\ Works /\ UNCHANGED <<swap, swapOn, short>>
     \/ Fails /\ UNCHANGED <<swap, swapOn, short>>
     \/ /\ "swap" \in subvols /\ swap.state = "ready"
        /\ \/ Works /\ swapOn' = TRUE /\ UNCHANGED <<swap, short>>
           \/ Fails /\ MakeSwap({"on", "off", "raw"})
     \/ /\ "swap" \in subvols /\ swap.state # "ready"
        /\ \/ Works /\ MakeSwap({"on"})
           \/ Fails /\ MakeSwap({"off", "raw"})
  /\ boot' = "tmpfs"
  /\ UNCHANGED <<image, media, subvols, dirs, data, mysql, transient, found, rw, served, history>>

(* init.cpp with PARAVIRT: the layer has to be there.                      *)
MountGiven ==
  /\ image = "paravirt" /\ boot = "layer"
  /\ \/ transient /\ Works /\ boot' = "tmpfs" /\ UNCHANGED rw
     \/ ~transient /\ Works /\ boot' = "tmpfs" /\ rw' = "host"
     \/ ~transient /\ Fails /\ boot' = "off" /\ UNCHANGED rw
  /\ UNCHANGED <<image, media, disk, transient, found, served, swapOn, short, history>>

(* overlay_init.py: the data partition, by label or the second of the      *)
(* disk; if it cannot be mounted virtiofs.                                 *)
MountData ==
  /\ image = "overlay" /\ boot = "layer"
  /\ LET partition == IF found THEN {"part"} ELSE media \cap {"vda2"}
         virtiofs == media \cap {"host"}
     IN \/ partition # {} /\ rw' \in partition /\ Works
        \/ partition = {} /\ virtiofs # {} /\ rw' \in virtiofs /\ Works
        \/ partition # {} /\ virtiofs # {} /\ rw' \in virtiofs /\ Fails
        \/ partition \cup virtiofs = {} /\ UNCHANGED rw /\ Works
        \/ partition \cup virtiofs # {} /\ UNCHANGED rw /\ Fails
  /\ boot' = "tmpfs"
  /\ UNCHANGED <<image, media, disk, transient, found, served, swapOn, short, history>>
-----------------------------------------------------------------------------
(* Mutant of FallBack: without a layer the boot goes on.                   *)
FallBackNothing ==
  /\ boot = "tmpfs"
  /\ boot' = "move"
  /\ UNCHANGED <<image, media, disk, mounts, calm, history, mishaps>>

(* "Using tmpfs as upper layer..."; without even that the machine halts.   *)
FallBack ==
  /\ boot = "tmpfs"
  /\ \/ /\ rw = "none" /\ Works /\ boot' = "move"
        /\ rw' = "tmpfs"
        /\ data' = [data EXCEPT !["tmpfs"] = {}]
        /\ mysql' = [mysql EXCEPT !["tmpfs"] = EmptyDatabase]
     \/ rw = "none" /\ Fails /\ boot' = "off" /\ UNCHANGED <<rw, data, mysql>>
     \/ rw # "none" /\ Works /\ boot' = "move" /\ UNCHANGED <<rw, data, mysql>>
  /\ UNCHANGED <<image, media, subvols, dirs, swap, transient, found, served, swapOn, short,
                 history>>

(* "for backward compatibility": what init.cpp has kept in the subvolume   *)
(* rw is moved up by mv, which has to copy it from one subvolume to        *)
(* another.                                                                *)
MustMove ==
  image = "overlay" /\ rw = "part" /\ "old" \in dirs /\ "new" \notin dirs

MoveBegin ==
  /\ boot = "move" /\ MustMove
  /\ dirs' = dirs \cup {"new"}
  /\ \E copied \in SUBSET data["old"] : data' = [data EXCEPT !["new"] = copied]
  /\ boot' = "moving"
  /\ UNCHANGED <<image, media, subvols, mysql, swap, mounts, calm, history, mishaps>>

MoveEnd ==
  /\ boot = "moving"
  /\ data' = [data EXCEPT !["new"] = data["old"], !["old"] = {}]
  /\ dirs' = dirs \ {"old"}
  /\ boot' = "newroot"
  /\ UNCHANGED <<image, media, subvols, mysql, swap, mounts, calm, history, mishaps>>

(* Mutant of SkipMove: layers of init.cpp are left where they are.         *)
SkipMoveAlways ==
  /\ boot = "move"
  /\ boot' = "newroot"
  /\ UNCHANGED <<image, media, disk, mounts, calm, history, mishaps>>

SkipMove ==
  /\ boot = "move" /\ ~MustMove
  /\ boot' = "newroot"
  /\ UNCHANGED <<image, media, disk, mounts, calm, history, mishaps>>

(* The exit status of mv is ignored.                                       *)
MoveFails ==
  /\ boot = "moving"
  /\ Fails
  /\ boot' = "newroot" /\ torn' = TRUE
  /\ UNCHANGED <<image, media, disk, mounts, kept, keptSql, boots>>

(* The overlay itself; a failure halts the machine.                        *)
SetupNewroot ==
  /\ boot = "newroot"
  /\ dirs' = dirs \cup {Upper}
  /\ \/ boot' = "mysql" /\ Works
     \/ boot' = "off" /\ Fails
  /\ UNCHANGED <<image, media, subvols, data, mysql, swap, mounts, history>>
-----------------------------------------------------------------------------
(* Where the database is kept: the subvolume mysql, found also by a        *)
(* transient boot; mysql/ on the layer of a paravirtual machine.           *)
DatabaseAt ==
  CASE image = "init" -> IF found /\ "mysql" \in subvols THEN "part" ELSE "none"
    [] image = "paravirt" -> rw
    [] OTHER -> "none"

(* Mutant of SetupMysql: the initial copy is made at every boot.           *)
SetupMysqlAlways ==
  /\ boot = "mysql" /\ DatabaseAt # "none"
  /\ mysql' = [mysql EXCEPT ![DatabaseAt] = [state |-> "partial", items |-> {}]]
  /\ boot' = "copying"
  /\ UNCHANGED <<image, media, subvols, dirs, data, swap, mounts, calm, history, mishaps>>

(* "Setting up MySQL data subvolume...": an empty one gets a copy of the   *)
(* image's.                                                                *)
SetupMysql ==
  /\ boot = "mysql" /\ DatabaseAt # "none"
  /\ mysql[DatabaseAt].state = "empty"
  /\ mysql' = [mysql EXCEPT ![DatabaseAt].state = "partial"]
  /\ boot' = "copying"
  /\ UNCHANGED <<image, media, subvols, dirs, data, swap, mounts, calm, history, mishaps>>

MysqlCopied ==
  /\ boot = "copying"
  /\ mysql' = [mysql EXCEPT ![DatabaseAt].state = "whole"]
  /\ served' = "data" /\ boot' = "up"
  /\ UNCHANGED <<image, media, subvols, dirs, data, swap, transient, found, rw, swapOn, short,
                 calm, history, mishaps>>

(* init.cpp only unmounts it, the paravirtual variant removes the files.   *)
MysqlCopyFails ==
  /\ boot = "copying"
  /\ Fails
  /\ \E state \in {"empty"} \cup (IF image = "init" THEN {"partial"} ELSE {}) :
       mysql' = [mysql EXCEPT ![DatabaseAt].state = state]
  /\ boot' = "up"
  /\ UNCHANGED <<image, media, subvols, dirs, data, swap, mounts, history>>

MountMysql ==
  /\ boot = "mysql"
  /\ \/ DatabaseAt = "none" /\ Works /\ UNCHANGED served
     \/ DatabaseAt # "none" /\ mysql[DatabaseAt].state # "empty" /\ Works /\ served' = "data"
     \/ DatabaseAt # "none" /\ Fails /\ UNCHANGED served
  /\ boot' = "up"
  /\ UNCHANGED <<image, media, disk, transient, found, rw, swapOn, short, history>>
-----------------------------------------------------------------------------
(* The session: it changes files and the database.                         *)
Write ==
  /\ boot = "up" /\ boots \notin data[Upper]
  /\ data' = [data EXCEPT ![Upper] = @ \cup {boots}]
  /\ kept' = IF calm /\ rw # "tmpfs" THEN kept \cup {boots} ELSE kept
  /\ IF served = "data"
     THEN /\ mysql' = [mysql EXCEPT ![DatabaseAt].items = @ \cup {boots}]
          /\ keptSql' = IF calm /\ DatabaseAt # "tmpfs" THEN keptSql \cup {boots} ELSE keptSql
     ELSE UNCHANGED <<mysql, keptSql>>
  /\ UNCHANGED <<image, media, subvols, dirs, swap, boot, mounts, calm, torn, boots, mishaps>>

Shutdown ==
  /\ boot = "up"
  /\ boot' = "off"
  /\ UNCHANGED <<image, media, disk, mounts, calm, history, mishaps>>

PowerFailure ==
  /\ boot # "off"
  /\ Fails
  /\ boot' = "off" /\ torn' = (torn \/ boot = "moving")
  /\ UNCHANGED <<image, media, disk, mounts, kept, keptSql, boots>>

(* The system image is replaced by one with the newer init.                *)
Upgrade ==
  /\ boot = "off" /\ image = "init" /\ media \in Upgradable
  /\ image' = "overlay"
  /\ UNCHANGED <<media, disk, boot, mounts, calm, history, mishaps>>

(* Nobody switches the machine on.                                         *)
Rest == boot = "off" /\ UNCHANGED vars

Next ==
  \/ \E asTransient \in BOOLEAN : PowerOn(asTransient)
  \/ FindPartitions \/ MountDatafile \/ MountGiven \/ MountData
  \/ CreateSubvolumes \/ MountSubvolume \/ EnableSwap
  \/ FallBack \/ MoveBegin \/ MoveEnd \/ MoveFails \/ SkipMove \/ SetupNewroot
  \/ SetupMysql \/ MysqlCopied \/ MysqlCopyFails \/ MountMysql
  \/ Write \/ Shutdown \/ PowerFailure \/ Upgrade \/ Rest

Spec == Init /\ [][Next]_vars
-----------------------------------------------------------------------------
EarlyPhases == {"find", "layer", "subvolumes", "rw", "swap", "tmpfs"}
LatePhases == {"move", "moving", "newroot", "mysql", "copying", "up"}

TypeOK ==
  /\ image \in {"init", "paravirt", "overlay"} /\ media \in SUBSET Media
  /\ subvols \in SUBSET SubvolumeNames
  /\ dirs \in SUBSET Places
  /\ data \in [Places -> SUBSET Nat]
  /\ mysql \in [{"part", "host", "tmpfs"} ->
                  [state : {"empty", "partial", "whole"}, items : SUBSET Nat]]
  /\ swap \in [state : {"none", "raw", "ready"}, size : Nat]
  /\ boot \in {"off"} \cup EarlyPhases \cup LatePhases
  /\ transient \in BOOLEAN /\ found \in BOOLEAN /\ served \in {"image", "data"}
  /\ rw \in Media \cup {"tmpfs", "none"}
  /\ boot \in LatePhases => rw # "none"
  /\ boot = "copying" => DatabaseAt # "none"
  /\ swapOn \in BOOLEAN /\ short \in BOOLEAN /\ calm \in BOOLEAN
  /\ kept \in SUBSET Nat /\ keptSql \in SUBSET Nat /\ torn \in BOOLEAN
  /\ boots \in Nat /\ mishaps \in 0..MaxMishaps

(* A boot in which every call works finds again what all such sessions     *)
(* before it have written, whatever failed in the boots between them and   *)
(* whichever init the image has: no fallback, repair, or change of image   *)
(* makes the machine go on with another layer for good.  (A move that was  *)
(* cut off does: the new place exists, so it is never resumed.)            *)
SessionsContinue ==
  boot = "up" /\ calm /\ ~transient /\ ~torn => kept \subseteq data[Upper]

(* The same for the database: the initial copy never goes over one that is *)
(* in use, and a calm boot does not serve the image's instead.             *)
DatabaseContinues ==
  boot = "up" /\ calm /\ (image = "init" \/ (image = "paravirt" /\ ~transient)) /\ keptSql # {} =>
    served = "data" /\ keptSql \subseteq mysql[DatabaseAt].items

(* A swap file that an earlier boot could not finish is made again: after  *)
(* a boot in which every call works there is swap unless space is short.   *)
SwapHeals ==
  boot = "up" /\ calm /\ image = "init" /\ found /\ ~transient =>
    swapOn \/ short

(* "MySQL data subvolume is mounted": what is served is a whole copy.      *)
ServedIsWhole ==
  boot = "up" /\ served = "data" => mysql[DatabaseAt].state = "whole"
=============================================================================
