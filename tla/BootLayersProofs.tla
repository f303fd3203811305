-------------------------- MODULE BootLayersProofs --------------------------
(***************************************************************************)
(* Proofs about BootLayers, for any media, images and free space, and any  *)
(* number of boots and mishaps.                                            *)
(***************************************************************************)
EXTENDS BootLayers, TLAPS

(* A machine whose image is replaced has one layer that both programs look *)
(* for first: overlay_init.py never looks at system.dat, and prefers the   *)
(* data partition to /dev/vda2.                                            *)
SameLayer == \A m \in Upgradable : "dat" \notin m /\ ~({"vda2", "part"} \subseteq m)

(* What a boot that works and is not transient takes for its layer.        *)
InitLayer ==
  IF "dat" \in media THEN "dat" ELSE IF "vda2" \in media THEN "vda2"
  ELSE IF "part" \in media THEN "part" ELSE "tmpfs"
OverlayLayer ==
  IF "part" \in media THEN "part" ELSE IF "vda2" \in media THEN "vda2"
  ELSE IF "host" \in media THEN "host" ELSE "tmpfs"
CalmLayer ==
  IF image = "init" THEN InitLayer ELSE IF image = "overlay" THEN OverlayLayer ELSE "host"

(* Where the kept items are: in the old place until they have been moved.  *)
Home ==
  IF CalmLayer # "part" THEN CalmLayer
  ELSE IF image = "overlay" /\ "new" \in dirs /\ boot # "moving" THEN "new" ELSE "old"

MediaInv ==
  /\ image = "paravirt" => media = {"host"} /\ rw \in {"none", "host", "tmpfs"}
  /\ found => "part" \in media
  /\ rw = "part" => "part" \in media
  /\ image = "overlay" /\ boot # "off" => ~transient
  /\ boot \in {"find", "layer"} => rw = "none"
  /\ boot \in {"subvolumes", "rw", "swap"} => image = "init" /\ found /\ ~transient

PlaceInv ==
  /\ \A p \in Places : data[p] # {} => p \in dirs
  /\ boot \in {"mysql", "copying", "up"} => Upper \in dirs
  /\ boot = "newroot" => ~MustMove
  /\ boot = "moving" => image = "overlay" /\ rw = "part" /\ {"old", "new"} \subseteq dirs
  /\ image # "overlay" => "new" \notin dirs

(* In a boot of which every call has worked so far.                        *)
FoundInv == boot # "find" => (found <=> "part" \in media)
LayerInv ==
  /\ boot \in {"subvolumes", "rw"} => rw = IF InitLayer \in {"dat", "vda2"} THEN InitLayer ELSE "none"
  /\ boot = "swap" => rw = InitLayer
  /\ boot = "tmpfs" => rw = IF transient \/ CalmLayer = "tmpfs" THEN "none" ELSE CalmLayer
  /\ boot \in LatePhases => rw = IF transient THEN "tmpfs" ELSE CalmLayer
SubvolumesInv ==
  /\ boot \in {"rw", "swap"} => subvols = SubvolumeNames
  /\ boot \in {"tmpfs"} \cup LatePhases /\ image = "init" /\ found /\ ~transient => swapOn \/ short
CalmInv == boot # "off" /\ calm => FoundInv /\ LayerInv /\ SubvolumesInv

KeptInv ==
  /\ CalmLayer = "tmpfs" => kept = {}
  /\ ~torn => kept \subseteq data[Home]

SqlHome == IF image = "paravirt" THEN "host" ELSE "part"
SqlKept ==
  /\ keptSql \subseteq mysql[SqlHome].items
  /\ mysql[SqlHome].state # "empty"
  /\ image = "init" => "part" \in media /\ "mysql" \in subvols
  /\ boot = "copying" => DatabaseAt # SqlHome
ServedInv ==
  /\ boot \notin {"off", "up"} => served = "image"
  /\ boot = "up" /\ served = "data" => DatabaseAt # "none" /\ mysql[DatabaseAt].state # "empty"
  /\ boot = "up" /\ calm /\ DatabaseAt # "none" => served = "data"
SqlInv == (keptSql # {} => SqlKept) /\ ServedInv

BootInv == MediaInv /\ PlaceInv /\ CalmInv

-----------------------------------------------------------------------------
(* Part 1: types.                                                          *)

LEMMA SwapSizeType ==
  ASSUME NEW free \in Nat, free >= 2
  PROVE  SwapSize(free) \in Nat
<1> DEFINE fitting == {size \in {4, 2, 1} : 2 * size <= free}
<1>1. \E x \in fitting : \A y \in fitting : x >= y
  <2>1. CASE free >= 8
    BY <2>1
  <2>2. CASE free < 8 /\ free >= 4
    BY <2>2
  <2>3. CASE free < 4
    BY <2>3
  <2> QED
    BY <2>1, <2>2, <2>3
<1>2. Max(fitting) \in fitting
  BY <1>1 DEF Max
<1> QED
  BY <1>2 DEF SwapSize

FlagsOK ==
  /\ transient \in BOOLEAN /\ found \in BOOLEAN
  /\ swapOn \in BOOLEAN /\ short \in BOOLEAN /\ calm \in BOOLEAN /\ torn \in BOOLEAN
CountsOK ==
  /\ kept \in SUBSET Nat /\ keptSql \in SUBSET Nat
  /\ boots \in Nat /\ mishaps \in 0..MaxMishaps
SwapType == [state : {"none", "raw", "ready"}, size : Nat]
DatabaseType == [state : {"empty", "partial", "whole"}, items : SUBSET Nat]
StoresOK ==
  /\ subvols \in SUBSET SubvolumeNames /\ dirs \in SUBSET Places
  /\ data \in [Places -> SUBSET Nat]
  /\ mysql \in [{"part", "host", "tmpfs"} -> DatabaseType]
  /\ swap \in SwapType
MachineOK ==
  /\ image \in {"init", "paravirt", "overlay"} /\ media \in SUBSET Media
  /\ boot \in {"off"} \cup EarlyPhases \cup LatePhases
  /\ served \in {"image", "data"}
  /\ rw \in Media \cup {"tmpfs", "none"}
  /\ boot \in LatePhases => rw # "none"
  /\ boot = "copying" => DatabaseAt # "none"

LEMMA TypeParts == TypeOK <=> FlagsOK /\ CountsOK /\ StoresOK /\ MachineOK
BY DEF TypeOK, FlagsOK, CountsOK, StoresOK, MachineOK, SwapType, DatabaseType

LEMMA MakeSwapType ==
  ASSUME NEW results, MakeSwap(results), swap \in SwapType
  PROVE  swap' \in SwapType
<1>1. PICK free \in FreeSpace, result \in results :
        IF free < 2
        THEN UNCHANGED swap
        ELSE swap' = NewSwap(free, IF result = "raw" THEN "raw" ELSE "ready")
  BY DEF MakeSwap
<1>2. free \in Nat
  BY ConstantsAssumption DEF ConstantsAssumption
<1>3. CASE free < 2
  BY <1>1, <1>3
<1>4. CASE ~(free < 2)
  <2>1. SwapSize(free) \in Nat
    BY <1>2, <1>4, SwapSizeType
  <2> QED
    BY <1>1, <1>4, <2>1 DEF NewSwap, SwapType
<1> QED
  BY <1>3, <1>4

LEMMA MakeSwapFlags ==
  ASSUME NEW results, MakeSwap(results), swapOn \in BOOLEAN, short \in BOOLEAN
  PROVE  /\ swapOn' \in BOOLEAN /\ short' \in BOOLEAN
         /\ results = {"on"} => swapOn' \/ short'
<1>1. PICK free \in FreeSpace, result \in results :
        IF free < 2
        THEN short' = TRUE /\ UNCHANGED swapOn
        ELSE swapOn' = (result = "on") /\ UNCHANGED short
  BY DEF MakeSwap
<1> QED
  BY <1>1

LEMMA FailsCount ==
  ASSUME mishaps \in 0..MaxMishaps, Fails
  PROVE  mishaps' \in 0..MaxMishaps
BY ConstantsAssumption DEF ConstantsAssumption, Fails

LEMMA InitType == Init => TypeOK
<1> SUFFICES ASSUME Init PROVE TypeOK
  OBVIOUS
<1>1. FlagsOK
  BY DEF Init, FlagsOK
<1>2. CountsOK
  BY ConstantsAssumption DEF ConstantsAssumption, Init, CountsOK
<1>3. StoresOK
  BY DEF Init, StoresOK, SwapType, DatabaseType, EmptyDatabase
<1>4. MachineOK
  BY ConstantsAssumption DEF ConstantsAssumption, Init, MachineOK, LatePhases
<1> QED
  BY <1>1, <1>2, <1>3, <1>4, TypeParts

LEMMA FlagsStep ==
  ASSUME FlagsOK, [Next]_vars
  PROVE  FlagsOK'
<1> USE DEF FlagsOK, Works, Fails
<1>1. CASE UNCHANGED vars
  BY <1>1 DEF vars, mounts, history
<1>2. CASE \E asTransient \in BOOLEAN : PowerOn(asTransient)
  <2>1. PICK asTransient \in BOOLEAN : PowerOn(asTransient)
    BY <1>2
  <2> QED
    BY <2>1 DEF PowerOn
<1>3. CASE FindPartitions
  <2>1. found' = ("part" \in media) \/ found' = FALSE
    BY <1>3, Zenon DEF FindPartitions
  <2>2. calm' \in BOOLEAN
    BY <1>3 DEF FindPartitions
  <2>3. UNCHANGED <<transient, swapOn, short, torn>>
    BY <1>3 DEF FindPartitions, history
  <2> DEFINE here == "part" \in media
  <2>4. here \in BOOLEAN
    OBVIOUS
  <2>5. found' = here \/ found' = FALSE
    BY <2>1
  <2> HIDE DEF here
  <2>6. found' \in BOOLEAN
    BY <2>4, <2>5
  <2> QED
    BY <2>2, <2>3, <2>6
<1>4. CASE MountDatafile
  BY <1>4 DEF MountDatafile, history
<1>5. CASE MountGiven
  BY <1>5 DEF MountGiven, history
<1>6. CASE MountData
  BY <1>6 DEF MountData, history
<1>7. CASE CreateSubvolumes \/ MountSubvolume
  BY <1>7 DEF CreateSubvolumes, MountSubvolume, mounts, history
<1>8. CASE EnableSwap
  <2>1. swapOn' \in BOOLEAN /\ short' \in BOOLEAN
    BY <1>8, MakeSwapFlags DEF EnableSwap
  <2> QED
    BY <1>8, <2>1 DEF EnableSwap, history
<1>9. CASE FallBack \/ MoveBegin \/ MoveEnd \/ SkipMove \/ MoveFails
  BY <1>9 DEF FallBack, MoveBegin, MoveEnd, SkipMove, MoveFails, mounts, history
<1>10. CASE SetupNewroot \/ SetupMysql \/ MysqlCopied \/ MysqlCopyFails \/ MountMysql
  BY <1>10 DEF SetupNewroot, SetupMysql, MysqlCopied, MysqlCopyFails, MountMysql, mounts, history
<1>11. CASE Write \/ Shutdown \/ Upgrade \/ PowerFailure
  BY <1>11 DEF Write, Shutdown, Upgrade, PowerFailure, mounts, history
<1> QED
  BY <1>1, <1>2, <1>3, <1>4, <1>5, <1>6, <1>7, <1>8, <1>9, <1>10, <1>11 DEF Next, Rest

LEMMA CountsStep ==
  ASSUME CountsOK, [Next]_vars
  PROVE  CountsOK'
<1> USE DEF CountsOK, Works
<1>1. CASE UNCHANGED vars
  BY <1>1 DEF vars, history
<1>2. CASE \E asTransient \in BOOLEAN : PowerOn(asTransient)
  BY <1>2 DEF PowerOn
<1>3. CASE FindPartitions \/ MountDatafile \/ MountGiven \/ MountData \/ CreateSubvolumes \/ MountSubvolume
           \/ EnableSwap
  BY <1>3, FailsCount DEF FindPartitions, MountDatafile, MountGiven, MountData, CreateSubvolumes,
     MountSubvolume, EnableSwap, history
<1>4. CASE FallBack \/ MoveBegin \/ MoveEnd \/ SkipMove \/ MoveFails
  BY <1>4, FailsCount DEF FallBack, MoveBegin, MoveEnd, SkipMove, MoveFails, history
<1>5. CASE SetupNewroot \/ SetupMysql \/ MysqlCopied \/ MysqlCopyFails \/ MountMysql
  BY <1>5, FailsCount DEF SetupNewroot, SetupMysql, MysqlCopied, MysqlCopyFails, MountMysql, history
<1>6. CASE Write
  BY <1>6 DEF Write
<1>7. CASE Shutdown \/ Upgrade \/ PowerFailure
  BY <1>7, FailsCount DEF Shutdown, Upgrade, PowerFailure, history
<1> QED
  BY <1>1, <1>2, <1>3, <1>4, <1>5, <1>6, <1>7 DEF Next, Rest

LEMMA StoresStep ==
  ASSUME TypeOK, [Next]_vars
  PROVE  StoresOK'
<1> USE TypeParts DEF StoresOK
<1>1. CASE UNCHANGED disk
  BY <1>1 DEF disk
<1>2. CASE CreateSubvolumes
  BY <1>2 DEF CreateSubvolumes
<1>3. CASE EnableSwap
  BY <1>3, MakeSwapType DEF EnableSwap
<1>4. CASE FallBack
  BY <1>4 DEF FallBack, EmptyDatabase, DatabaseType, Places
<1>5. CASE MoveBegin \/ MoveEnd
  BY <1>5 DEF MoveBegin, MoveEnd, Places
<1>6. CASE SetupNewroot
  <2>1. Upper \in Places
    BY <1>6 DEF SetupNewroot, Upper, Places, Media, LatePhases, MachineOK
  <2> QED
    BY <1>6, <2>1 DEF SetupNewroot
<1>7. CASE SetupMysql \/ MysqlCopied \/ MysqlCopyFails
  <2>1. DatabaseAt \in {"part", "host", "tmpfs"} => mysql' \in [{"part", "host", "tmpfs"} -> DatabaseType]
    BY <1>7 DEF SetupMysql, MysqlCopied, MysqlCopyFails, DatabaseType
  <2>2. DatabaseAt \notin {"part", "host", "tmpfs"} => mysql' = mysql
    BY <1>7 DEF SetupMysql, MysqlCopied, MysqlCopyFails
  <2> QED
    BY <1>7, <2>1, <2>2 DEF SetupMysql, MysqlCopied, MysqlCopyFails
<1>8. CASE Write
  <2>1. data' \in [Places -> SUBSET Nat] /\ UNCHANGED <<subvols, dirs, swap>>
    BY <1>8 DEF Write, CountsOK
  <2>2. CASE served = "data" /\ DatabaseAt \in {"part", "host", "tmpfs"}
    <3>1. mysql' = [mysql EXCEPT ![DatabaseAt].items = @ \cup {boots}]
      BY <1>8, <2>2 DEF Write
    <3>2. mysql' \in [{"part", "host", "tmpfs"} -> DatabaseType]
      BY <2>2, <3>1 DEF DatabaseType, CountsOK
    <3> QED
      BY <2>1, <3>2
  <2>3. CASE ~(served = "data" /\ DatabaseAt \in {"part", "host", "tmpfs"})
    BY <1>8, <2>1, <2>3 DEF Write
  <2> QED
    BY <2>2, <2>3
<1>9. CASE UNCHANGED vars \/ Rest
  BY <1>1, <1>9 DEF vars, Rest
<1>10. CASE (\E asTransient \in BOOLEAN : PowerOn(asTransient)) \/ FindPartitions \/ MountDatafile \/ MountGiven
            \/ MountData \/ MountSubvolume \/ MoveFails \/ SkipMove \/ MountMysql \/ Shutdown \/ PowerFailure
            \/ Upgrade
  BY <1>1, <1>10 DEF PowerOn, FindPartitions, MountDatafile, MountGiven, MountData, MountSubvolume, MoveFails,
     SkipMove, MountMysql, Shutdown, PowerFailure, Upgrade
<1> QED
  BY <1>2, <1>3, <1>4, <1>5, <1>6, <1>7, <1>8, <1>9, <1>10 DEF Next

LEMMA MachineStep ==
  ASSUME TypeOK, [Next]_vars
  PROVE  MachineOK'
<1> USE TypeParts DEF MachineOK, EarlyPhases, LatePhases, Media
<1>1. CASE UNCHANGED vars
  BY <1>1 DEF vars, disk, mounts, DatabaseAt
<1>2. CASE \E asTransient \in BOOLEAN : PowerOn(asTransient)
  BY <1>2 DEF PowerOn
<1>3. CASE FindPartitions \/ MountDatafile \/ MountGiven
  BY <1>3 DEF FindPartitions, MountDatafile, MountGiven
<1>4. CASE MountData \/ CreateSubvolumes \/ MountSubvolume
  BY <1>4 DEF MountData, CreateSubvolumes, MountSubvolume, mounts
<1>5. CASE EnableSwap \/ FallBack
  BY <1>5 DEF EnableSwap, FallBack
<1>6. CASE MoveBegin \/ MoveEnd \/ SkipMove \/ MoveFails
  BY <1>6 DEF MoveBegin, MoveEnd, SkipMove, MoveFails, mounts
<1>7. CASE SetupNewroot \/ SetupMysql
  BY <1>7 DEF SetupNewroot, SetupMysql, mounts, DatabaseAt
<1>8. CASE MysqlCopied \/ MysqlCopyFails \/ MountMysql
  BY <1>8 DEF MysqlCopied, MysqlCopyFails, MountMysql, mounts
<1>9. CASE Write \/ Shutdown \/ Upgrade \/ PowerFailure
  BY <1>9 DEF Write, Shutdown, Upgrade, PowerFailure, mounts
<1> QED
  BY <1>1, <1>2, <1>3, <1>4, <1>5, <1>6, <1>7, <1>8, <1>9 DEF Next, Rest

LEMMA TypeStep == TypeOK /\ [Next]_vars => TypeOK'
<1> SUFFICES ASSUME TypeOK, [Next]_vars PROVE TypeOK'
  OBVIOUS
<1>1. (FlagsOK /\ CountsOK /\ StoresOK /\ MachineOK)'
  BY TypeParts, FlagsStep, CountsStep, StoresStep, MachineStep
<1> QED
  BY <1>1 DEF TypeOK, FlagsOK, CountsOK, StoresOK, MachineOK, SwapType, DatabaseType

(* TypeOK, which includes that a boot past its fallback has a layer, and   *)
(* that a database is copied to a place there is.                          *)
THEOREM BootTypeCorrect == Spec => []TypeOK
<1> QED
  BY InitType, TypeStep, PTL DEF Spec
-----------------------------------------------------------------------------
(* Part 2: where a boot finds its layer.                                   *)

LEMMA InitBoot == Init => BootInv
<1> SUFFICES ASSUME Init PROVE BootInv
  OBVIOUS
<1>1. MediaInv /\ CalmInv
  BY DEF Init, MediaInv, CalmInv
<1>2. PlaceInv
  BY DEF Init, PlaceInv
<1> QED
  BY <1>1, <1>2 DEF BootInv

LEMMA MediaStep ==
  ASSUME TypeOK, MediaInv, [Next]_vars
  PROVE  MediaInv'
<1> USE DEF MediaInv
<1>1. CASE UNCHANGED vars
  BY <1>1 DEF vars, disk, mounts
<1>2. CASE \E asTransient \in BOOLEAN : PowerOn(asTransient)
  BY <1>2 DEF PowerOn
<1>3. CASE FindPartitions
  BY <1>3 DEF FindPartitions
<1>4. CASE MountDatafile \/ MountGiven
  BY <1>4 DEF MountDatafile, MountGiven
<1>5. CASE MountData
  BY <1>5 DEF MountData
<1>6. CASE CreateSubvolumes \/ MountSubvolume
  BY <1>6 DEF CreateSubvolumes, MountSubvolume, mounts
<1>7. CASE EnableSwap
  BY <1>7 DEF EnableSwap
<1>8. CASE FallBack
  BY <1>8 DEF FallBack
<1>9. CASE MoveBegin \/ MoveEnd \/ SkipMove \/ MoveFails \/ SetupNewroot \/ SetupMysql \/ MysqlCopied
           \/ MysqlCopyFails \/ MountMysql
  BY <1>9 DEF MoveBegin, MoveEnd, SkipMove, MoveFails, SetupNewroot, SetupMysql, MysqlCopied,
     MysqlCopyFails, MountMysql, mounts
<1>10. CASE Write \/ Shutdown \/ Upgrade \/ PowerFailure
  BY <1>10 DEF Write, Shutdown, Upgrade, PowerFailure, mounts
<1> QED
  BY <1>1, <1>2, <1>3, <1>4, <1>5, <1>6, <1>7, <1>8, <1>9, <1>10 DEF Next, Rest

LEMMA PlaceStep ==
  ASSUME TypeOK, MediaInv, PlaceInv, [Next]_vars
  PROVE  PlaceInv'
<1> USE DEF PlaceInv
<1>1. CASE UNCHANGED vars
  BY <1>1 DEF vars, disk, mounts, Upper, MustMove
<1>2. CASE \E asTransient \in BOOLEAN : PowerOn(asTransient)
  BY <1>2 DEF PowerOn, disk
<1>3. CASE FindPartitions \/ MountDatafile \/ MountGiven \/ MountData
  BY <1>3 DEF FindPartitions, MountDatafile, MountGiven, MountData, disk
<1>4. CASE CreateSubvolumes \/ MountSubvolume \/ EnableSwap
  BY <1>4 DEF CreateSubvolumes, MountSubvolume, EnableSwap, disk
<1>5. CASE FallBack
  BY <1>5 DEF FallBack, TypeOK
<1>6. CASE MoveBegin
  BY <1>6 DEF MoveBegin, MustMove, TypeOK, Places, mounts
<1>7. CASE MoveEnd
  BY <1>7 DEF MoveEnd, MustMove, TypeOK, Places, mounts
<1>8. CASE SkipMove \/ MoveFails
  BY <1>8 DEF SkipMove, MoveFails, MustMove, disk, mounts
<1>9. CASE SetupNewroot
  <2>1. /\ dirs' = dirs \cup {Upper} /\ boot' \in {"mysql", "off"}
        /\ UNCHANGED <<image, data, rw>>
    BY <1>9 DEF SetupNewroot, mounts
  <2>2. Upper' = Upper
    BY <2>1 DEF Upper
  <2>3. image # "overlay" => Upper # "new"
    BY DEF Upper, TypeOK, Media
  <2> QED
    BY <2>1, <2>2, <2>3
<1>10. CASE SetupMysql \/ MysqlCopied \/ MysqlCopyFails \/ MountMysql
  BY <1>10 DEF SetupMysql, MysqlCopied, MysqlCopyFails, MountMysql, Upper, disk, mounts
<1>11. CASE Write
  BY <1>11 DEF Write, Upper, TypeOK, mounts
<1>12. CASE Shutdown \/ PowerFailure
  BY <1>12 DEF Shutdown, PowerFailure, disk, mounts
<1>13. CASE Upgrade
  BY <1>13 DEF Upgrade, disk, mounts
<1> QED
  BY <1>1, <1>2, <1>3, <1>4, <1>5, <1>6, <1>7, <1>8, <1>9, <1>10, <1>11, <1>12, <1>13 DEF Next, Rest

LEMMA FoundStep ==
  ASSUME TypeOK, MediaInv, CalmInv, [Next]_vars, boot' # "off", calm'
  PROVE  FoundInv'
<1> USE DEF CalmInv, FoundInv
<1>1. CASE FindPartitions
  BY <1>1 DEF FindPartitions, Fails
<1>2. CASE UNCHANGED <<found, media, boot, calm>>
  BY <1>2
<1>3. CASE \E asTransient \in BOOLEAN : PowerOn(asTransient)
  BY <1>3 DEF PowerOn
<1>4. CASE UNCHANGED <<found, media>> /\ boot \notin {"off", "find"} /\ (UNCHANGED calm \/ ~calm')
  BY <1>4
<1>5. CASE MountDatafile \/ MountGiven \/ MountData \/ CreateSubvolumes \/ MountSubvolume \/ EnableSwap \/ FallBack
  BY <1>4, <1>5 DEF MountDatafile, MountGiven, MountData, CreateSubvolumes, MountSubvolume, EnableSwap,
     FallBack, mounts, Works, Fails
<1>6. CASE MoveBegin \/ MoveEnd \/ SkipMove \/ MoveFails \/ SetupNewroot \/ SetupMysql \/ MysqlCopied
           \/ MysqlCopyFails \/ MountMysql \/ Write
  BY <1>4, <1>6 DEF MoveBegin, MoveEnd, SkipMove, MoveFails, SetupNewroot, SetupMysql, MysqlCopied,
     MysqlCopyFails, MountMysql, Write, mounts, Works, Fails
<1>7. CASE Shutdown \/ Upgrade \/ PowerFailure
  BY <1>7 DEF Shutdown, Upgrade, PowerFailure
<1> QED
  BY <1>1, <1>2, <1>3, <1>5, <1>6, <1>7 DEF Next, Rest, vars, mounts

LEMMA LayerStep ==
  ASSUME TypeOK, MediaInv, CalmInv, [Next]_vars, boot' # "off", calm'
  PROVE  LayerInv'
<1> USE DEF CalmInv, LayerInv, LatePhases
<1> DEFINE layers == <<image, media, rw, transient>>
<1>1. UNCHANGED layers => (UNCHANGED <<CalmLayer, InitLayer>>)
  BY DEF CalmLayer, InitLayer, OverlayLayer
<1>2. CASE UNCHANGED vars
  BY <1>1, <1>2 DEF vars, mounts
<1>3. CASE (\E asTransient \in BOOLEAN : PowerOn(asTransient)) \/ FindPartitions
  BY <1>3 DEF PowerOn, FindPartitions
<1>4. CASE MountDatafile
  <2>1. /\ boot = "layer" /\ image = "init" /\ rw = "none" /\ calm /\ image' = image /\ media' = media
        /\ transient' = transient
        /\ boot' = IF found /\ ~transient THEN "subvolumes" ELSE "tmpfs"
    BY <1>4 DEF MountDatafile, MediaInv, Works, Fails
  <2>2. rw' = IF transient \/ InitLayer \notin {"dat", "vda2"} THEN "none" ELSE InitLayer
    BY <1>4, <2>1 DEF MountDatafile, Fails, InitLayer
  <2>3. found <=> "part" \in media
    BY <2>1 DEF FoundInv
  <2> QED
    BY <2>1, <2>2, <2>3 DEF CalmLayer, InitLayer
<1>5. CASE MountGiven
  BY <1>5 DEF MountGiven, MediaInv, CalmLayer, Fails
<1>6. CASE MountData
  <2>1. /\ boot = "layer" /\ image = "overlay" /\ rw = "none" /\ calm /\ image' = image /\ media' = media
        /\ ~transient /\ transient' = transient /\ boot' = "tmpfs"
    BY <1>6 DEF MountData, MediaInv, Works, Fails
  <2>2. found <=> "part" \in media
    BY <2>1 DEF FoundInv
  <2>3. rw' = IF OverlayLayer = "tmpfs" THEN "none" ELSE OverlayLayer
    BY <1>6, <2>1, <2>2 DEF MountData, Fails, OverlayLayer
  <2> QED
    BY <2>1, <2>3 DEF CalmLayer, OverlayLayer
<1>7. CASE CreateSubvolumes
  BY <1>1, <1>7 DEF CreateSubvolumes, mounts, Fails, Works
<1>8. CASE MountSubvolume
  <2>1. /\ boot = "rw" /\ calm /\ image = "init" /\ found /\ ~transient /\ image' = image /\ media' = media
        /\ boot' = "swap" /\ subvols = SubvolumeNames
    BY <1>8 DEF MountSubvolume, MediaInv, SubvolumesInv, Works, Fails
  <2>2. rw' = InitLayer
    BY <1>8, <2>1 DEF MountSubvolume, MediaInv, Fails, InitLayer, SubvolumeNames
  <2> QED
    BY <2>1, <2>2 DEF InitLayer
<1>9. CASE EnableSwap
  <2>1. UNCHANGED layers /\ boot = "swap" /\ boot' = "tmpfs" /\ calm
    BY <1>9 DEF EnableSwap, Works, Fails
  <2> QED
    BY <1>1, <2>1 DEF MediaInv, CalmLayer, InitLayer
<1>10. CASE FallBack
  BY <1>10 DEF FallBack, Works, Fails, CalmLayer, InitLayer, OverlayLayer
<1>11. CASE MoveBegin \/ MoveEnd \/ SkipMove \/ MoveFails \/ SetupNewroot \/ SetupMysql \/ MysqlCopied
            \/ MysqlCopyFails \/ MountMysql \/ Write
  <2>1. UNCHANGED layers /\ boot \in LatePhases /\ calm /\ boot' \in LatePhases
    BY <1>11 DEF MoveBegin, MoveEnd, SkipMove, MoveFails, SetupNewroot, SetupMysql, MysqlCopied,
       MysqlCopyFails, MountMysql, Write, mounts, Works, Fails
  <2> QED
    BY <1>1, <2>1
<1>12. CASE Shutdown \/ Upgrade \/ PowerFailure
  BY <1>12 DEF Shutdown, Upgrade, PowerFailure
<1> QED
  BY <1>2, <1>3, <1>4, <1>5, <1>6, <1>7, <1>8, <1>9, <1>10, <1>11, <1>12 DEF Next, Rest

LEMMA SubvolumesStep ==
  ASSUME TypeOK, MediaInv, CalmInv, [Next]_vars, boot' # "off", calm'
  PROVE  SubvolumesInv'
<1> USE DEF CalmInv, SubvolumesInv, LatePhases
<1>1. CASE UNCHANGED <<boot, calm, subvols, image, found, transient, swapOn, short>>
  BY <1>1
<1>2. CASE (\E asTransient \in BOOLEAN : PowerOn(asTransient)) \/ FindPartitions
  BY <1>2 DEF PowerOn, FindPartitions
<1>3. CASE MountDatafile \/ MountGiven \/ MountData
  BY <1>3 DEF MountDatafile, MountGiven, MountData
<1>4. CASE CreateSubvolumes \/ MountSubvolume
  BY <1>4 DEF CreateSubvolumes, MountSubvolume, Works, Fails, disk
<1>5. CASE EnableSwap
  <2>1. boot = "swap" /\ boot' = "tmpfs" /\ calm /\ subvols = SubvolumeNames
    BY <1>5 DEF EnableSwap, Works, Fails
  <2>2. swapOn' \/ short'
    BY <1>5, <2>1, MakeSwapFlags DEF EnableSwap, Fails, TypeOK, SubvolumeNames
  <2> QED
    BY <2>1, <2>2
<1>6. CASE FallBack
  BY <1>6 DEF FallBack, Works, Fails
<1>7. CASE MoveBegin \/ MoveEnd \/ SkipMove \/ MoveFails \/ SetupNewroot \/ SetupMysql \/ MysqlCopied
            \/ MysqlCopyFails \/ MountMysql \/ Write
  <2>1. UNCHANGED <<image, found, transient, swapOn, short>> /\ boot \in LatePhases /\ calm /\ boot' \in LatePhases
    BY <1>7 DEF MoveBegin, MoveEnd, SkipMove, MoveFails, SetupNewroot, SetupMysql, MysqlCopied,
       MysqlCopyFails, MountMysql, Write, mounts, Works, Fails
  <2> QED
    BY <2>1
<1>8. CASE Shutdown \/ Upgrade \/ PowerFailure
  BY <1>8 DEF Shutdown, Upgrade, PowerFailure
<1> QED
  BY <1>1, <1>2, <1>3, <1>4, <1>5, <1>6, <1>7, <1>8 DEF Next, Rest, vars, disk, mounts

LEMMA BootStep ==
  ASSUME TypeOK, BootInv, [Next]_vars
  PROVE  BootInv'
BY MediaStep, PlaceStep, FoundStep, LayerStep, SubvolumesStep DEF BootInv, CalmInv

LEMMA BootAlways == Spec => [](TypeOK /\ BootInv)
<1>1. Init => TypeOK /\ BootInv
  BY InitType, InitBoot
<1>2. TypeOK /\ BootInv /\ [Next]_vars => (TypeOK /\ BootInv)'
  BY TypeStep, BootStep
<1> QED
  BY <1>1, <1>2, PTL DEF Spec

(* SwapHeals: a boot of init.cpp in which every call works has swap, or no *)
(* space for it, whatever swap file the boots before have left.            *)
THEOREM SwapIsMadeAgain == Spec => []SwapHeals
<1>1. TypeOK /\ BootInv => SwapHeals
  BY DEF BootInv, CalmInv, SubvolumesInv, SwapHeals, LatePhases
<1> QED
  BY <1>1, BootAlways, PTL
-----------------------------------------------------------------------------
(* Part 3: what sessions have written.                                     *)

LEMMA CalmUp ==
  ASSUME TypeOK, BootInv, boot = "up", calm, rw # "tmpfs"
  PROVE  /\ ~transient /\ rw = CalmLayer
         /\ Upper = Home /\ Upper \in dirs /\ Upper \in Places
<1>1. ~transient /\ rw = CalmLayer
  BY DEF BootInv, CalmInv, LayerInv, LatePhases
<1>2. Upper \in dirs
  BY DEF BootInv, PlaceInv
<1>3. CASE rw # "part"
  BY <1>1, <1>2, <1>3 DEF Upper, Home, TypeOK
<1>4. CASE rw = "part" /\ image = "overlay"
  <2>1. Upper = "new"
    BY <1>4 DEF Upper
  <2> QED
    BY <1>1, <1>2, <1>4, <2>1 DEF Home, TypeOK
<1>5. CASE rw = "part" /\ image # "overlay"
  BY <1>1, <1>2, <1>5 DEF Upper, Home, TypeOK
<1> QED
  BY <1>1, <1>2, <1>3, <1>4, <1>5

LEMMA HomeStays ==
  ASSUME UNCHANGED <<image, media>>, "new" \in dirs <=> "new" \in dirs',
         boot = "moving" <=> boot' = "moving"
  PROVE  Home' = Home /\ CalmLayer' = CalmLayer
BY DEF Home, CalmLayer, InitLayer, OverlayLayer

LEMMA InitKept == Init => KeptInv
BY DEF Init, KeptInv

LEMMA KeptStep ==
  ASSUME SameLayer, TypeOK, BootInv, KeptInv, [Next]_vars
  PROVE  KeptInv'
<1> USE DEF KeptInv
<1>1. CASE UNCHANGED <<image, media, dirs, data, kept, torn>> /\ "moving" \notin {boot, boot'}
  BY <1>1, HomeStays
<1>2. CASE UNCHANGED vars
  BY <1>2, HomeStays DEF vars, disk, history
<1>3. CASE (\E asTransient \in BOOLEAN : PowerOn(asTransient)) \/ FindPartitions \/ MountDatafile \/ MountGiven
           \/ MountData
  BY <1>1, <1>3 DEF PowerOn, FindPartitions, MountDatafile, MountGiven, MountData, disk, history
<1>4. CASE CreateSubvolumes \/ MountSubvolume \/ EnableSwap \/ SkipMove
  BY <1>1, <1>4 DEF CreateSubvolumes, MountSubvolume, EnableSwap, SkipMove, disk, history
<1>5. CASE FallBack
  <2>1. /\ UNCHANGED <<image, media, dirs, kept, torn>> /\ "moving" \notin {boot, boot'}
        /\ data' \in {data, [data EXCEPT !["tmpfs"] = {}]}
    BY <1>5 DEF FallBack, history
  <2>2. Home' = Home /\ CalmLayer' = CalmLayer
    BY <2>1, HomeStays
  <2>3. Home # "tmpfs" => data'[Home] = data[Home]
    BY <2>1 DEF TypeOK, Home, CalmLayer, InitLayer, OverlayLayer, Places
  <2>4. Home = "tmpfs" => kept = {}
    BY DEF Home
  <2> QED
    BY <2>1, <2>2, <2>3, <2>4
<1>6. CASE MoveBegin
  <2>1. /\ UNCHANGED <<image, media, kept, torn>> /\ boot' = "moving" /\ boot = "move"
        /\ "new" \notin dirs /\ data'["old"] = data["old"] /\ rw = "part" /\ image = "overlay"
    BY <1>6 DEF MoveBegin, MustMove, TypeOK, history, mounts
  <2>2. CalmLayer' = CalmLayer /\ CalmLayer = "part"
    BY <2>1 DEF CalmLayer, InitLayer, OverlayLayer, BootInv, MediaInv
  <2> QED
    BY <2>1, <2>2 DEF Home
<1>7. CASE MoveEnd
  <2>1. /\ UNCHANGED <<image, media, kept, torn>> /\ boot' = "newroot" /\ boot = "moving"
        /\ image = "overlay" /\ rw = "part" /\ "new" \in dirs'
        /\ data'["new"] = data["old"]
    BY <1>7 DEF MoveEnd, TypeOK, BootInv, PlaceInv, Places, history
  <2>2. CalmLayer' = CalmLayer /\ CalmLayer = "part"
    BY <2>1 DEF CalmLayer, InitLayer, OverlayLayer, BootInv, MediaInv
  <2> QED
    BY <2>1, <2>2 DEF Home
<1>8. CASE MoveFails \/ PowerFailure
  <2>1. UNCHANGED <<image, media, dirs, data, kept>> /\ boot' # "moving"
    BY <1>8 DEF MoveFails, PowerFailure, disk
  <2>2. CASE boot = "moving"
    BY <1>8, <2>1, <2>2 DEF MoveFails, PowerFailure, CalmLayer, InitLayer, OverlayLayer
  <2>3. CASE boot # "moving"
    <3>1. ~torn' => ~torn
      BY <1>8, <2>3 DEF MoveFails, PowerFailure
    <3> QED
      BY <2>1, <2>3, <3>1, HomeStays
  <2> QED
    BY <2>2, <2>3
<1>9. CASE SetupNewroot
  <2>1. /\ dirs' = dirs \cup {Upper} /\ UNCHANGED <<image, media, data, kept, torn>>
        /\ "moving" \notin {boot, boot'} /\ boot = "newroot"
    BY <1>9 DEF SetupNewroot, history
  <2>2. CASE Upper # "new" \/ "new" \in dirs
    <3>1. "new" \in dirs <=> "new" \in dirs'
      BY <2>1, <2>2
    <3> QED
      BY <2>1, <3>1, HomeStays
  <2>3. CASE Upper = "new" /\ "new" \notin dirs
    <3>1. image = "overlay" /\ rw = "part" /\ "old" \notin dirs
      BY <2>1, <2>3 DEF Upper, TypeOK, Media, BootInv, PlaceInv, MustMove
    <3>2. data["old"] = {} /\ data["new"] = {}
      BY <2>3, <3>1 DEF BootInv, PlaceInv, Places
    <3>3. CalmLayer = "part" /\ CalmLayer' = "part"
      BY <2>1, <3>1 DEF CalmLayer, OverlayLayer, BootInv, MediaInv
    <3> QED
      BY <2>1, <2>3, <3>1, <3>2, <3>3 DEF Home
  <2> QED
    BY <2>2, <2>3
<1>10. CASE SetupMysql \/ MysqlCopied \/ MysqlCopyFails \/ MountMysql \/ Shutdown
  BY <1>1, <1>10 DEF SetupMysql, MysqlCopied, MysqlCopyFails, MountMysql, Shutdown, disk, history
<1>11. CASE Write
  <2>1. /\ UNCHANGED <<image, media, dirs, boot, torn>> /\ boot = "up"
        /\ data' = [data EXCEPT ![Upper] = @ \cup {boots}]
        /\ kept' = IF calm /\ rw # "tmpfs" THEN kept \cup {boots} ELSE kept
    BY <1>11 DEF Write
  <2>2. Home' = Home /\ CalmLayer' = CalmLayer
    BY <2>1, HomeStays
  <2>3. Home \in Places /\ data[Home] \subseteq data'[Home]
    BY <2>1 DEF TypeOK, Home, CalmLayer, InitLayer, OverlayLayer, Places
  <2>4. CASE calm /\ rw # "tmpfs"
    <3>1. rw = CalmLayer /\ Upper = Home
      BY <2>1, <2>4, CalmUp
    <3>2. data'[Home] = data[Home] \cup {boots}
      BY <2>1, <2>3, <3>1 DEF TypeOK
    <3> QED
      BY <2>1, <2>2, <2>4, <3>1, <3>2
  <2> QED
    BY <2>1, <2>2, <2>3, <2>4
<1>12. CASE Upgrade
  <2>1. /\ UNCHANGED <<media, dirs, data, boot, kept, torn>> /\ boot = "off"
        /\ image = "init" /\ image' = "overlay" /\ media \in Upgradable
    BY <1>12 DEF Upgrade, disk, history
  <2>2. "new" \notin dirs
    BY <2>1 DEF BootInv, PlaceInv
  <2>3. "dat" \notin media /\ ~("vda2" \in media /\ "part" \in media)
    BY <2>1 DEF SameLayer
  <2>4. CASE CalmLayer = "tmpfs"
    BY <2>1, <2>3, <2>4 DEF CalmLayer, InitLayer, OverlayLayer
  <2>5. CASE CalmLayer # "tmpfs"
    BY <2>1, <2>2, <2>3, <2>5 DEF Home, CalmLayer, InitLayer, OverlayLayer
  <2> QED
    BY <2>4, <2>5
<1> QED
  BY <1>2, <1>3, <1>4, <1>5, <1>6, <1>7, <1>8, <1>9, <1>10, <1>11, <1>12 DEF Next, Rest

(* SessionsContinue: with SameLayer, a boot in which every call works      *)
(* finds all that the calm sessions before it have written, for any media, *)
(* any number of boots and whatever failed in them, an upgrade included.   *)
THEOREM SessionsAreContinued ==
  ASSUME SameLayer
  PROVE  Spec => []SessionsContinue
<1>1. Init => KeptInv
  BY InitKept
<1>2. TypeOK /\ BootInv /\ KeptInv /\ [Next]_vars => KeptInv'
  BY KeptStep
<1>3. TypeOK /\ BootInv /\ KeptInv => SessionsContinue
  <2> SUFFICES ASSUME TypeOK, BootInv, KeptInv, boot = "up", calm, ~transient, ~torn
               PROVE  kept \subseteq data[Upper]
    BY DEF SessionsContinue
  <2>1. rw = CalmLayer
    BY DEF BootInv, CalmInv, LayerInv, LatePhases
  <2>2. CASE rw = "tmpfs"
    BY <2>1, <2>2 DEF KeptInv
  <2>3. CASE rw # "tmpfs"
    BY <2>3, CalmUp DEF KeptInv
  <2> QED
    BY <2>2, <2>3
<1> QED
  BY <1>1, <1>2, <1>3, BootAlways, PTL DEF Spec
-----------------------------------------------------------------------------
(* Part 4: the database.                                                   *)

LEMMA InitSql == Init => SqlInv
BY DEF Init, SqlInv, ServedInv

(* Nothing a boot does but the start of a copy and its failure makes a     *)
(* database empty or unfinished.                                           *)
LEMMA SqlStays ==
  ASSUME SqlInv, UNCHANGED <<image, media, keptSql>>, mysql'[SqlHome] = mysql[SqlHome],
         subvols \subseteq subvols', boot' # "copying"
  PROVE  keptSql' # {} => SqlKept'
BY DEF SqlInv, SqlKept, SqlHome

LEMMA SqlStep ==
  ASSUME TypeOK, BootInv, SqlInv, [Next]_vars
  PROVE  SqlInv'
<1>1. CASE UNCHANGED vars
  BY <1>1 DEF vars, disk, mounts, history, SqlInv, SqlKept, ServedInv, SqlHome, DatabaseAt
<1>2. CASE (\E asTransient \in BOOLEAN : PowerOn(asTransient)) \/ FindPartitions \/ MountDatafile \/ MountGiven
           \/ MountData \/ MountSubvolume \/ EnableSwap \/ MoveEnd \/ MoveBegin \/ SkipMove \/ MoveFails
           \/ SetupNewroot \/ Shutdown \/ PowerFailure
  <2>1. /\ UNCHANGED <<image, media, subvols, mysql, keptSql>> /\ boot' \notin {"copying", "up"}
        /\ boot' = "off" \/ served' = "image" \/ (boot \notin {"off", "up"} /\ served' = served)
    BY <1>2 DEF PowerOn, FindPartitions, MountDatafile, MountGiven, MountData, MountSubvolume, EnableSwap,
       MoveEnd, MoveBegin, SkipMove, MoveFails, SetupNewroot, Shutdown, PowerFailure, disk, mounts, history
  <2> QED
    BY <2>1, SqlStays DEF SqlInv, ServedInv
<1>3. CASE CreateSubvolumes
  <2>1. /\ UNCHANGED <<image, media, mysql, keptSql>> /\ boot' \notin {"copying", "up"} /\ subvols \subseteq subvols'
        /\ boot \notin {"off", "up"} /\ served' = served
    BY <1>3 DEF CreateSubvolumes, history, mounts, TypeOK
  <2> QED
    BY <2>1, SqlStays DEF SqlInv, ServedInv
<1>4. CASE FallBack
  <2>1. /\ UNCHANGED <<image, media, subvols, keptSql>> /\ boot' \notin {"copying", "up"}
        /\ mysql'[SqlHome] = mysql[SqlHome] /\ boot \notin {"off", "up"} /\ served' = served
    BY <1>4 DEF FallBack, history, TypeOK, SqlHome
  <2> QED
    BY <2>1, SqlStays DEF SqlInv, ServedInv
<1>5. CASE SetupMysql
  <2>1. /\ UNCHANGED <<image, media, subvols, keptSql, found, rw, served>>
        /\ boot = "mysql" /\ boot' = "copying"
        /\ mysql[DatabaseAt].state = "empty"
        /\ mysql' = [mysql EXCEPT ![DatabaseAt].state = "partial"]
    BY <1>5 DEF SetupMysql, history, mounts
  <2>2. keptSql # {} => DatabaseAt # SqlHome
    BY <2>1 DEF SqlInv, SqlKept
  <2>3. SqlHome' = SqlHome /\ DatabaseAt' = DatabaseAt
    BY <2>1 DEF SqlHome, DatabaseAt
  <2>4. DatabaseAt # SqlHome => mysql'[SqlHome] = mysql[SqlHome]
    BY <2>1 DEF TypeOK
  <2> QED
    BY <2>1, <2>2, <2>3, <2>4 DEF SqlInv, SqlKept, ServedInv
<1>6. CASE MysqlCopied \/ MysqlCopyFails
  <2>1. PICK state : mysql' = [mysql EXCEPT ![DatabaseAt].state = state]
                     /\ (MysqlCopied => state = "whole")
    BY <1>6 DEF MysqlCopied, MysqlCopyFails
  <2>2. /\ UNCHANGED <<image, media, subvols, keptSql, found, rw>> /\ boot' = "up" /\ boot = "copying"
        /\ MysqlCopied => served' = "data"
        /\ MysqlCopyFails => served' = served /\ ~calm'
    BY <1>6 DEF MysqlCopied, MysqlCopyFails, mounts, history, Fails
  <2>3. SqlHome' = SqlHome /\ DatabaseAt' = DatabaseAt /\ DatabaseAt # "none"
    BY <2>2 DEF SqlHome, DatabaseAt, TypeOK
  <2>4. DatabaseAt # SqlHome => mysql'[SqlHome] = mysql[SqlHome]
    BY <2>1 DEF TypeOK
  <2>5. keptSql # {} => SqlKept'
    BY <2>2, <2>3, <2>4 DEF SqlInv, SqlKept
  <2>6. ServedInv'
    <3>1. DatabaseAt \in DOMAIN mysql
      BY <2>3 DEF TypeOK, DatabaseAt, BootInv, MediaInv
    <3>2. CASE MysqlCopied
      <4>1. mysql'[DatabaseAt].state = "whole"
        BY <2>1, <3>1, <3>2 DEF TypeOK
      <4> QED
        BY <2>2, <2>3, <3>2, <4>1 DEF ServedInv
    <3>3. CASE MysqlCopyFails
      BY <2>2, <3>3 DEF ServedInv, SqlInv
    <3> QED
      BY <1>6, <3>2, <3>3
  <2> QED
    BY <2>2, <2>5, <2>6 DEF SqlInv
<1>7. CASE MountMysql
  <2>1. UNCHANGED <<image, media, subvols, keptSql, found, rw, mysql>> /\ boot = "mysql" /\ boot' = "up"
    BY <1>7 DEF MountMysql, disk, history
  <2>2. DatabaseAt' = DatabaseAt
    BY <2>1 DEF DatabaseAt
  <2>3. ServedInv'
    BY <1>7, <2>1, <2>2 DEF MountMysql, SqlInv, ServedInv, Fails
  <2> QED
    BY <2>1, <2>3, SqlStays DEF SqlInv
<1>8. CASE Write
  <2>1. /\ UNCHANGED <<image, media, subvols, found, rw, served, calm, boot>> /\ boot = "up"
        /\ DatabaseAt' = DatabaseAt
    BY <1>8 DEF Write, mounts, DatabaseAt
  <2>2. CASE served # "data"
    BY <1>8, <2>1, <2>2 DEF Write, SqlInv, SqlKept, ServedInv, SqlHome
  <2>3. CASE served = "data"
    <3>1. /\ mysql' = [mysql EXCEPT ![DatabaseAt].items = @ \cup {boots}]
          /\ keptSql' = IF calm /\ DatabaseAt # "tmpfs" THEN keptSql \cup {boots} ELSE keptSql
      BY <1>8, <2>3 DEF Write
    <3>2. DatabaseAt # "none" /\ mysql[DatabaseAt].state # "empty"
      BY <2>1, <2>3 DEF SqlInv, ServedInv
    <3>3. DatabaseAt = "tmpfs" \/ DatabaseAt = SqlHome
      BY <3>2 DEF DatabaseAt, SqlHome, BootInv, MediaInv
    <3>4. image = "init" => "part" \in media /\ "mysql" \in subvols
      BY <3>2 DEF DatabaseAt, BootInv, MediaInv
    <3>5. ServedInv'
      BY <2>1, <2>3, <3>1, <3>2 DEF ServedInv, TypeOK
    <3>6. CASE DatabaseAt = SqlHome
      <4>1. /\ mysql'[SqlHome].items = mysql[SqlHome].items \cup {boots}
            /\ mysql'[SqlHome].state = mysql[SqlHome].state
        BY <3>1, <3>6 DEF TypeOK, SqlHome
      <4>2. keptSql \subseteq mysql[SqlHome].items
        BY DEF SqlInv, SqlKept
      <4> QED
        BY <2>1, <3>1, <3>2, <3>4, <3>5, <3>6, <4>1, <4>2 DEF SqlInv, SqlKept, SqlHome
    <3>7. CASE DatabaseAt = "tmpfs"
      <4>1. mysql'[SqlHome] = mysql[SqlHome] /\ keptSql' = keptSql
        BY <3>1, <3>7 DEF TypeOK, SqlHome
      <4> QED
        BY <2>1, <3>5, <4>1, SqlStays DEF SqlInv
    <3> QED
      BY <3>3, <3>6, <3>7
  <2> QED
    BY <2>2, <2>3
<1>9. CASE Upgrade
  BY <1>9 DEF Upgrade, SqlInv, SqlKept, ServedInv, SqlHome, disk, history
<1> QED
  BY <1>1, <1>2, <1>3, <1>4, <1>5, <1>6, <1>7, <1>8, <1>9 DEF Next, Rest

(* DatabaseContinues: the initial copy of the database never goes over one *)
(* that calm sessions have written to, and a boot in which every call      *)
(* works serves that one.                                                  *)
THEOREM DatabaseIsContinued == Spec => []DatabaseContinues
<1>1. TypeOK /\ BootInv /\ SqlInv /\ [Next]_vars => SqlInv'
  BY SqlStep
<1>2. TypeOK /\ BootInv /\ SqlInv => DatabaseContinues
  <2> SUFFICES ASSUME TypeOK, BootInv, SqlInv, boot = "up", calm, keptSql # {},
                      image = "init" \/ (image = "paravirt" /\ ~transient)
               PROVE  served = "data" /\ keptSql \subseteq mysql[DatabaseAt].items
    BY DEF DatabaseContinues
  <2>1. DatabaseAt = SqlHome
    BY DEF DatabaseAt, SqlHome, SqlInv, SqlKept, BootInv, MediaInv, CalmInv, FoundInv, LayerInv, LatePhases,
       CalmLayer
  <2>2. served = "data"
    BY <2>1 DEF SqlInv, ServedInv, SqlHome
  <2> QED
    BY <2>1, <2>2 DEF SqlInv, SqlKept
<1> QED
  BY <1>1, <1>2, InitSql, BootAlways, PTL DEF Spec
=============================================================================
