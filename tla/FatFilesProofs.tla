--------------------------- MODULE FatFilesProofs ---------------------------
(***************************************************************************)
(* Proofs about FatVolume: the files of the volume.  The clusters a call   *)
(* works on are those of FatVolumeProofs; here are the types, the entries  *)
(* of the directory, the areas they name, the files that callers have been *)
(* promised, the store that the library is for them, and the free count.   *)
(***************************************************************************)
EXTENDS FatVolumeProofs

(* Part 1: types.                                                          *)
Sector == [1 .. Slots -> Entries]
Infos == [there : BOOLEAN, free : 0 .. N, next : 0 .. N]

FatTyped ==
  /\ dfat \in [Clusters -> 0 .. N + 1] /\ fat \in [Clusters -> 0 .. N + 1]
  /\ \A s \in FatSecs : \A f \in vfat[s] : \A c \in Clusters : f[c] \in 0 .. N + 1
DirTyped ==
  /\ ddir \in [Clusters -> Sector] /\ dir \in [Clusters -> Sector]
  /\ vdir \in [Clusters -> SUBSET Sector]
InfoTyped ==
  /\ dinfo \in Infos /\ vinfo \subseteq Infos
  /\ win \in Sectors /\ dirty \in BOOLEAN
  /\ free \in 0 .. N /\ last \in 0 .. N /\ fsi \in {"off", "clean", "set"}
  /\ vol \in {"none", "registered", "mounted"}

(* The count of f_getfree is at most that of the clusters it has passed.   *)
Counting ==
  At("count") => call.clst \in Clusters /\ call.ncl <= (call.clst \div PerSector) * PerSector

(* What a call is about to write is typed.                                 *)
Fitting ==
  /\ At("alloc") => call.clst + call.left = call.scl + call.len /\ call.len # 0 /\ call.scl >= 2
  /\ At("close") /\ call.res = "ok" => call.scl >= 2 /\ call.len # 0 /\ call.scl + call.len <= N

TypeInv == FatTyped /\ DirTyped /\ InfoTyped /\ Counting /\ Fitting

-----------------------------------------------------------------------------
(* The kinds of steps, by what they do to the disk and the window.         *)
Still == UNCHANGED <<disk, versions, window>>
Settling == Settle /\ UNCHANGED <<disk, window>>
Syncing ==
  /\ SyncWindow /\ dirty' = FALSE
  /\ UNCHANGED <<fat, dir, win>> \/ \E s \in Sectors : Fresh(s)
Rereading == UNCHANGED <<dfat, ddir, vfat, vdir>> /\ \E s \in Sectors : Fresh(s)
Putting == UNCHANGED <<disk, versions>> /\ (TakeCluster \/ LinkCluster \/ Alloc)
Entering == UNCHANGED <<disk, versions>> /\ (DirRegister \/ CloseEntry \/ DirRemove)
Zeroing == DirZero \/ DirZeroFails

LEMMA TargetIn ==
  ASSUME ClusterInv, TypeInv, Accessing, ~InWindow
  PROVE  Target \in Sectors
<1>1. call \in CallType /\ call.dcl \in Clusters
  BY DEF ClusterInv, CallInv, CallType
<1>2. CASE call.pc \in {"find", "register", "close", "remove"}
  BY <1>1, <1>2 DEF Target, Sectors
<1>3. CASE call.pc \in {"findnext", "regnext", "link"}
  BY <1>1, <1>3 DEF Target, Sectors, FatSecs
<1>4. CASE call.pc \in {"probe", "chain"}
  <2>1. call.ncl \in Clusters
    BY <1>4 DEF ClusterInv, CallInv, Stretching
  <2> QED
    BY <1>4, <2>1 DEF Target, Sectors, FatSecs
<1>5. CASE call.pc \in {"search", "alloc", "count"}
  <2>1. call.clst \in Clusters
    BY <1>1, <1>5, Bounds DEF ClusterInv, CallInv, CallType, Searching, Allocating, TypeInv, Counting,
       Accessing, At, Clusters
  <2> QED
    BY <1>5, <2>1 DEF Target, Sectors, FatSecs
<1> QED
  BY <1>2, <1>3, <1>4, <1>5 DEF Accessing, At

LEMMA CallKinds ==
  ASSUME Calls
  PROVE  Still
BY DEF Calls, FatMount, FatUmount, FatGetFreeSpace, FatFileExists, FatFileCreate, Begin, Still

LEMMA WorkKinds ==
  ASSUME ClusterInv, TypeInv, Works
  PROVE  Still \/ Settling \/ Syncing \/ Rereading \/ Putting \/ Entering \/ Zeroing
<1>1. CASE FollowPath \/ DirFind \/ DirFindNot \/ DirNext \/ DirFull \/ DirStretch \/ ProbeHint
             \/ ChainNext \/ ExpandStart \/ Search \/ AllocPastEnd \/ CountSector
  BY <1>1 DEF FollowPath, DirFind, DirFindNot, DirNext, DirFull, DirStretch, ProbeHint, ChainNext,
     ExpandStart, Search, AllocPastEnd, CountSector, InMemory, Still
<1>2. CASE MoveWindow
  BY <1>2, TargetIn DEF MoveWindow, Syncing, Fresh
<1>3. CASE DirClear \/ Flush
  BY <1>3 DEF DirClear, Flush, Syncing
<1>4. CASE MountVolume \/ WriteInfo
  <2>1. InfoSec \in Sectors /\ NoSec \in Sectors
    BY DEF Sectors
  <2> QED
    BY <1>4, <2>1 DEF MountVolume, MountWith, WriteInfo, InfoWith, Rereading, Fresh, disk, versions
<1>5. CASE TakeCluster \/ LinkCluster \/ Alloc
  BY <1>5 DEF TakeCluster, LinkCluster, Alloc, Putting
<1>6. CASE DirRegister \/ CloseEntry \/ DirRemove
  BY <1>6 DEF DirRegister, CloseEntry, DirRemove, Entering
<1>7. CASE SyncFs
  BY <1>7 DEF SyncFs, Settling
<1> QED
  BY <1>1, <1>2, <1>3, <1>4, <1>5, <1>6, <1>7 DEF Works, Zeroing

LEMMA FailKinds ==
  ASSUME ClusterInv, TypeInv, Fails \/ Kill
  PROVE  Still \/ Syncing \/ Rereading \/ Zeroing
<1>1. InfoSec \in Sectors /\ NoSec \in Sectors
  BY DEF Sectors
<1>2. CASE WriteFails \/ FlushFails \/ SyncFsFails
  BY <1>2 DEF WriteFails, FlushFails, SyncFsFails, Still
<1>3. CASE ReadFails
  BY <1>1, <1>3 DEF ReadFails, Syncing, Fresh
<1>4. CASE MountNoInfo \/ MountFails \/ WriteInfoFails \/ Kill
  BY <1>1, <1>4 DEF MountNoInfo, MountFails, MountWith, WriteInfoFails, InfoWith, Kill, Restart, Rereading,
     Fresh, disk, versions
<1> QED
  BY <1>2, <1>3, <1>4 DEF Fails, Zeroing

LEMMA Kinds ==
  ASSUME ClusterInv, TypeInv, [Next]_vars
  PROVE  Still \/ Settling \/ Syncing \/ Rereading \/ Putting \/ Entering \/ Zeroing \/ PowerLoss
<1>1. CASE UNCHANGED vars
  BY <1>1 DEF vars, Still
<1> QED
  BY <1>1, CallKinds, WorkKinds, FailKinds DEF Next

-----------------------------------------------------------------------------
(* Types of the FAT, of the directory and of the rest.                     *)
LEMMA FatWritten ==
  ASSUME TypeInv, SyncWindow
  PROVE  /\ dfat' \in [Clusters -> 0 .. N + 1]
         /\ \A s \in FatSecs : \A f \in vfat'[s] : \A c \in Clusters : f[c] \in 0 .. N + 1
<1>1. CASE dirty
  <2>1. dfat' \in [Clusters -> 0 .. N + 1]
    BY <1>1 DEF SyncWindow, WriteBack, TypeInv, FatTyped
  <2>2. ASSUME NEW s \in FatSecs, NEW f \in vfat'[s], NEW c \in Clusters
        PROVE  f[c] \in 0 .. N + 1
    <3>1. f \in vfat[s] \/ f = [x \in Clusters |-> IF FatSec(x) = s THEN fat[x] ELSE 0]
      BY <1>1, <2>2 DEF SyncWindow, WriteBack
    <3> QED
      BY <3>1, Bounds DEF TypeInv, FatTyped
  <2> QED
    BY <2>1, <2>2
<1>2. CASE ~dirty
  BY <1>2 DEF SyncWindow, disk, versions, TypeInv, FatTyped
<1> QED
  BY <1>1, <1>2

LEMMA DirWritten ==
  ASSUME TypeInv, SyncWindow
  PROVE  ddir' \in [Clusters -> Sector] /\ vdir' \in [Clusters -> SUBSET Sector]
<1>1. CASE dirty
  <2>1. /\ ddir' = [c \in Clusters |-> IF DirSec(c) = win THEN dir[c] ELSE ddir[c]]
        /\ vdir' = [c \in Clusters |-> IF DirSec(c) = win THEN vdir[c] \cup {dir[c]} ELSE vdir[c]]
    BY <1>1 DEF SyncWindow, WriteBack
  <2> QED
    BY <2>1 DEF TypeInv, DirTyped
<1>2. CASE ~dirty
  BY <1>2 DEF SyncWindow, disk, versions, TypeInv, DirTyped
<1> QED
  BY <1>1, <1>2

LEMMA SettledTypes ==
  ASSUME TypeInv, dfat' \in [Clusters -> 0 .. N + 1], ddir' \in [Clusters -> Sector],
         vfat' = [s \in FatSecs |-> {[c \in Clusters |-> IF FatSec(c) = s THEN dfat'[c] ELSE 0]}],
         vdir' = [c \in Clusters |-> {ddir'[c]}]
  PROVE  /\ \A s \in FatSecs : \A f \in vfat'[s] : \A c \in Clusters : f[c] \in 0 .. N + 1
         /\ vdir' \in [Clusters -> SUBSET Sector]
BY Bounds

LEMMA BlankTyped ==
  ASSUME NEW kind \in {"end", "deleted", "file", "dir"}
  PROVE  Blank(kind) \in Entries
BY Bounds DEF Blank, Entries

LEMMA BlankSectors == Cleared \in Sector
BY BlankTyped DEF Cleared, Sector

(* What a power loss leaves in the clusters.                               *)
LEMMA AgedTyped ==
  ASSUME NEW g \in Sector
  PROVE  Aged(g) \in Sector
<1>1. ASSUME NEW s \in 1 .. Slots
      PROVE  [g[s] EXCEPT !.old = IsFile(g[s])] \in Entries
  <2>0. IsFile(g[s]) \in BOOLEAN
    BY DEF IsFile
  <2>1. PICK o \in BOOLEAN : o = IsFile(g[s])
    BY <2>0, Zenon
  <2>2. g[s] \in Entries
    BY DEF Sector
  <2>3. [g[s] EXCEPT !.old = o] \in Entries
    BY <2>2 DEF Entries
  <2> QED
    BY <2>1, <2>3
<1> QED
  BY <1>1 DEF Aged, Sector

LEMMA LostDir ==
  ASSUME PowerLoss
  PROVE  \A c \in Clusters : \E g \in vdir[c] \cup {ddir[c]} :
           ddir'[c] = IF c \in Linked(dfat') THEN g ELSE Aged(g)
<1>1. PICK cd \in [Unsettled -> UNION {vdir[c] : c \in Unsettled}] :
        /\ \A c \in Unsettled : cd[c] \in vdir[c]
        /\ LET kept == [c \in Clusters |-> IF c \in Unsettled THEN cd[c] ELSE ddir[c]] IN
           ddir' = [c \in Clusters |-> IF c \in Linked(dfat') THEN kept[c] ELSE Aged(kept[c])]
  BY DEF PowerLoss
<1> DEFINE kept == [c \in Clusters |-> IF c \in Unsettled THEN cd[c] ELSE ddir[c]]
<1>2. ddir' = [c \in Clusters |-> IF c \in Linked(dfat') THEN kept[c] ELSE Aged(kept[c])]
  BY <1>1
<1>3. \A c \in Clusters : kept[c] \in vdir[c] \cup {ddir[c]}
  BY <1>1
<1> HIDE DEF kept
<1> QED
  BY <1>2, <1>3

LEMMA LostTypes ==
  ASSUME TypeInv, PowerLoss
  PROVE  FatTyped' /\ DirTyped'
<1>1. PICK cf \in [FatSecs -> UNION {vfat[s] : s \in FatSecs}] :
        /\ \A s \in FatSecs : cf[s] \in vfat[s]
        /\ dfat' = [c \in Clusters |-> cf[FatSec(c)][c]]
  BY DEF PowerLoss
<1>3. \A c \in Clusters : FatSec(c) \in FatSecs
  BY DEF FatSecs
<1>4. dfat' \in [Clusters -> 0 .. N + 1]
  BY <1>1, <1>3 DEF TypeInv, FatTyped
<1>5. ddir' \in [Clusters -> Sector]
  <2>1. \A c \in Clusters : vdir[c] \cup {ddir[c]} \subseteq Sector
    BY DEF TypeInv, DirTyped
  <2>2. \A c \in Clusters : ddir'[c] \in Sector
    BY <2>1, LostDir, AgedTyped
  <2>3. \E g : ddir' = [c \in Clusters |-> g[c]]
    <3>1. PICK cd \in [Unsettled -> UNION {vdir[c] : c \in Unsettled}] :
            LET kept == [c \in Clusters |-> IF c \in Unsettled THEN cd[c] ELSE ddir[c]] IN
            ddir' = [c \in Clusters |-> IF c \in Linked(dfat') THEN kept[c] ELSE Aged(kept[c])]
      BY DEF PowerLoss
    <3> DEFINE kept == [c \in Clusters |-> IF c \in Unsettled THEN cd[c] ELSE ddir[c]]
               h == [c \in Clusters |-> IF c \in Linked(dfat') THEN kept[c] ELSE Aged(kept[c])]
    <3>2. ddir' = h
      BY <3>1
    <3>3. h = [c \in Clusters |-> h[c]]
      OBVIOUS
    <3> QED
      BY <3>2, <3>3
  <2> QED
    BY <2>2, <2>3
<1>6. /\ fat' = dfat' /\ dir' = ddir'
      /\ vfat' = [s \in FatSecs |-> {[c \in Clusters |-> IF FatSec(c) = s THEN dfat'[c] ELSE 0]}]
      /\ vdir' = [c \in Clusters |-> {ddir'[c]}]
  BY DEF PowerLoss, Restart, Fresh
<1> QED
  BY <1>4, <1>5, <1>6, SettledTypes DEF FatTyped, DirTyped

LEMMA FatTypedStep ==
  ASSUME ClusterInv, TypeInv, [Next]_vars
  PROVE  FatTyped'
<1>1. CASE Still
  BY <1>1 DEF Still, disk, versions, window, TypeInv, FatTyped
<1>2. CASE Settling
  <2>1. dfat' = dfat /\ fat' = fat /\ ddir' = ddir
    BY <1>2 DEF Settling, disk, window
  <2>2. \A s \in FatSecs : \A f \in vfat'[s] : \A c \in Clusters : f[c] \in 0 .. N + 1
    BY <1>2, <2>1, SettledTypes DEF Settling, Settle, TypeInv, FatTyped, DirTyped
  <2> QED
    BY <2>1, <2>2 DEF TypeInv, FatTyped
<1>3. CASE Syncing
  BY <1>3, FatWritten DEF Syncing, Fresh, TypeInv, FatTyped
<1>4. CASE Rereading
  BY <1>4 DEF Rereading, Fresh, TypeInv, FatTyped
<1>5. CASE Putting
  <2>1. call \in CallType
    BY DEF ClusterInv, CallInv
  <2>2. EOC \in 0 .. N + 1 /\ \A c \in Clusters : c \in 0 .. N + 1
    BY Bounds DEF EOC, Clusters
  <2>3. \E c \in Clusters, v \in 0 .. N + 1 : PutFat(c, v)
    <3>1. CASE TakeCluster
      BY <2>2, <3>1 DEF TakeCluster, ClusterInv, CallInv, Stretching
    <3>2. CASE LinkCluster
      BY <2>1, <2>2, <3>2 DEF LinkCluster, ClusterInv, CallInv, CallType, Stretching, At
    <3>3. CASE Alloc
      <4>1. call.clst \in Clusters /\ call.clst + 1 \in 0 .. N + 1
        BY <2>1, <3>3, Bounds DEF Alloc, ClusterInv, CallInv, CallType, Allocating, At, Clusters
      <4> QED
        BY <2>2, <3>3, <4>1 DEF Alloc
    <3> QED
      BY <1>5, <3>1, <3>2, <3>3 DEF Putting
  <2>4. fat' \in [Clusters -> 0 .. N + 1]
    BY <2>3 DEF PutFat, TypeInv, FatTyped
  <2> QED
    BY <1>5, <2>4 DEF Putting, disk, versions, TypeInv, FatTyped
<1>6. CASE Entering
  <2>1. fat' = fat
    BY <1>6 DEF Entering, DirRegister, CloseEntry, DirRemove, PutEntry
  <2> QED
    BY <1>6, <2>1 DEF Entering, disk, versions, TypeInv, FatTyped
<1>7. CASE Zeroing
  BY <1>7 DEF Zeroing, DirZero, DirZeroFails, ZeroWith, TypeInv, FatTyped
<1> QED
  BY <1>1, <1>2, <1>3, <1>4, <1>5, <1>6, <1>7, LostTypes, Kinds

(* The entries that a call writes.                                         *)
LEMMA NewEntryTyped ==
  ASSUME ClusterInv, TypeInv, DirRegister \/ CloseEntry \/ DirRemove
  PROVE  \E s \in 1 .. Slots, e \in Entries : PutEntry(s, e)
<1>1. call \in CallType
  BY DEF ClusterInv, CallInv
<1>2. CASE DirRegister
  <2>1. NewFile(call.name) \in Entries
    BY <1>1, Bounds DEF NewFile, Entries, CallType
  <2> QED
    BY <1>2, <2>1 DEF DirRegister
<1>3. CASE CloseEntry
  <2> DEFINE old == dir[call.dcl][call.slot]
             e == [old EXCEPT !.clust = IF call.res = "ok" THEN call.scl ELSE 0,
                              !.len = IF call.res = "ok" THEN call.len ELSE 0]
  <2>1. old \in Entries /\ call.slot \in 1 .. Slots
    BY <1>1 DEF CallType, TypeInv, DirTyped, Sector
  <2>2. call.res = "ok" => call.scl \in 0 .. N - 1
    BY <1>1, <1>3, Bounds DEF CloseEntry, TypeInv, Fitting, CallType
  <2>3. 0 \in 0 .. N - 1 /\ call.len \in Nat /\ 0 \in Nat
    BY <1>1, Bounds DEF CallType
  <2>4. e \in Entries
    BY <2>1, <2>2, <2>3 DEF Entries
  <2> QED
    BY <1>3, <2>1, <2>4 DEF CloseEntry
<1>4. CASE DirRemove
  BY <1>1, <1>4, BlankTyped DEF DirRemove, CallType
<1> QED
  BY <1>2, <1>3, <1>4

LEMMA DirTypedStep ==
  ASSUME ClusterInv, TypeInv, [Next]_vars
  PROVE  DirTyped'
<1>1. CASE Still
  BY <1>1 DEF Still, disk, versions, window, TypeInv, DirTyped
<1>2. CASE Settling
  <2>1. dfat' = dfat /\ ddir' = ddir /\ dir' = dir
    BY <1>2 DEF Settling, disk, window
  <2>2. vdir' \in [Clusters -> SUBSET Sector]
    BY <1>2, <2>1, SettledTypes DEF Settling, Settle, TypeInv, FatTyped, DirTyped
  <2> QED
    BY <2>1, <2>2 DEF TypeInv, DirTyped
<1>3. CASE Syncing
  BY <1>3, DirWritten DEF Syncing, Fresh, TypeInv, DirTyped
<1>4. CASE Rereading
  BY <1>4 DEF Rereading, Fresh, TypeInv, DirTyped
<1>5. CASE Putting
  BY <1>5 DEF Putting, TakeCluster, LinkCluster, Alloc, PutFat, disk, versions, TypeInv, DirTyped
<1>6. CASE Entering
  <2>1. PICK s \in 1 .. Slots, e \in Entries : PutEntry(s, e)
    BY <1>6, NewEntryTyped DEF Entering
  <2>2. dir' \in [Clusters -> Sector]
    BY <2>1 DEF PutEntry, TypeInv, DirTyped, Sector
  <2> QED
    BY <1>6, <2>2 DEF Entering, disk, versions, TypeInv, DirTyped
<1>7. CASE Zeroing
  <2>1. PICK c \in {Cleared, ddir[call.ncl]} : ZeroWith(c)
    BY <1>7 DEF Zeroing, DirZero, DirZeroFails
  <2>2. call.ncl \in Clusters
    BY <2>1 DEF ZeroWith, ClusterInv, CallInv, Stretching, At
  <2>3. c \in Sector
    BY <2>2, BlankSectors DEF TypeInv, DirTyped
  <2> QED
    BY <2>1, <2>2, <2>3, BlankSectors DEF ZeroWith, TypeInv, DirTyped
<1> QED
  BY <1>1, <1>2, <1>3, <1>4, <1>5, <1>6, <1>7, LostTypes, Kinds

(* What f_getfree counts in one sector of the FAT.                         *)
CountedHere == {c \in FreeClusters(fat) : FatSec(c) = win}
NextSector == (call.clst \div PerSector + 1) * PerSector

LEMMA Division ==
  ASSUME NEW x \in Nat, NEW y \in Nat \ {0}
  PROVE  /\ x \div y \in Nat /\ (x \div y) * y \in Nat
         /\ (x \div y) * y <= x /\ x < (x \div y + 1) * y
         /\ (x \div y + 1) * y = (x \div y) * y + y
         /\ ((x \div y + 1) * y) \div y = x \div y + 1
OBVIOUS

LEMMA CountBound ==
  ASSUME ClusterInv, TypeInv, CountSector
  PROVE  /\ Cardinality(CountedHere) \in Nat /\ NextSector \in Nat
         /\ call.ncl + Cardinality(CountedHere) \in 0 .. NextSector
         /\ call.ncl + Cardinality(CountedHere) \in 0 .. N
         /\ NextSector >= 2
<1> DEFINE base == (call.clst \div PerSector) * PerSector
           top == IF NextSector <= N THEN NextSector - 1 ELSE N - 1
<1>1. /\ call \in CallType /\ call.clst \in Clusters /\ call.ncl <= base /\ win = FatSec(call.clst)
  BY DEF ClusterInv, CallInv, TypeInv, Counting, CountSector, InWindow, Target, At
<1>2. call.clst \in Nat /\ PerSector \in Nat \ {0} /\ call.ncl \in Nat /\ call.clst >= 2 /\ call.clst < N
  BY <1>1, Bounds, VolumeAssumption DEF VolumeAssumption, CallType, Clusters
<1>3. /\ base \in Nat /\ NextSector \in Nat /\ base <= call.clst /\ call.clst < NextSector
      /\ NextSector = base + PerSector
  <2>1. PICK x \in Nat : x = call.clst
    BY <1>2
  <2>2. /\ x \div PerSector \in Nat /\ (x \div PerSector) * PerSector \in Nat
        /\ (x \div PerSector) * PerSector <= x /\ x < (x \div PerSector + 1) * PerSector
        /\ (x \div PerSector + 1) * PerSector = (x \div PerSector) * PerSector + PerSector
    BY <1>2, Division
  <2> QED
    BY <1>2, <2>1, <2>2 DEF NextSector
<1>4. CountedHere \subseteq base .. top
  <2>1. SUFFICES ASSUME NEW c \in Clusters, FatSec(c) = FatSec(call.clst)
                 PROVE  c \in base .. top
    BY <1>1 DEF CountedHere, FreeClusters
  <2>2. c \div PerSector = call.clst \div PerSector /\ c \in Nat /\ c < N
    BY <2>1, Bounds DEF FatSec, Clusters
  <2>3. (c \div PerSector) * PerSector <= c /\ c < (c \div PerSector + 1) * PerSector
    BY <1>2, <2>2, Division
  <2>4. base <= c /\ c < NextSector
    BY <2>2, <2>3 DEF NextSector
  <2> HIDE DEF base
  <2> QED
    BY <1>2, <1>3, <2>2, <2>4, Bounds
<1>5. top \in Nat /\ base <= top
  BY <1>2, <1>3, Bounds
<1> HIDE DEF base, top
<1>6. IsFiniteSet(base .. top) /\ Cardinality(base .. top) = top - base + 1
  <2>1. base \in Int /\ top \in Int /\ ~(base > top)
    BY <1>3, <1>5
  <2> QED
    BY <2>1, FS_Interval
<1>7. IsFiniteSet(CountedHere) /\ Cardinality(CountedHere) <= top - base + 1
  <2>1. IsFiniteSet(CountedHere) /\ Cardinality(CountedHere) <= Cardinality(base .. top)
    BY <1>4, <1>6, FS_Subset
  <2> QED
    BY <1>6, <2>1
<1>8. Cardinality(CountedHere) \in Nat
  BY <1>7, FS_CardinalityType
<1>9. top <= N - 1 /\ top <= NextSector - 1
  BY <1>3, Bounds DEF top
<1> QED
  BY <1>1, <1>2, <1>3, <1>5, <1>7, <1>8, <1>9, Bounds

LEMMA MinusTyped ==
  ASSUME NEW x \in 0 .. N, NEW y \in Nat
  PROVE  Minus(x, y) \in 0 .. N
BY Bounds DEF Minus, Unknown

LEMMA MarkTyped == ASSUME TypeInv PROVE Mark \in {"off", "clean", "set"}
BY DEF Mark

(* The window.                                                             *)
LEMMA WindowTyped ==
  ASSUME ClusterInv, TypeInv, [Next]_vars
  PROVE  win' \in Sectors /\ dirty' \in BOOLEAN
<1>1. NoSec \in Sectors /\ \A c \in Clusters : DirSec(c) \in Sectors
  BY DEF Sectors
<1>2. CASE Still \/ Settling
  BY <1>2 DEF Still, Settling, window, TypeInv, InfoTyped
<1>3. CASE Syncing \/ Rereading
  BY <1>3 DEF Syncing, Rereading, Fresh, TypeInv, InfoTyped
<1>4. CASE Putting
  BY <1>4 DEF Putting, TakeCluster, LinkCluster, Alloc, PutFat, TypeInv, InfoTyped
<1>5. CASE Entering
  BY <1>5 DEF Entering, DirRegister, CloseEntry, DirRemove, PutEntry, TypeInv, InfoTyped
<1>6. CASE Zeroing
  <2>1. call.ncl \in Clusters
    BY <1>6 DEF Zeroing, DirZero, DirZeroFails, ZeroWith, ClusterInv, CallInv, Stretching, At
  <2> QED
    BY <1>1, <1>6, <2>1 DEF Zeroing, DirZero, DirZeroFails, ZeroWith
<1>7. CASE PowerLoss
  BY <1>1, <1>7 DEF PowerLoss, Restart, Fresh
<1> QED
  BY <1>2, <1>3, <1>4, <1>5, <1>6, <1>7, Kinds

(* FSInfo on the disk.                                                     *)
DiskInfo == dinfo \in Infos /\ vinfo \subseteq Infos

LEMMA DiskInfoTyped ==
  ASSUME TypeInv, [Next]_vars
  PROVE  DiskInfo'
<1> USE DEF TypeInv, InfoTyped, DiskInfo
<1>1. CASE UNCHANGED <<dinfo, vinfo>>
  BY <1>1
<1>2. CASE UNCHANGED vars \/ Calls
  BY <1>2, CallKinds DEF vars, Still, disk, versions
<1>3. CASE SyncWindow
  BY <1>3 DEF SyncWindow, WriteBack, disk, versions
<1>4. CASE Works
  <2>1. CASE MountVolume \/ FollowPath \/ DirFind \/ DirFindNot \/ DirNext \/ DirRegister \/ DirFull
              \/ DirStretch \/ TakeCluster \/ ProbeHint \/ ChainNext \/ LinkCluster
    BY <2>1 DEF MountVolume, MountWith, FollowPath, DirFind, DirFindNot, DirNext, DirRegister, DirFull,
         DirStretch, TakeCluster, ProbeHint, ChainNext, LinkCluster, InMemory, disk, versions
  <2>2. CASE DirZero \/ ExpandStart \/ Search \/ Alloc \/ AllocPastEnd \/ CloseEntry \/ DirRemove \/ CountSector
    BY <2>2 DEF DirZero, ZeroWith, ExpandStart, Search, Alloc, AllocPastEnd, CloseEntry, DirRemove,
         CountSector, InMemory, disk, versions
  <2>3. CASE WriteInfo
    <3>1. [there |-> TRUE, free |-> free, next |-> last] \in Infos
      BY DEF Infos
    <3> QED
      BY <2>3, <3>1 DEF WriteInfo, InfoWith
  <2>4. CASE SyncFs
    BY <2>4 DEF SyncFs, Settle, disk
  <2> QED
    BY <1>3, <1>4, <2>1, <2>2, <2>3, <2>4 DEF Works, MoveWindow, DirClear, Flush
<1>5. CASE Fails
  <2>1. CASE WriteFails \/ FlushFails \/ SyncFsFails \/ MountNoInfo \/ MountFails
    BY <2>1 DEF WriteFails, FlushFails, SyncFsFails, MountNoInfo, MountFails, MountWith, disk, versions
  <2>2. CASE DirZeroFails \/ WriteInfoFails
    BY <2>2 DEF DirZeroFails, ZeroWith, WriteInfoFails, InfoWith
  <2> QED
    BY <1>3, <1>5, <2>1, <2>2 DEF Fails, ReadFails
<1>6. CASE Kill \/ PowerLoss
  BY <1>6 DEF Kill, PowerLoss, disk, versions
<1> QED
  BY <1>2, <1>4, <1>5, <1>6 DEF Next

(* What the library knows of the free clusters.                            *)
Known == free \in 0 .. N /\ last \in 0 .. N /\ fsi \in {"off", "clean", "set"}

LEMMA PartKept ==
  ASSUME ClusterInv, TypeInv, KeepPart
  PROVE  Known'
<1>1. CASE At("count")
  <2>1. /\ call.clst \in Clusters /\ call.ncl \in Nat
        /\ call.ncl <= (call.clst \div PerSector) * PerSector
    BY <1>1 DEF ClusterInv, CallInv, CallType, TypeInv, Counting
  <2>2. call.clst \in Nat /\ call.clst < N /\ PerSector \in Nat \ {0}
    BY <2>1, Bounds, VolumeAssumption DEF VolumeAssumption, Clusters
  <2>3. (call.clst \div PerSector) * PerSector \in Nat /\ (call.clst \div PerSector) * PerSector <= call.clst
    BY <2>2, Division
  <2>4. call.ncl \in 0 .. N
    BY <2>1, <2>2, <2>3, Bounds
  <2> QED
    BY <1>1, <2>4, MarkTyped DEF KeepPart, Known, TypeInv, InfoTyped
<1>2. CASE ~At("count")
  BY <1>2 DEF KeepPart, info, Known, TypeInv, InfoTyped
<1> QED
  BY <1>1, <1>2

LEMMA KnownTyped ==
  ASSUME ClusterInv, TypeInv, [Next]_vars
  PROVE  Known'
<1>1. CASE UNCHANGED info
  BY <1>1 DEF info, Known, TypeInv, InfoTyped
<1>2. Unknown \in 0 .. N
  BY Bounds DEF Unknown
<1>3. CASE UNCHANGED vars \/ Calls
  BY <1>1, <1>3 DEF vars, Calls, FatMount, FatUmount, FatGetFreeSpace, FatFileExists, FatFileCreate, Begin
<1>4. ASSUME NEW readable, MountWith(readable)
      PROVE  Known'
  BY <1>2, <1>4 DEF MountWith, Known, TypeInv, InfoTyped, Infos
<1>5. CASE Works
  <2>1. CASE MoveWindow \/ FollowPath \/ DirFind \/ DirFindNot \/ DirNext \/ DirRegister \/ DirFull
              \/ DirStretch \/ TakeCluster \/ ProbeHint \/ ChainNext \/ DirClear \/ DirZero
    BY <1>1, <2>1 DEF MoveWindow, FollowPath, DirFind, DirFindNot, DirNext, DirRegister, DirFull,
         DirStretch, TakeCluster, ProbeHint, ChainNext, DirClear, DirZero, ZeroWith, InMemory
  <2>2. CASE ExpandStart \/ Search \/ AllocPastEnd \/ CloseEntry \/ DirRemove \/ Flush \/ SyncFs
    BY <1>1, <2>2 DEF ExpandStart, Search, AllocPastEnd, CloseEntry, DirRemove, Flush, SyncFs, InMemory
  <2>3. CASE LinkCluster
    <3>1. call.ncl \in 0 .. N /\ 1 \in Nat
      BY <2>3, Bounds DEF LinkCluster, ClusterInv, CallInv, Stretching, Clusters, At
    <3>2. Minus(free, 1) \in 0 .. N
      BY <3>1, MinusTyped DEF TypeInv, InfoTyped
    <3> QED
      BY <2>3, <3>1, <3>2, MarkTyped DEF LinkCluster, Known, TypeInv, InfoTyped
  <2>4. CASE Alloc
    <3>1. call.clst \in 0 .. N /\ call.len \in Nat
      BY <2>4, Bounds DEF Alloc, ClusterInv, CallInv, CallType
    <3>2. Minus(free, call.len) \in 0 .. N
      BY <3>1, MinusTyped DEF TypeInv, InfoTyped
    <3> QED
      BY <2>4, <3>1, <3>2, MarkTyped DEF Alloc, info, Known, TypeInv, InfoTyped
  <2>5. CASE WriteInfo
    BY <2>5 DEF WriteInfo, InfoWith, Known, TypeInv, InfoTyped
  <2>6. CASE CountSector
    <3>1. call.ncl + Cardinality(CountedHere) \in 0 .. N
      BY <2>6, CountBound
    <3> QED
      BY <2>6, <3>1, MarkTyped DEF CountSector, CountedHere, info, Known, TypeInv, InfoTyped
  <2> QED
    BY <1>4, <1>5, <2>1, <2>2, <2>3, <2>4, <2>5, <2>6 DEF Works, MountVolume
<1>6. CASE Fails
  BY <1>1, <1>4, <1>6, PartKept DEF Fails, WriteFails, ReadFails, MountNoInfo, MountFails, DirZeroFails,
     ZeroWith, FlushFails, WriteInfoFails, InfoWith, SyncFsFails, Known, TypeInv, InfoTyped
<1>7. CASE Kill \/ PowerLoss
  BY <1>2, <1>7 DEF Kill, PowerLoss, Restart, Known
<1> QED
  BY <1>3, <1>5, <1>6, <1>7 DEF Next

LEMMA VolTyped ==
  ASSUME TypeInv, [Next]_vars
  PROVE  vol' \in {"none", "registered", "mounted"}
<1>1. CASE UNCHANGED vol
  BY <1>1 DEF TypeInv, InfoTyped
<1>2. CASE UNCHANGED vars \/ Calls
  BY <1>1, <1>2 DEF vars, Calls, FatMount, FatUmount, FatGetFreeSpace, FatFileExists, FatFileCreate, Begin
<1>3. CASE Works
  <2>1. CASE MoveWindow \/ FollowPath \/ DirFind \/ DirFindNot \/ DirNext \/ DirRegister \/ DirFull
              \/ DirStretch \/ TakeCluster \/ ProbeHint \/ ChainNext \/ DirClear \/ DirZero
    BY <1>1, <2>1 DEF MoveWindow, FollowPath, DirFind, DirFindNot, DirNext, DirRegister, DirFull,
         DirStretch, TakeCluster, ProbeHint, ChainNext, DirClear, DirZero, ZeroWith, InMemory
  <2>2. CASE ExpandStart \/ Search \/ AllocPastEnd \/ CloseEntry \/ DirRemove \/ Flush \/ SyncFs
              \/ LinkCluster \/ Alloc \/ WriteInfo \/ CountSector
    BY <1>1, <2>2 DEF ExpandStart, Search, AllocPastEnd, CloseEntry, DirRemove, Flush, SyncFs,
         LinkCluster, Alloc, WriteInfo, InfoWith, CountSector, InMemory
  <2> QED
    BY <1>3, <2>1, <2>2 DEF Works, MountVolume, MountWith
<1>4. CASE Fails
  BY <1>1, <1>4 DEF Fails, WriteFails, ReadFails, MountNoInfo, MountWith, MountFails, DirZeroFails,
     ZeroWith, FlushFails, WriteInfoFails, InfoWith, SyncFsFails
<1>5. CASE Kill \/ PowerLoss
  BY <1>5 DEF Kill, PowerLoss, Restart
<1> QED
  BY <1>2, <1>3, <1>4, <1>5 DEF Next

-----------------------------------------------------------------------------
(* The locals of the call.                                                 *)
LEMMA GoFields ==
  ASSUME call \in CallType, NEW pc, call' = Go(pc)
  PROVE  /\ call'.pc = pc /\ call'.goal = call.goal /\ call'.name = call.name /\ call'.len = call.len
         /\ call'.res = call.res /\ call'.dcl = call.dcl /\ call'.slot = call.slot
         /\ call'.start = call.start /\ call'.clst = call.clst /\ call'.scl = call.scl
         /\ call'.ncl = call.ncl /\ call'.left = call.left
BY DEF Go, CallType

(* The run of free clusters after a turn of the search, and where it goes. *)
RunStart == IF fat[call.clst] = 0 THEN call.scl ELSE Next1(call.clst)
RunLength == IF fat[call.clst] = 0 THEN call.ncl + 1 ELSE 0

LEMMA SearchGoes ==
  ASSUME Search
  PROVE  /\ call.pc = "search"
         /\ \/ RunLength = call.len /\ call' = [Go("alloc") EXCEPT !.clst = RunStart, !.left = call.len]
            \/ call' = [Go("close") EXCEPT !.res = "nospace"]
            \/ call' = [call EXCEPT !.clst = Next1(call.clst), !.scl = RunStart, !.ncl = RunLength]
BY DEF Search, Continue, RunStart, RunLength, At

(* A call that is not there has nothing to keep.                           *)
LEMMA PlainCounts ==
  ASSUME call'.pc \notin {"count", "alloc", "close"}
  PROVE  Counting' /\ Fitting'
BY DEF Counting, Fitting, At

LEMMA FailedCounts ==
  ASSUME call \in CallType, Fail
  PROVE  Counting' /\ Fitting'
<1>1. CASE call' = [call EXCEPT !.pc = "close", !.res = "nospace"]
  BY <1>1 DEF CallType, Counting, Fitting, At
<1>2. CASE call' = [call EXCEPT !.pc = "find", !.goal = "unlink", !.dcl = Root]
  BY <1>2, PlainCounts DEF CallType
<1>3. CASE call' = NoCall
  BY <1>3, PlainCounts DEF NoCall, Idle
<1> QED
  BY <1>1, <1>2, <1>3 DEF Fail, Continue, Return

LEMMA CountsStep ==
  ASSUME ClusterInv, TypeInv, [Next]_vars
  PROVE  Counting' /\ Fitting'
<1>1. call \in CallType
  BY DEF ClusterInv, CallInv
<1>2. CASE UNCHANGED call
  BY <1>2 DEF TypeInv, Counting, Fitting, At
<1>3. CASE call' = NoCall
  BY <1>3, PlainCounts DEF NoCall, Idle
<1>4. CASE Calls
  <2>1. ASSUME NEW goal, NEW n, NEW l, Begin(goal, n, l)
        PROVE  Counting' /\ Fitting'
    <3>1. CASE vol = "none"
      BY <1>3, <2>1, <3>1 DEF Begin, Return
    <3>2. CASE vol # "none"
      <4>1. PICK pc \in {"follow", "mount"} :
              call' = [NoCall EXCEPT !.pc = pc, !.goal = goal, !.name = n, !.len = l]
        BY <2>1, <3>2 DEF Begin
      <4>2. call'.pc = pc
        BY <4>1 DEF NoCall
      <4> QED
        BY <4>2, PlainCounts
    <3> QED
      BY <3>1, <3>2
  <2> QED
    BY <1>2, <1>4, <2>1 DEF Calls, FatMount, FatUmount, FatGetFreeSpace, FatFileExists, FatFileCreate
<1>5. CASE Works
  <2>1. CASE FollowPath
    <3>1. CASE call' = [Go("count") EXCEPT !.clst = 2, !.ncl = 0]
      <4>1. call'.pc = "count" /\ call'.clst = 2 /\ call'.ncl = 0
        BY <1>1, <3>1 DEF Go, CallType
      <4>2. (2 \div PerSector) * PerSector \in Nat /\ 2 \in Clusters
        BY Bounds, VolumeAssumption, Division DEF VolumeAssumption
      <4>3. Counting'
        BY <4>1, <4>2 DEF Counting, At
      <4> QED
        BY <4>1, <4>3 DEF Fitting, At
    <3>2. CASE call' = [Go("find") EXCEPT !.dcl = Root]
      BY <1>1, <3>2, PlainCounts DEF Go, CallType
    <3> QED
      BY <1>3, <2>1, <3>1, <3>2 DEF FollowPath, ReturnFree, Return, Continue
  <2>2. CASE MoveWindow
    BY <1>2, <2>2 DEF MoveWindow
  <2>3. CASE DirFind \/ DirFindNot \/ DirNext
    <3>1. \/ call' = NoCall
          \/ \E pc \in {"findnext", "find", "register", "remove"} : call'.pc = pc
      BY <1>1, <2>3 DEF DirFind, DirFindNot, DirNext, NotFound, Return, Continue, Go, CallType
    <3> QED
      BY <1>3, <3>1, PlainCounts
  <2>4. CASE DirRegister \/ DirFull \/ DirStretch \/ TakeCluster \/ ProbeHint \/ ChainNext
              \/ LinkCluster \/ DirClear \/ DirZero
    <3>1. \/ call' = NoCall
          \/ \E pc \in {"expand", "regnext", "register", "probe", "link", "chain", "clear", "zero"} : call'.pc = pc
      BY <1>1, <2>4 DEF DirRegister, DirFull, DirStretch, TakeCluster, ProbeHint, ChainNext,
         LinkCluster, DirClear, DirZero, Return, Continue, Go, CallType, At
    <3> QED
      BY <1>3, <3>1, PlainCounts
  <2>5. CASE ExpandStart
    <3>1. CASE call' = [Go("close") EXCEPT !.res = "nospace"]
      BY <1>1, <3>1 DEF Go, CallType, Counting, Fitting, At
    <3>2. CASE \E c : call' = [Go("search") EXCEPT !.start = c, !.clst = c, !.scl = c, !.ncl = 0]
      BY <1>1, <3>2, PlainCounts DEF Go, CallType
    <3> QED
      BY <2>5, <3>1, <3>2 DEF ExpandStart, Continue
  <2>6. CASE Search
    <3>1. CASE call' = [Go("close") EXCEPT !.res = "nospace"]
      BY <1>1, <3>1 DEF Go, CallType, Counting, Fitting, At
    <3>2. CASE \E c, s, n : call' = [call EXCEPT !.clst = c, !.scl = s, !.ncl = n]
      <4>1. call'.pc = "search"
        BY <1>1, <2>6, <3>2 DEF CallType, Search, At
      <4> QED
        BY <4>1, PlainCounts
    <3>3. CASE /\ fat[call.clst] = 0
               /\ call' = [Go("alloc") EXCEPT !.clst = call.scl, !.left = call.len]
      <4>1. /\ call'.pc = "alloc" /\ call'.clst = call.scl /\ call'.left = call.len
            /\ call'.scl = call.scl /\ call'.len = call.len
        BY <1>1, <3>3 DEF Go, CallType
      <4>2. call.len # 0 /\ call.scl >= 2
        BY <2>6 DEF Search, ClusterInv, CallInv, Searching
      <4> QED
        BY <4>1, <4>2 DEF Counting, Fitting, At
    <3>4. CASE call.len = 0
      BY <2>6, <3>4 DEF Search, ClusterInv, CallInv, Searching
    <3>5. CASE RunLength = call.len /\ call' = [Go("alloc") EXCEPT !.clst = RunStart, !.left = call.len]
      BY <3>3, <3>4, <3>5 DEF RunStart, RunLength
    <3> QED
      BY <2>6, <3>1, <3>2, <3>5, SearchGoes
  <2>7. CASE Alloc
    <3>1. /\ call.clst + call.left = call.scl + call.len /\ call.len # 0 /\ call.scl >= 2 /\ call.clst < N
          /\ call.clst \in Nat /\ call.left \in Nat /\ call.scl \in Nat /\ call.len \in Nat
      BY <1>1, <2>7 DEF Alloc, TypeInv, Fitting, CallType
    <3>2. CASE call.left = 1 /\ call' = Go("close")
      BY <1>1, <3>1, <3>2, Bounds, GoFields DEF Counting, Fitting, At
    <3>3. CASE call.left # 1 /\ call' = [call EXCEPT !.clst = @ + 1, !.left = @ - 1]
      <4>1. /\ call'.pc = "alloc" /\ call'.clst = call.clst + 1 /\ call'.left = call.left - 1
            /\ call'.scl = call.scl /\ call'.len = call.len
        BY <1>1, <2>7, <3>3 DEF Alloc, At, CallType
      <4> QED
        BY <3>1, <4>1 DEF Counting, Fitting, At
    <3> QED
      BY <2>7, <3>2, <3>3 DEF Alloc, Continue
  <2>8. CASE AllocPastEnd
    BY <1>1, <2>8, FailedCounts DEF AllocPastEnd
  <2>9. CASE CloseEntry \/ DirRemove \/ Flush \/ WriteInfo \/ MountVolume
    <3>1. call'.pc \in {"flush", "info", "syncfs", "follow"}
      BY <1>1, <2>9 DEF CloseEntry, DirRemove, Flush, WriteInfo, InfoWith, MountVolume, MountWith,
         Continue, Go, CallType
    <3> QED
      BY <3>1, PlainCounts
  <2>10. CASE SyncFs
    <3>1. CASE call' = [call EXCEPT !.pc = "find", !.goal = "unlink", !.dcl = Root]
      BY <1>1, <3>1, PlainCounts DEF CallType
    <3> QED
      BY <1>3, <2>10, <3>1 DEF SyncFs, AfterSync, Continue, Return
  <2>11. CASE CountSector
    <3>1. CASE /\ NextSector < N
               /\ call' = [call EXCEPT !.clst = NextSector, !.ncl = call.ncl + Cardinality(CountedHere)]
      <4>1. /\ call'.pc = "count" /\ call'.clst = NextSector
            /\ call'.ncl = call.ncl + Cardinality(CountedHere)
        BY <1>1, <2>11, <3>1 DEF CallType, CountSector, At
      <4>2. /\ NextSector \in Nat /\ NextSector >= 2
            /\ call.ncl + Cardinality(CountedHere) \in 0 .. NextSector
        BY <2>11, CountBound
      <4>3. (NextSector \div PerSector) * PerSector = NextSector
        <5>1. call.clst \in Nat /\ PerSector \in Nat \ {0}
          BY <1>1, VolumeAssumption DEF CallType, VolumeAssumption
        <5> QED
          BY <5>1, Division DEF NextSector
      <4>4. NextSector \in Clusters
        BY <3>1, <4>2, Bounds DEF Clusters
      <4>5. Counting'
        BY <4>1, <4>2, <4>3, <4>4 DEF Counting, At
      <4> QED
        BY <4>1, <4>5 DEF Fitting, At
    <3>2. CASE NextSector >= N
      BY <1>3, <2>11, <3>2 DEF CountSector, NextSector, ReturnFree
    <3>3. NextSector \in Nat
      BY <2>11, CountBound
    <3> QED
      BY <2>11, <3>1, <3>2, <3>3, Bounds DEF CountSector, CountedHere, NextSector, Continue
  <2> QED
    BY <1>5, <2>1, <2>2, <2>3, <2>4, <2>5, <2>6, <2>7, <2>8, <2>9, <2>10, <2>11 DEF Works
<1>6. CASE Fails
  <2>1. CASE WriteFails \/ ReadFails \/ MountFails \/ DirZeroFails \/ FlushFails
    BY <1>1, <2>1, FailedCounts DEF WriteFails, ReadFails, MountFails, DirZeroFails, FlushFails
  <2>2. CASE MountNoInfo \/ WriteInfoFails
    <3>1. call'.pc \in {"syncfs", "follow"}
      BY <1>1, <2>2 DEF WriteInfoFails, InfoWith, MountNoInfo, MountWith, Continue, Go, CallType
    <3> QED
      BY <3>1, PlainCounts
  <2>3. CASE SyncFsFails
    <3>1. CASE call' = [call EXCEPT !.pc = "find", !.goal = "unlink", !.dcl = Root]
      BY <1>1, <3>1, PlainCounts DEF CallType
    <3> QED
      BY <1>3, <2>3, <3>1 DEF SyncFsFails, AfterSync, Continue, Return
  <2> QED
    BY <1>6, <2>1, <2>2, <2>3 DEF Fails
<1>7. CASE Kill \/ PowerLoss
  BY <1>3, <1>7 DEF Kill, PowerLoss, Restart
<1>8. CASE UNCHANGED vars
  BY <1>2, <1>8 DEF vars
<1> QED
  BY <1>4, <1>5, <1>6, <1>7, <1>8 DEF Next

LEMMA TypeStep ==
  ASSUME ClusterInv, TypeInv, [Next]_vars
  PROVE  TypeInv'
BY FatTypedStep, DirTypedStep, WindowTyped, DiskInfoTyped, KnownTyped, VolTyped, CountsStep
   DEF TypeInv, InfoTyped, DiskInfo, Known

LEMMA TypeInit == Init => TypeInv
<1> SUFFICES ASSUME Init PROVE TypeInv
  OBVIOUS
<1>1. PICK v \in Volumes : /\ dfat = v.fat /\ dinfo = v.info
                           /\ ddir = [v.old EXCEPT ![Root] = v.dir]
  BY DEF Init
<1>2. /\ v.fat \in [Clusters -> 0 .. N + 1] /\ v.dir \in Sector /\ v.info \in Infos
      /\ v.old \in [Clusters -> Sector]
  BY VolumeAssumption DEF VolumeAssumption, Sound, Sector, Infos
<1>3. dfat \in [Clusters -> 0 .. N + 1] /\ ddir \in [Clusters -> Sector]
  BY <1>1, <1>2
<1>4. FatTyped
  BY <1>3, Bounds DEF Init, FatTyped
<1>5. DirTyped
  BY <1>3 DEF Init, DirTyped
<1>6. InfoTyped
  <2>1. /\ vinfo = {dinfo} /\ win = NoSec /\ dirty = FALSE /\ free = Unknown /\ last = Unknown
        /\ fsi = "off" /\ vol = "none"
    BY DEF Init
  <2>2. Unknown \in 0 .. N /\ NoSec \in Sectors
    BY Bounds DEF Unknown, Sectors
  <2> QED
    BY <1>1, <1>2, <2>1, <2>2 DEF InfoTyped
<1>7. Counting /\ Fitting
  BY DEF Init, NoCall, Idle, Counting, Fitting, At
<1> QED
  BY <1>4, <1>5, <1>6, <1>7 DEF TypeInv

-----------------------------------------------------------------------------
(* Part 2: the window and the directory.  A cleared sector that could not  *)
(* be written is in the window and not on the disk: the next look at the   *)
(* disk may change a sector of the directory that holds no file but what   *)
(* was left there.  Nothing but the start of a call comes in between.      *)
Blanked(g) == \A s \in 1 .. Slots : ~Own(g[s])
Similar(d, g) == \A c \in Clusters : g[c] = d[c] \/ (c # Root /\ Blanked(d[c]) /\ Blanked(g[c]))
Unlinked(f, d) == \A c \in Clusters : c \in Linked(f) \/ Blanked(d[c])

Started ==
  \/ call.pc \in {Idle, "mount", "follow", "count"}
  \/ call.pc = "find" /\ call.dcl = Root /\ call.goal # "unlink"
DirWindow ==
  /\ \A c \in Clusters : DirSec(c) # win => dir[c] = ddir[c]
  /\ ~dirty => Similar(dir, ddir) /\ (dir = ddir \/ Started)
  /\ call.pc \in {"zero", "info", "syncfs"} => ~dirty
NewCluster ==
  call.pc \in {"link", "clear", "zero"} =>
    call.ncl # Root /\ Blanked(dir[call.ncl]) /\ Blanked(ddir[call.ncl])
WindowInv == DirWindow /\ NewCluster /\ Unlinked(fat, dir) /\ Unlinked(dfat, ddir)

LEMMA SimilarSelf == ASSUME NEW d PROVE Similar(d, d)
BY DEF Similar

LEMMA SimilarUnlinked ==
  ASSUME NEW f, NEW d, NEW g, Unlinked(f, d), Similar(d, g)
  PROVE  Unlinked(f, g)
BY DEF Unlinked, Similar

LEMMA SectorKinds ==
  ASSUME NEW c \in Clusters, NEW b \in Clusters
  PROVE  /\ FatSec(c) # DirSec(b) /\ InfoSec # DirSec(b) /\ NoSec # DirSec(b)
         /\ DirSec(c) = DirSec(b) => c = b
BY DEF FatSec, DirSec, InfoSec, NoSec

(* Where the pcs that follow a write come from.                            *)
LEMMA LateCalls ==
  ASSUME call \in CallType, [Next]_vars, call'.pc \in {"link", "clear", "zero", "info", "syncfs"}
  PROVE  \/ UNCHANGED vars
         \/ MoveWindow /\ UNCHANGED call
         \/ TakeCluster /\ call' = Go("link")
         \/ LinkCluster /\ call' = Go("clear")
         \/ DirClear /\ call' = Go("zero")
         \/ Flush /\ \E pc \in {"info", "syncfs"} : call' = Go(pc)
         \/ (WriteInfo \/ WriteInfoFails) /\ call' = Go("syncfs")
<1>1. CASE call' = NoCall
  BY <1>1 DEF NoCall, Idle
<1>2. CASE Fail
  <2>1. CASE call' = [call EXCEPT !.pc = "close", !.res = "nospace"]
    BY <2>1 DEF CallType
  <2>2. CASE call' = [call EXCEPT !.pc = "find", !.goal = "unlink", !.dcl = Root]
    BY <2>2 DEF CallType
  <2> QED
    BY <1>1, <1>2, <2>1, <2>2 DEF Fail, Continue, Return
<1>3. CASE Calls
  <2>1. ASSUME NEW goal, NEW n, NEW l, Begin(goal, n, l)
        PROVE  FALSE
    <3>1. CASE vol = "none"
      BY <1>1, <2>1, <3>1 DEF Begin, Return, NoCall, Idle
    <3>2. CASE vol # "none"
      <4>1. PICK pc \in {"follow", "mount"} :
              call' = [NoCall EXCEPT !.pc = pc, !.goal = goal, !.name = n, !.len = l]
        BY <2>1, <3>2 DEF Begin
      <4> QED
        BY <4>1 DEF NoCall
    <3> QED
      BY <3>1, <3>2
  <2>2. CASE FatMount \/ FatUmount
    BY <2>2 DEF FatMount, FatUmount, At, Idle
  <2> QED
    BY <1>3, <2>1, <2>2 DEF Calls, FatGetFreeSpace, FatFileExists, FatFileCreate
<1>4. CASE Works
  <2>1. CASE MoveWindow \/ TakeCluster \/ LinkCluster \/ DirClear \/ Flush \/ WriteInfo
    BY <2>1 DEF MoveWindow, TakeCluster, LinkCluster, DirClear, Flush, WriteInfo, InfoWith, Continue
  <2>2. CASE FollowPath \/ DirFind \/ DirFindNot \/ DirNext
    <3>1. call' = NoCall \/ call'.pc \in {"count", "find", "findnext", "register", "remove"}
      BY <2>2 DEF FollowPath, DirFind, DirFindNot, DirNext, NotFound, Return, ReturnFree, Continue, Go,
         CallType
    <3> QED
      BY <1>1, <3>1
  <2>3. CASE DirRegister \/ DirFull \/ DirStretch \/ ProbeHint \/ ChainNext \/ DirZero \/ MountVolume
    <3>1. call' = NoCall \/ call'.pc \in {"expand", "regnext", "register", "probe", "chain", "follow"}
      BY <2>3 DEF DirRegister, DirFull, DirStretch, ProbeHint, ChainNext, DirZero, MountVolume, MountWith,
         Return, Continue, Go, CallType, At
    <3> QED
      BY <1>1, <3>1
  <2>4. CASE ExpandStart \/ Search \/ Alloc \/ CloseEntry \/ DirRemove
    <3>1. call'.pc \in {"close", "search", "alloc", "flush"}
      <4>1. CASE ExpandStart \/ CloseEntry \/ DirRemove
        BY <4>1 DEF ExpandStart, CloseEntry, DirRemove, Continue, Go, CallType
      <4>2. CASE Search
        BY <4>2, SearchGoes DEF Go, CallType
      <4>3. CASE Alloc
        BY <4>3 DEF Alloc, Continue, Go, CallType, At
      <4> QED
        BY <2>4, <4>1, <4>2, <4>3
    <3> QED
      BY <3>1
  <2>5. CASE SyncFs \/ CountSector
    BY <1>1, <2>5 DEF SyncFs, AfterSync, CountSector, Return, ReturnFree, Continue, CallType, At
  <2> QED
    BY <1>2, <1>4, <2>1, <2>2, <2>3, <2>4, <2>5 DEF Works, AllocPastEnd
<1>5. CASE Fails
  <2>1. CASE MountNoInfo
    BY <2>1 DEF MountNoInfo, MountWith, Continue, Go, CallType
  <2>2. CASE SyncFsFails
    <3>1. call' = NoCall \/ call' = [call EXCEPT !.pc = "find", !.goal = "unlink", !.dcl = Root]
      BY <2>2 DEF SyncFsFails, AfterSync, Return, Continue
    <3> QED
      BY <1>1, <3>1 DEF CallType
  <2> QED
    BY <1>2, <1>5, <2>1, <2>2 DEF Fails, WriteFails, ReadFails, MountFails, DirZeroFails, FlushFails, WriteInfoFails,
       InfoWith, Continue
<1>6. CASE Kill \/ PowerLoss
  BY <1>1, <1>6 DEF Kill, PowerLoss, Restart
<1> QED
  BY <1>3, <1>4, <1>5, <1>6 DEF Next

-----------------------------------------------------------------------------
(* The search for a name n: what it finds in a sector g of the directory,  *)
(* and in the directory d whose FAT is f.                                  *)
Open(g, s) == \A t \in 1 .. s - 1 : g[t].kind # "end"
IsMatch(g, n, s) == Open(g, s) /\ IsFile(g[s]) /\ g[s].name = n
Missing(g, n) == \A s \in 1 .. Slots : ~IsMatch(g, n, s)
Full(g) == \A s \in 1 .. Slots : g[s].kind \notin {"end", "deleted"}
Passed(d, n) == Missing(d[Root], n) /\ Open(d[Root], Slots + 1)
Reached(f, d, n, c) == c = Root \/ (c = f[Root] /\ c \in Clusters /\ Passed(d, n))
FirstMatch(f, d, n, c, s) ==
  Reached(f, d, n, c) /\ IsMatch(d[c], n, s) /\ \A t \in 1 .. s - 1 : ~IsMatch(d[c], n, t)
(* The name is nowhere a search would find it.                             *)
Absent(f, d, n) ==
  /\ Missing(d[Root], n)
  /\ f[Root] \in Clusters /\ Open(d[Root], Slots + 1) => Missing(d[f[Root]], n)

(* A call k that looks for its name: what it has passed, and that what it  *)
(* is going to unlink is the new entry it has left without an area.        *)
EmptyAt(d, c, s) == d[c][s].clust = 0 /\ d[c][s].len = 0
Looking(f, d, k) ==
  /\ k.pc = "find" => Reached(f, d, k.name, k.dcl)
  /\ k.pc = "findnext" => k.dcl = Root /\ Passed(d, k.name)
  /\ k.pc \in {"find", "findnext"} /\ k.goal = "unlink" =>
       \E c \in Clusters : FirstMatch(f, d, k.name, c, k.slot) /\ EmptyAt(d, c, k.slot)
  /\ k.pc = "remove" =>
       k.goal = "unlink" /\ FirstMatch(f, d, k.name, k.dcl, k.slot) /\ EmptyAt(d, k.dcl, k.slot)
  /\ k.pc \in {"mount", "follow"} => k.goal \in {"create", "exists", "free"}
  /\ k.pc \in {"find", "findnext"} => k.goal \in {"create", "exists", "unlink"}

(* A call that enters a new file: the name is absent, the root is full     *)
(* when the directory goes on.                                             *)
Adding(f, d, k) ==
  /\ k.pc \in {"register", "regnext", "probe", "chain", "link", "clear", "zero"} =>
       k.goal = "create" /\ Missing(d[Root], k.name)
  /\ k.pc \in {"register", "regnext"} => Absent(f, d, k.name)
  /\ k.pc \in {"regnext", "probe", "chain", "link", "clear", "zero"} => Full(d[Root])
  /\ k.pc = "register" => k.dcl = Root \/ (k.dcl = f[Root] /\ k.dcl \in Clusters /\ Full(d[Root]))
  /\ k.pc = "link" => f[k.ncl] = EOC
  /\ k.pc \in {"clear", "zero"} => f[Root] = k.ncl

(* A call whose entry is there: empty until it is closed.                  *)
EntryOf(k) == [kind |-> "file", name |-> k.name, clust |-> k.scl, len |-> k.len, old |-> FALSE]
Added(f, d, k) ==
  /\ k.pc \in {"expand", "search", "alloc", "close"} =>
       k.goal = "create" /\ FirstMatch(f, d, k.name, k.dcl, k.slot) /\ d[k.dcl][k.slot] = NewFile(k.name)
  /\ k.pc \in {"flush", "info", "syncfs"} => k.goal \in {"create", "unlink"}
  /\ k.pc \in {"flush", "info", "syncfs"} /\ k.goal = "create" =>
       /\ FirstMatch(f, d, k.name, k.dcl, k.slot)
       /\ d[k.dcl][k.slot] = IF k.res = "ok" THEN EntryOf(k) ELSE NewFile(k.name)

Placed(f, d, k) == Looking(f, d, k) /\ Adding(f, d, k) /\ Added(f, d, k)
PlaceInv == Placed(fat, dir, call)

VolumeInv == ClusterInv /\ TypeInv /\ WindowInv /\ PlaceInv

LEMMA ClearedMissing == ASSUME NEW n PROVE Missing(Cleared, n)
BY DEF Missing, IsMatch, Cleared, Blank, IsFile

LEMMA SimilarRoot ==
  ASSUME NEW d, NEW g, Similar(d, g)
  PROVE  g[Root] = d[Root]
BY Bounds DEF Similar

LEMMA SimilarFirst ==
  ASSUME NEW d, NEW g, Similar(d, g), NEW f, NEW n, NEW c \in Clusters, NEW s \in 1 .. Slots,
         FirstMatch(f, d, n, c, s), Own(d[c][s])
  PROVE  FirstMatch(f, g, n, c, s) /\ g[c] = d[c]
<1>1. g[c] = d[c]
  BY DEF Similar, Blanked
<1>2. g[Root] = d[Root]
  BY SimilarRoot
<1> QED
  BY <1>1, <1>2 DEF FirstMatch, Reached, Passed

(* A call that looks at nothing, one that starts to look for its name, and *)
(* one that has found it absent.                                           *)
LEMMA PlainPlaced ==
  ASSUME NEW f, NEW d, NEW k, k.pc \in {Idle, "mount", "follow", "count"},
         k.pc \in {"mount", "follow"} => k.goal \in {"create", "exists", "free"}
  PROVE  Placed(f, d, k)
BY DEF Placed, Looking, Adding, Added, Idle

(* At the start of a call nothing depends on the directory.                *)
LEMMA StartedPlaced ==
  ASSUME VolumeInv, Started, NEW f, NEW d
  PROVE  Placed(f, d, call)
BY DEF VolumeInv, PlaceInv, Started, Placed, Looking, Adding, Added, Reached, Idle

LEMMA NoCallPlaced == ASSUME NEW f, NEW d PROVE Placed(f, d, NoCall)
BY PlainPlaced DEF NoCall, Idle

LEMMA FindPlaced ==
  ASSUME NEW f, NEW d, NEW k, k.pc = "find", k.goal \in {"create", "exists", "unlink"},
         Reached(f, d, k.name, k.dcl),
         k.goal = "unlink" =>
           \E c \in Clusters : FirstMatch(f, d, k.name, c, k.slot) /\ EmptyAt(d, c, k.slot)
  PROVE  Placed(f, d, k)
BY DEF Placed, Looking, Adding, Added

LEMMA RegisterPlaced ==
  ASSUME NEW f, NEW d, NEW k, k.pc = "register", k.goal = "create", Absent(f, d, k.name),
         k.dcl = Root \/ (k.dcl = f[Root] /\ k.dcl \in Clusters /\ Full(d[Root]))
  PROVE  Placed(f, d, k)
BY DEF Placed, Looking, Adding, Added, Absent

(* A search comes to a slot when it has matched nothing before it.         *)
LEMMA PassesMatch ==
  ASSUME NEW g, NEW n, NEW s \in 1 .. Slots + 1
  PROVE  Passes(g, n, s) <=> Open(g, s) /\ \A t \in 1 .. s - 1 : ~IsMatch(g, n, t)
<1>1. \A t \in 1 .. s - 1 : \A r \in 1 .. t - 1 : r \in 1 .. s - 1
  BY Bounds
<1>2. ASSUME Open(g, s), NEW t \in 1 .. s - 1
      PROVE  Open(g, t)
  BY <1>1, <1>2 DEF Open
<1> QED
  BY <1>2 DEF Passes, Open, IsMatch

LEMMA PassesAll ==
  ASSUME NEW d, NEW n
  PROVE  Passes(d[Root], n, Slots + 1) <=> Passed(d, n)
<1>1. 1 .. (Slots + 1) - 1 = 1 .. Slots /\ Slots + 1 \in 1 .. Slots + 1
  BY Bounds
<1> QED
  BY <1>1, PassesMatch DEF Passed, Missing

LEMMA MatchComes ==
  ASSUME NEW f, NEW d, NEW n, NEW c \in Clusters, NEW s \in 1 .. Slots
  PROVE  FirstMatch(f, d, n, c, s) <=>
           (c = Root \/ c = f[Root]) /\ IsFile(d[c][s]) /\ d[c][s].name = n /\ Comes(d, n, c, s)
<1>1. s \in 1 .. Slots + 1
  BY Bounds
<1> QED
  BY <1>1, PassesMatch, PassesAll DEF FirstMatch, Reached, IsMatch, Comes

(* There is one first match at most.                                       *)
LEMMA FirstUnique ==
  ASSUME NEW f, NEW d, NEW n, NEW b, NEW c, NEW s \in 1 .. Slots, NEW t \in 1 .. Slots,
         FirstMatch(f, d, n, b, s), FirstMatch(f, d, n, c, t)
  PROVE  b = c /\ s = t
<1>1. b = c
  BY DEF FirstMatch, Reached, Passed, Missing
<1>2. IsMatch(d[b], n, s) /\ IsMatch(d[b], n, t)
      /\ (\A r \in 1 .. s - 1 : ~IsMatch(d[b], n, r)) /\ (\A r \in 1 .. t - 1 : ~IsMatch(d[b], n, r))
  BY <1>1 DEF FirstMatch
<1>3. ~(s < t) /\ ~(t < s)
  BY <1>2
<1> QED
  BY <1>1, <1>3

-----------------------------------------------------------------------------
(* What a step does to the window, the disk and the unlinked clusters.     *)
LEMMA SyncedDir ==
  ASSUME TypeInv, WindowInv, SyncWindow
  PROVE  (ddir' = dir \/ (ddir' = ddir /\ ~dirty)) /\ Similar(dir, ddir') /\ (ddir' = dir \/ Started)
<1>1. CASE dirty
  <2>1. ddir' = [c \in Clusters |-> IF DirSec(c) = win THEN dir[c] ELSE ddir[c]]
    BY <1>1 DEF SyncWindow, WriteBack
  <2>2. ddir' = dir
    BY <2>1 DEF TypeInv, DirTyped, WindowInv, DirWindow
  <2> QED
    BY <2>2, SimilarSelf
<1>2. CASE ~dirty
  BY <1>2 DEF SyncWindow, disk, WindowInv, DirWindow
<1> QED
  BY <1>1, <1>2

LEMMA SyncingView ==
  ASSUME VolumeInv, Syncing
  PROVE  /\ dfat' = fat /\ fat' = fat /\ dirty' = FALSE
         /\ Similar(dir, dir') /\ Similar(dir, ddir') /\ Similar(dir', ddir')
         /\ dir' = dir \/ Started
         /\ dir' = ddir' \/ (Started /\ UNCHANGED <<dir, win>>)
         /\ \A c \in Clusters : DirSec(c) # win' => dir'[c] = ddir'[c]
<1>1. dfat' = fat
  BY Synced DEF VolumeInv, ClusterInv, Syncing
<1>2. /\ (ddir' = dir \/ (ddir' = ddir /\ ~dirty)) /\ Similar(dir, ddir')
      /\ ddir' = dir \/ Started
  BY SyncedDir DEF VolumeInv, Syncing
<1>3. CASE UNCHANGED <<fat, dir, win>>
  BY <1>1, <1>2, <1>3, SimilarSelf DEF VolumeInv, WindowInv, DirWindow, Syncing
<1>4. CASE \E s \in Sectors : Fresh(s)
  BY <1>1, <1>2, <1>4, SimilarSelf DEF Fresh
<1> QED
  BY <1>3, <1>4 DEF Syncing

(* The three writes of the FAT: no cluster of the directory is written but *)
(* the last one, which is linked.                                          *)
LEMMA PutLinks ==
  ASSUME VolumeInv, Putting
  PROVE  /\ Linked(fat) \subseteq Linked(fat')
         /\ LinkCluster \/ (fat'[Root] = fat[Root] /\ Linked(fat') = Linked(fat))
         /\ dir' = dir /\ ddir' = ddir /\ dfat' = dfat /\ win' = win /\ dirty' = TRUE
<1>1. /\ dir' = dir /\ ddir' = ddir /\ dfat' = dfat /\ win' = win /\ dirty' = TRUE
  BY DEF Putting, TakeCluster, LinkCluster, Alloc, PutFat, disk
<1>2. call \in CallType /\ fat \in [Clusters -> 0 .. N + 1] /\ fat[Root] \in RootEntries
  BY DEF VolumeInv, ClusterInv, FatInv, Tables, CallInv, TypeInv, FatTyped
<1>3. CASE TakeCluster
  <2>1. fat' = [fat EXCEPT ![call.ncl] = EOC] /\ fat[call.ncl] = 0
    BY <1>3 DEF TakeCluster, PutFat
  <2>2. call.ncl # Root
    BY <1>2, <2>1, Bounds DEF RootEntries
  <2> QED
    BY <1>1, <1>2, <2>1, <2>2, Bounds DEF Linked
<1>4. CASE LinkCluster
  <2>1. fat[Root] = EOC
    BY <1>4 DEF LinkCluster, At, VolumeInv, ClusterInv, CallInv, Stretching
  <2> QED
    BY <1>1, <1>4, <2>1, Bounds DEF Linked
<1>5. CASE Alloc
  <2>1. /\ call.clst \in Clusters /\ fat[call.clst] = 0
    <3>1. /\ call.clst >= 2 /\ call.clst < N /\ call.clst \in Nat /\ call.left \in Nat /\ call.left # 0
          /\ FreeFrom(call.clst, call.clst + call.left)
      BY <1>2, <1>5 DEF Alloc, VolumeInv, ClusterInv, CallInv, Allocating, CallType
    <3>2. call.clst \in Clusters
      BY <3>1, Bounds DEF Clusters
    <3> QED
      BY <3>1, <3>2 DEF FreeFrom
  <2>2. call.clst # Root
    BY <1>2, <2>1, Bounds DEF RootEntries
  <2>3. \E v : fat' = [fat EXCEPT ![call.clst] = v]
    BY <1>5 DEF Alloc, PutFat
  <2> QED
    BY <1>1, <1>2, <2>1, <2>2, <2>3, Bounds DEF Linked
<1> QED
  BY <1>3, <1>4, <1>5 DEF Putting

(* An entry is written in a cluster of the directory.                      *)
LEMMA EnteredWhere ==
  ASSUME VolumeInv, Entering
  PROVE  /\ call.dcl \in Clusters /\ call.dcl \in Linked(fat) /\ win = DirSec(call.dcl)
         /\ fat' = fat /\ dfat' = dfat /\ ddir' = ddir /\ win' = win /\ dirty' = TRUE
         /\ \E s \in 1 .. Slots, e \in Entries : dir' = [dir EXCEPT ![call.dcl][s] = e]
<1>1. call.dcl \in Clusters /\ call.slot \in 1 .. Slots
  BY DEF VolumeInv, ClusterInv, CallInv, CallType
<1>2. PICK s \in 1 .. Slots, e \in Entries : PutEntry(s, e)
  BY NewEntryTyped DEF VolumeInv, Entering
<1>3. win = DirSec(call.dcl)
  BY DEF Entering, DirRegister, CloseEntry, DirRemove, InWindow, Target, At
<1>4. call.dcl = Root \/ call.dcl = fat[Root]
  BY DEF Entering, DirRegister, CloseEntry, DirRemove, At, VolumeInv, PlaceInv, Placed, Looking, Adding,
     Added, FirstMatch, Reached
<1> QED
  BY <1>1, <1>2, <1>3, <1>4 DEF PutEntry, Linked, Entering, disk

LEMMA ZeroWhere ==
  ASSUME VolumeInv, Zeroing
  PROVE  /\ call.ncl \in Clusters /\ call.ncl # Root /\ fat[Root] = call.ncl
         /\ Blanked(ddir[call.ncl]) /\ Blanked(Cleared)
         /\ dfat = fat /\ dir = ddir
         /\ win' = DirSec(call.ncl) /\ dirty' = FALSE /\ fat' = dfat /\ dfat' = dfat
         /\ dir' = [ddir EXCEPT ![call.ncl] = Cleared]
         /\ ddir' = ddir \/ ddir' = dir'
<1>1. At("zero") /\ \E c \in {Cleared, ddir[call.ncl]} : ZeroWith(c)
  BY DEF Zeroing, DirZero, DirZeroFails, ZeroWith
<1>2. call.ncl \in Clusters /\ call.ncl # Root /\ Blanked(ddir[call.ncl]) /\ fat[Root] = call.ncl
  BY <1>1 DEF VolumeInv, ClusterInv, CallInv, Stretching, WindowInv, NewCluster, PlaceInv, Placed, Adding, At
<1>3. Blanked(Cleared)
  BY DEF Blanked, Cleared, Blank, IsFile, Own
<1>4. dirty = FALSE /\ dir = ddir
  BY <1>1 DEF VolumeInv, WindowInv, DirWindow, TypeInv, InfoTyped, At, Started, Idle
<1>5. dfat = fat
  BY <1>4 DEF VolumeInv, ClusterInv, FatInv, Window, TypeInv, FatTyped
<1>6. ddir' = [ddir EXCEPT ![call.ncl] = ddir[call.ncl]] => ddir' = ddir
  BY DEF VolumeInv, TypeInv, DirTyped
<1> QED
  BY <1>1, <1>2, <1>3, <1>4, <1>5, <1>6 DEF ZeroWith, VolumeInv, WindowInv, DirWindow

(* At info and syncfs the window is clean, and what is read again is what  *)
(* the library saw.                                                        *)
LEMMA CleanView ==
  ASSUME VolumeInv, dirty = FALSE
  PROVE  dfat = fat /\ Similar(dir, ddir) /\ (dir = ddir \/ Started)
BY DEF VolumeInv, WindowInv, DirWindow, ClusterInv, FatInv, Window, TypeInv, FatTyped

LEMMA FailReturns ==
  ASSUME VolumeInv, Fail, call.pc \in {"mount", "zero"}
  PROVE  call' = NoCall
<1>1. call.goal # "unlink"
  BY DEF VolumeInv, PlaceInv, Placed, Looking, Adding
<1>2. call.pc \notin {"search", "alloc", "close", "flush"}
  OBVIOUS
<1>3. Return("throws")
  BY <1>1, <1>2 DEF Fail
<1> QED
  BY <1>3 DEF Return

(* Nothing comes between a cleared sector that could not be written and the *)
(* next look at the disk but the start of a call.                          *)
LEMMA StartedKept ==
  ASSUME VolumeInv, [Next]_vars, UNCHANGED <<disk, window>>, dirty = FALSE, dir # ddir
  PROVE  Started'
<1>1. /\ Started /\ win # DirSec(Root) /\ call \in CallType
      /\ call.pc = "follow" => call.goal \in {"create", "exists", "free"}
  <2>1. Similar(dir, ddir) /\ Started
    BY DEF VolumeInv, WindowInv, DirWindow
  <2>2. dir[Root] = ddir[Root] /\ dir \in [Clusters -> Sector] /\ ddir \in [Clusters -> Sector]
    BY <2>1, SimilarRoot DEF VolumeInv, TypeInv, DirTyped
  <2>3. \A c \in Clusters : DirSec(c) # win => dir[c] = ddir[c]
    BY DEF VolumeInv, WindowInv, DirWindow
  <2>4. ASSUME win = DirSec(Root)
        PROVE  FALSE
    <3>1. \A c \in Clusters : c # Root => DirSec(c) # win
      BY <2>4, SectorKinds, Bounds
    <3>2. \A c \in Clusters : dir[c] = ddir[c]
      BY <2>2, <2>3, <3>1
    <3> QED
      BY <2>2, <3>2
  <2> QED
    BY <2>1, <2>4 DEF VolumeInv, ClusterInv, CallInv, PlaceInv, Placed, Looking
<1>2. CASE UNCHANGED call
  BY <1>1, <1>2 DEF Started
<1>3. CASE call' = NoCall
  BY <1>3 DEF NoCall, Started
<1>4. CASE Calls
  <2>1. ASSUME NEW goal, NEW n, NEW l, Begin(goal, n, l)
        PROVE  Started'
    <3>1. CASE vol = "none"
      BY <1>3, <2>1, <3>1 DEF Begin, Return
    <3>2. CASE vol # "none"
      <4>1. PICK pc \in {"follow", "mount"} :
              call' = [NoCall EXCEPT !.pc = pc, !.goal = goal, !.name = n, !.len = l]
        BY <2>1, <3>2 DEF Begin
      <4> QED
        BY <4>1 DEF NoCall, Started
    <3> QED
      BY <3>1, <3>2
  <2> QED
    BY <1>2, <1>4, <2>1 DEF Calls, FatMount, FatUmount, FatGetFreeSpace, FatFileExists, FatFileCreate
<1>5. CASE Works
  <2>1. CASE FollowPath
    <3>1. CASE call' = [Go("count") EXCEPT !.clst = 2, !.ncl = 0]
      BY <1>1, <3>1 DEF Go, CallType, Started
    <3>2. CASE call.goal # "free" /\ call' = [Go("find") EXCEPT !.dcl = Root]
      <4>1. call'.pc = "find" /\ call'.dcl = Root /\ call'.goal = call.goal
        BY <1>1, <3>2 DEF Go, CallType
      <4> QED
        BY <1>1, <2>1, <4>1 DEF Started, FollowPath, At
    <3> QED
      BY <1>3, <2>1, <3>1, <3>2 DEF FollowPath, ReturnFree, Return, Continue
  <2>2. CASE MountVolume \/ MoveWindow \/ WriteInfo
    BY <2>2 DEF MountVolume, MountWith, MoveWindow, WriteInfo, InfoWith, Fresh, disk, window
  <2>3. CASE DirFind \/ DirFindNot
    <3>1. call.pc = "find" /\ win = DirSec(call.dcl)
      BY <2>3 DEF DirFind, DirFindNot, At, InWindow, Target
    <3>2. call.dcl = Root
      BY <1>1, <3>1 DEF Started, Idle
    <3> QED
      BY <1>1, <3>1, <3>2
  <2>4. CASE CountSector
    <3>1. call' = NoCall \/ call'.pc = "count"
      BY <1>1, <2>4 DEF CountSector, At, ReturnFree, Continue, CallType
    <3> QED
      BY <1>3, <3>1 DEF Started
  <2>5. CASE DirNext \/ DirRegister \/ DirFull \/ DirStretch \/ TakeCluster \/ ProbeHint \/ ChainNext
              \/ LinkCluster \/ DirClear \/ DirZero
    <3>1. call.pc \in {"findnext", "register", "regnext", "probe", "chain", "link", "clear", "zero"}
      BY <2>5 DEF DirNext, DirRegister, DirFull, DirStretch, TakeCluster, ProbeHint, ChainNext,
         LinkCluster, DirClear, DirZero, ZeroWith, At
    <3> QED
      BY <1>1, <3>1 DEF Started, Idle
  <2>6. CASE ExpandStart \/ Search \/ Alloc \/ AllocPastEnd \/ CloseEntry \/ DirRemove \/ Flush \/ SyncFs
    <3>1. call.pc \in {"expand", "search", "alloc", "close", "remove", "flush", "syncfs"}
      BY <2>6 DEF ExpandStart, Search, Alloc, AllocPastEnd, CloseEntry, DirRemove, Flush, SyncFs, At
    <3> QED
      BY <1>1, <3>1 DEF Started, Idle
  <2> QED
    BY <1>5, <2>1, <2>2, <2>3, <2>4, <2>5, <2>6 DEF Works
<1>6. CASE Fails
  <2>1. CASE WriteFails
    BY <2>1 DEF WriteFails
  <2>2. CASE ReadFails \/ MountNoInfo \/ MountFails \/ WriteInfoFails
    BY <2>2 DEF ReadFails, MountNoInfo, MountWith, MountFails, WriteInfoFails, InfoWith, Fresh, disk, window
  <2>3. CASE DirZeroFails \/ FlushFails \/ SyncFsFails
    <3>1. call.pc \in {"zero", "clear", "flush", "syncfs"}
      BY <2>3 DEF DirZeroFails, ZeroWith, FlushFails, SyncFsFails, At
    <3> QED
      BY <1>1, <3>1 DEF Started, Idle
  <2> QED
    BY <1>6, <2>1, <2>2, <2>3 DEF Fails
<1>7. CASE Kill \/ PowerLoss
  BY <1>3, <1>7 DEF Kill, PowerLoss, Restart
<1>8. CASE UNCHANGED vars
  BY <1>2, <1>8 DEF vars
<1> QED
  BY <1>4, <1>5, <1>6, <1>7, <1>8 DEF Next

LEMMA CleanStep ==
  ASSUME VolumeInv, [Next]_vars, dirty' = FALSE
  PROVE  dir' = ddir' \/ Started'
<1>1. CASE Still \/ Settling
  BY <1>1, StartedKept DEF Still, Settling, disk, window
<1>2. CASE Syncing
  <2>1. ddir' = dir \/ (ddir' = ddir /\ ~dirty)
    BY <1>2, SyncedDir DEF VolumeInv, Syncing
  <2>2. CASE \E s \in Sectors : Fresh(s)
    BY <2>2 DEF Fresh
  <2>3. CASE UNCHANGED <<fat, dir, win>> /\ ~dirty
    <3>1. UNCHANGED disk /\ dirty = FALSE
      BY <1>2, <2>3 DEF Syncing, SyncWindow, VolumeInv, TypeInv, InfoTyped
    <3> QED
      BY <2>3, <3>1, StartedKept DEF window, disk
  <2>4. CASE UNCHANGED <<fat, dir, win>> /\ ddir' = dir
    BY <2>4
  <2> QED
    BY <1>2, <2>1, <2>2, <2>3, <2>4 DEF Syncing
<1>3. CASE Rereading \/ PowerLoss
  BY <1>3 DEF Rereading, PowerLoss, Restart, Fresh
<1>4. CASE Putting
  BY <1>4, PutLinks
<1>5. CASE Entering
  BY <1>5, EnteredWhere
<1>6. CASE Zeroing
  <2>1. CASE DirZero
    BY <2>1 DEF DirZero, ZeroWith
  <2>2. CASE DirZeroFails
    <3>1. call' = NoCall
      BY <2>2, FailReturns DEF DirZeroFails, ZeroWith, At
    <3> QED
      BY <3>1 DEF NoCall, Started
  <2> QED
    BY <1>6, <2>1, <2>2 DEF Zeroing
<1> QED
  BY <1>1, <1>2, <1>3, <1>4, <1>5, <1>6, Kinds DEF VolumeInv

LEMMA WindowKept ==
  ASSUME VolumeInv, [Next]_vars
  PROVE  /\ \A c \in Clusters : DirSec(c) # win' => dir'[c] = ddir'[c]
         /\ dirty' = FALSE => Similar(dir', ddir')
<1> USE DEF VolumeInv, WindowInv, DirWindow
<1>1. CASE Still \/ Settling
  BY <1>1 DEF Still, Settling, disk, window
<1>2. CASE Syncing
  BY <1>2, SyncingView
<1>3. CASE Rereading \/ PowerLoss
  BY <1>3, SimilarSelf DEF Rereading, PowerLoss, Restart, Fresh
<1>4. CASE Putting
  BY <1>4, PutLinks
<1>5. CASE Entering
  <2>1. PICK s \in 1 .. Slots, e \in Entries : dir' = [dir EXCEPT ![call.dcl][s] = e]
    BY <1>5, EnteredWhere
  <2>2. \A c \in Clusters : c # call.dcl => dir'[c] = dir[c]
    BY <2>1 DEF TypeInv, DirTyped
  <2> QED
    BY <1>5, <2>2, EnteredWhere
<1>6. CASE Zeroing
  <2>1. /\ dir' = [ddir EXCEPT ![call.ncl] = Cleared] /\ win' = DirSec(call.ncl)
        /\ ddir' = ddir \/ ddir' = dir'
    BY <1>6, ZeroWhere
  <2>2. \A c \in Clusters : c # call.ncl => dir'[c] = ddir[c]
    BY <2>1 DEF TypeInv, DirTyped
  <2>3. Similar(dir', ddir')
    BY <1>6, <2>1, <2>2, ZeroWhere DEF Similar, TypeInv, DirTyped
  <2> QED
    BY <2>1, <2>2, <2>3
<1> QED
  BY <1>1, <1>2, <1>3, <1>4, <1>5, <1>6, Kinds

LEMMA AgedBlanked ==
  ASSUME NEW g \in Sector
  PROVE  Blanked(Aged(g))
<1> SUFFICES ASSUME NEW s \in 1 .. Slots PROVE ~Own(Aged(g)[s])
  BY DEF Blanked
<1>1. /\ Aged(g)[s].kind = g[s].kind /\ Aged(g)[s].old = IsFile(g[s])
  BY DEF Aged, Sector, Entries
<1> QED
  BY <1>1 DEF Own, IsFile

LEMMA UnlinkedKept ==
  ASSUME VolumeInv, [Next]_vars
  PROVE  Unlinked(fat', dir') /\ Unlinked(dfat', ddir')
<1>0. Unlinked(fat, dir) /\ Unlinked(dfat, ddir)
  BY DEF VolumeInv, WindowInv
<1>1. CASE Still \/ Settling
  BY <1>0, <1>1 DEF Still, Settling, disk, window
<1>2. CASE Syncing
  BY <1>0, <1>2, SyncingView, SimilarUnlinked
<1>3. CASE Rereading
  BY <1>0, <1>3 DEF Rereading, Fresh
<1>4. CASE PowerLoss
  <2>1. /\ fat' = dfat' /\ dir' = ddir'
        /\ \A c \in Clusters : c \notin Linked(dfat') => \E g \in Sector : ddir'[c] = Aged(g)
    <3>1. \A c \in Clusters : vdir[c] \cup {ddir[c]} \subseteq Sector
      BY DEF VolumeInv, TypeInv, DirTyped
    <3> QED
      BY <1>4, <3>1, LostDir DEF PowerLoss, Restart, Fresh
  <2>2. \A g \in Sector : Blanked(Aged(g))
    BY AgedBlanked
  <2> QED
    BY <2>1, <2>2 DEF Unlinked
<1>5. CASE Putting
  BY <1>0, <1>5, PutLinks DEF Unlinked
<1>6. CASE Entering
  <2>1. PICK s \in 1 .. Slots, e \in Entries : dir' = [dir EXCEPT ![call.dcl][s] = e]
    BY <1>6, EnteredWhere
  <2>2. \A c \in Clusters : c # call.dcl => dir'[c] = dir[c]
    BY <2>1 DEF VolumeInv, TypeInv, DirTyped
  <2> QED
    BY <1>0, <1>6, <2>2, EnteredWhere DEF Unlinked
<1>7. CASE Zeroing
  <2>1. dir' = [ddir EXCEPT ![call.ncl] = Cleared] /\ Blanked(Cleared)
        /\ (ddir' = ddir \/ ddir' = dir') /\ fat' = dfat /\ dfat' = dfat
    BY <1>7, ZeroWhere
  <2>2. \A c \in Clusters : dir'[c] = ddir[c] \/ dir'[c] = Cleared
    BY <2>1 DEF VolumeInv, TypeInv, DirTyped
  <2> QED
    BY <1>0, <2>1, <2>2 DEF Unlinked
<1> QED
  BY <1>1, <1>2, <1>3, <1>4, <1>5, <1>6, <1>7, Kinds DEF VolumeInv

(* A cluster the directory is stretched by is free, so it is no part of it.*)
LEMMA TakenBlanked ==
  ASSUME VolumeInv, TakeCluster
  PROVE  call.ncl \in Clusters /\ call.ncl # Root /\ Blanked(dir[call.ncl]) /\ Blanked(ddir[call.ncl])
<1>1. call.ncl \in Clusters /\ fat[Root] = EOC /\ fat[call.ncl] = 0
  BY DEF TakeCluster, VolumeInv, ClusterInv, CallInv, Stretching
<1>2. call.ncl # Root
  BY <1>1, Bounds
<1>3. dfat[Root] = EOC
  <2>1. dfat[Root] \in RootEntries /\ (dfat[Root] # 0 => fat[Root] = dfat[Root] \/ dfat[Root] = EOC)
    BY Bounds DEF VolumeInv, ClusterInv, FatInv, Tables, UsedKept, Kept
  <2> QED
    BY <1>1, <2>1, Bounds DEF RootEntries
<1>4. call.ncl \notin Linked(fat) /\ call.ncl \notin Linked(dfat)
  BY <1>1, <1>2, <1>3, Bounds DEF Linked
<1> QED
  BY <1>1, <1>2, <1>4 DEF VolumeInv, WindowInv, Unlinked

LEMMA LateKept ==
  ASSUME VolumeInv, [Next]_vars
  PROVE  (call.pc \in {"zero", "info", "syncfs"} => ~dirty)' /\ NewCluster'
<1>0. call \in CallType /\ DirWindow /\ NewCluster /\ ClusterInv
  BY DEF VolumeInv, ClusterInv, CallInv, WindowInv
<1>1. CASE call'.pc \notin {"link", "clear", "zero", "info", "syncfs"}
  BY <1>1 DEF NewCluster
<1>2. CASE UNCHANGED vars
  BY <1>0, <1>2 DEF vars, window, disk, NewCluster, DirWindow
<1>3. CASE MoveWindow /\ UNCHANGED call
  <2>1. call.pc \notin {"clear", "zero", "info", "syncfs"}
    BY <1>3 DEF MoveWindow, Accessing, At
  <2>2. CASE call.pc = "link"
    <3>1. call.ncl \in Clusters /\ call.ncl # Root /\ Blanked(dir[call.ncl])
      BY <1>0, <2>2 DEF NewCluster, ClusterInv, CallInv, Stretching
    <3>2. SyncWindow /\ Fresh(Target)
      BY <1>3 DEF MoveWindow
    <3>3. Similar(dir, ddir') /\ dir' = ddir'
      BY <3>2, SyncedDir DEF VolumeInv, Fresh
    <3> QED
      BY <1>3, <2>2, <3>1, <3>3 DEF Similar, NewCluster
  <2> QED
    BY <1>3, <2>1, <2>2 DEF NewCluster
<1>4. CASE TakeCluster /\ call' = Go("link")
  <2>1. call'.pc = "link" /\ call'.ncl = call.ncl
    BY <1>0, <1>4, GoFields
  <2>2. dir' = dir /\ ddir' = ddir
    BY <1>4 DEF TakeCluster, PutFat, disk
  <2> QED
    BY <1>4, <2>1, <2>2, TakenBlanked DEF NewCluster
<1>5. CASE LinkCluster /\ call' = Go("clear")
  <2>1. call'.pc = "clear" /\ call'.ncl = call.ncl /\ call.pc = "link"
    BY <1>0, <1>5, GoFields DEF LinkCluster, At
  <2>2. dir' = dir /\ ddir' = ddir
    BY <1>5 DEF LinkCluster, PutFat, disk
  <2> QED
    BY <1>0, <2>1, <2>2 DEF NewCluster
<1>6. CASE DirClear /\ call' = Go("zero")
  <2>1. call'.pc = "zero" /\ call'.ncl = call.ncl /\ call.pc = "clear"
    BY <1>0, <1>6, GoFields DEF DirClear, At
  <2>2. dir' = dir /\ dirty' = FALSE /\ SyncWindow
    BY <1>6 DEF DirClear
  <2>3. Similar(dir, ddir')
    BY <2>2, SyncedDir DEF VolumeInv
  <2>4. call.ncl \in Clusters
    BY <2>1 DEF VolumeInv, ClusterInv, CallInv, Stretching
  <2> QED
    BY <1>0, <2>1, <2>2, <2>3, <2>4 DEF NewCluster, Similar
<1>7. CASE Flush /\ \E pc \in {"info", "syncfs"} : call' = Go(pc)
  BY <1>0, <1>7, GoFields DEF Flush, NewCluster
<1>8. CASE (WriteInfo \/ WriteInfoFails) /\ call' = Go("syncfs")
  BY <1>0, <1>8, GoFields DEF WriteInfo, WriteInfoFails, InfoWith, Fresh, NewCluster
<1> QED
  BY <1>0, <1>1, <1>2, <1>3, <1>4, <1>5, <1>6, <1>7, <1>8, LateCalls

LEMMA WindowStep ==
  ASSUME VolumeInv, [Next]_vars
  PROVE  WindowInv'
<1>1. dirty' \in BOOLEAN
  BY WindowTyped DEF VolumeInv
<1> QED
  BY <1>1, WindowKept, CleanStep, UnlinkedKept, LateKept DEF WindowInv, DirWindow

-----------------------------------------------------------------------------
(* The call keeps its place.  Most steps leave the files the library sees  *)
(* as they are, and it is enough to look at the call.                      *)
LEMMA SameView ==
  ASSUME VolumeInv, Still \/ Settling \/ Syncing \/ (Rereading /\ dirty = FALSE)
  PROVE  fat' = fat /\ Similar(dir, dir') /\ (dir' = dir \/ Started)
<1>1. CASE Still \/ Settling
  BY <1>1, SimilarSelf DEF Still, Settling, window
<1>2. CASE Syncing
  BY <1>2, SyncingView
<1>3. CASE Rereading /\ dirty = FALSE
  BY <1>3, CleanView DEF Rereading, Fresh
<1> QED
  BY <1>1, <1>2, <1>3

LEMMA PlaceKept ==
  ASSUME VolumeInv, Placed(fat, dir, call'), call' \in CallType,
         Still \/ Settling \/ Syncing \/ (Rereading /\ dirty = FALSE),
         UNCHANGED dir \/ ~Started \/ call' = call \/ call' = NoCall
  PROVE  PlaceInv'
BY SameView, StartedPlaced, NoCallPlaced DEF PlaceInv

LEMMA BeginPlaced ==
  ASSUME VolumeInv, Calls
  PROVE  Placed(fat, dir, call')
<1>1. ASSUME NEW goal \in {"create", "exists", "free"}, NEW n, NEW l, Begin(goal, n, l)
      PROVE  Placed(fat, dir, call')
  <2>1. CASE vol = "none"
    BY <1>1, <2>1, NoCallPlaced DEF Begin, Return
  <2>2. CASE vol # "none"
    <3>1. PICK pc \in {"follow", "mount"} :
            call' = [NoCall EXCEPT !.pc = pc, !.goal = goal, !.name = n, !.len = l]
      BY <1>1, <2>2 DEF Begin
    <3>2. call'.pc = pc /\ call'.goal = goal
      BY <3>1 DEF NoCall
    <3> QED
      BY <3>2, PlainPlaced
  <2> QED
    BY <2>1, <2>2
<1>2. CASE FatMount \/ FatUmount
  BY <1>2 DEF FatMount, FatUmount, VolumeInv, PlaceInv
<1> QED
  BY <1>1, <1>2 DEF Calls, FatGetFreeSpace, FatFileExists, FatFileCreate

LEMMA FollowPlaced ==
  ASSUME VolumeInv, FollowPath
  PROVE  Placed(fat, dir, call')
<1>1. call \in CallType /\ call.goal \in {"create", "exists", "free"}
  BY DEF FollowPath, At, VolumeInv, ClusterInv, CallInv, PlaceInv, Placed, Looking
<1>2. CASE call' = NoCall
  BY <1>2, NoCallPlaced
<1>3. CASE call' = [Go("count") EXCEPT !.clst = 2, !.ncl = 0]
  <2>1. call'.pc = "count"
    BY <1>1, <1>3 DEF Go, CallType
  <2> QED
    BY <2>1, PlainPlaced
<1>4. CASE call.goal # "free" /\ call' = [Go("find") EXCEPT !.dcl = Root]
  <2>1. call'.pc = "find" /\ call'.goal = call.goal /\ call'.dcl = Root
    BY <1>1, <1>4 DEF Go, CallType
  <2>2. Reached(fat, dir, call'.name, call'.dcl)
    BY <2>1 DEF Reached
  <2> QED
    BY <1>1, <1>4, <2>1, <2>2, FindPlaced
<1> QED
  BY <1>2, <1>3, <1>4 DEF FollowPath, ReturnFree, Return, Continue

(* Nothing is here that has the name.                                      *)
LEMMA SeenIs ==
  ASSUME NEW s
  PROVE  /\ Seen(s) <=> Open(dir[call.dcl], s)
         /\ Matches(s) <=> IsMatch(dir[call.dcl], call.name, s)
BY DEF Seen, Matches, Open, IsMatch

LEMMA NotFoundPlaced ==
  ASSUME VolumeInv, NotFound, call.goal = "create" => Absent(fat, dir, call.name)
  PROVE  Placed(fat, dir, call')
<1>1. CASE call' = NoCall
  BY <1>1, NoCallPlaced
<1>2. CASE call.goal = "create" /\ call' = [call EXCEPT !.pc = "register", !.dcl = Root]
  <2>1. call'.pc = "register" /\ call'.goal = "create" /\ call'.name = call.name /\ call'.dcl = Root
    BY <1>2 DEF VolumeInv, ClusterInv, CallInv, CallType
  <2> QED
    BY <1>2, <2>1, RegisterPlaced
<1> QED
  BY <1>1, <1>2 DEF NotFound, Return, Continue

LEMMA DirFindPlaced ==
  ASSUME VolumeInv, DirFind
  PROVE  Placed(fat, dir, call')
<1>1. /\ call \in CallType /\ call.pc = "find" /\ call.goal \in {"create", "exists", "unlink"}
      /\ Reached(fat, dir, call.name, call.dcl)
      /\ call.goal = "unlink" =>
           \E c \in Clusters : FirstMatch(fat, dir, call.name, c, call.slot) /\ EmptyAt(dir, c, call.slot)
  BY DEF DirFind, At, VolumeInv, ClusterInv, CallInv, PlaceInv, Placed, Looking
<1>2. PICK s \in 1 .. Slots :
        /\ Matches(s)
        /\ \A t \in 1 .. s - 1 : ~Matches(t)
        /\ call' = NoCall \/ (call.goal = "unlink" /\ call' = [Go("remove") EXCEPT !.slot = s])
  BY <1>1 DEF DirFind, Return, Continue
<1>3. CASE call' = NoCall
  BY <1>3, NoCallPlaced
<1>4. CASE call.goal = "unlink" /\ call' = [Go("remove") EXCEPT !.slot = s]
  <2>1. FirstMatch(fat, dir, call.name, call.dcl, s)
    BY <1>1, <1>2, SeenIs DEF FirstMatch
  <2>2. EmptyAt(dir, call.dcl, s)
    <3>1. PICK c \in Clusters : FirstMatch(fat, dir, call.name, c, call.slot) /\ EmptyAt(dir, c, call.slot)
      BY <1>1, <1>4
    <3>2. call.slot \in 1 .. Slots
      BY <1>1 DEF CallType
    <3>3. call.dcl = c /\ s = call.slot
      BY <2>1, <3>1, <3>2, FirstUnique
    <3> QED
      BY <3>1, <3>3
  <2>3. /\ call'.pc = "remove" /\ call'.goal = "unlink" /\ call'.slot = s /\ call'.dcl = call.dcl
        /\ call'.name = call.name
    BY <1>1, <1>4 DEF Go, CallType
  <2> QED
    BY <2>1, <2>2, <2>3 DEF Placed, Looking, Adding, Added
<1> QED
  BY <1>2, <1>3, <1>4

LEMMA DirFindNotPlaced ==
  ASSUME VolumeInv, DirFindNot
  PROVE  Placed(fat, dir, call')
<1>1. /\ call \in CallType /\ call.pc = "find" /\ call.goal \in {"create", "exists", "unlink"}
      /\ Reached(fat, dir, call.name, call.dcl)
      /\ call.goal = "unlink" =>
           \E c \in Clusters : FirstMatch(fat, dir, call.name, c, call.slot) /\ EmptyAt(dir, c, call.slot)
  BY DEF DirFindNot, At, VolumeInv, ClusterInv, CallInv, PlaceInv, Placed, Looking
<1>2. Missing(dir[call.dcl], call.name)
  BY SeenIs DEF DirFindNot, Missing
<1>3. CASE (~Seen(Slots + 1) \/ call.dcl # Root) /\ NotFound
  <2>1. Missing(dir[Root], call.name)
    BY <1>1, <1>2 DEF Reached, Passed
  <2>2. Open(dir[Root], Slots + 1) => call.dcl # Root
    BY <1>3, SeenIs
  <2>3. Absent(fat, dir, call.name)
    BY <1>1, <1>2, <2>1, <2>2 DEF Absent, Reached
  <2> QED
    BY <1>3, <2>3, NotFoundPlaced
<1>4. CASE Seen(Slots + 1) /\ call.dcl = Root /\ call' = Go("findnext")
  <2>1. Passed(dir, call.name)
    BY <1>2, <1>4, SeenIs DEF Passed
  <2>2. /\ call'.pc = "findnext" /\ call'.goal = call.goal /\ call'.slot = call.slot /\ call'.dcl = Root
        /\ call'.name = call.name
    BY <1>1, <1>4, GoFields
  <2> QED
    BY <1>1, <2>1, <2>2 DEF Placed, Looking, Adding, Added
<1> QED
  BY <1>3, <1>4 DEF DirFindNot, Continue

LEMMA DirNextPlaced ==
  ASSUME VolumeInv, DirNext
  PROVE  Placed(fat, dir, call')
<1>1. /\ call \in CallType /\ call.pc = "findnext" /\ call.goal \in {"create", "exists", "unlink"}
      /\ call.dcl = Root /\ Passed(dir, call.name)
      /\ call.goal = "unlink" =>
           \E c \in Clusters : FirstMatch(fat, dir, call.name, c, call.slot) /\ EmptyAt(dir, c, call.slot)
  BY DEF DirNext, At, VolumeInv, ClusterInv, CallInv, PlaceInv, Placed, Looking
<1>2. CASE fat[Root] \notin Clusters /\ NotFound
  <2>1. Absent(fat, dir, call.name)
    BY <1>1, <1>2 DEF Absent, Passed
  <2> QED
    BY <1>2, <2>1, NotFoundPlaced
<1>3. CASE fat[Root] \in Clusters /\ call' = [Go("find") EXCEPT !.dcl = fat[Root]]
  <2>1. /\ call'.pc = "find" /\ call'.goal = call.goal /\ call'.slot = call.slot /\ call'.dcl = fat[Root]
        /\ call'.name = call.name
    BY <1>1, <1>3 DEF Go, CallType
  <2>2. Reached(fat, dir, call'.name, call'.dcl)
    BY <1>1, <1>3, <2>1 DEF Reached
  <2> QED
    BY <1>1, <2>1, <2>2, FindPlaced
<1> QED
  BY <1>1, <1>2, <1>3 DEF DirNext, Continue

(* The directory is stretched.                                             *)
LEMMA StretchPlaced ==
  ASSUME VolumeInv, DirFull \/ DirStretch \/ ProbeHint \/ ChainNext
  PROVE  Placed(fat, dir, call')
<1>1. call \in CallType /\ Placed(fat, dir, call)
  BY DEF VolumeInv, ClusterInv, CallInv, PlaceInv
<1>2. CASE call' = NoCall
  BY <1>2, NoCallPlaced
<1>3. CASE DirFull
  <2>1. CASE call.dcl = Root /\ call' = Go("regnext")
    <3>1. /\ call'.pc = "regnext" /\ call'.goal = call.goal /\ call'.name = call.name /\ call.pc = "register"
      BY <1>1, <1>3, <2>1, GoFields DEF DirFull, At
    <3>2. Full(dir[Root])
      BY <1>3, <2>1 DEF DirFull, FreeEntry, Full
    <3> QED
      BY <1>1, <3>1, <3>2 DEF Placed, Looking, Adding, Added
  <2> QED
    BY <1>2, <1>3, <2>1 DEF DirFull, Return, Continue
<1>4. CASE DirStretch
  <2>1. call.pc = "regnext"
    BY <1>4 DEF DirStretch, At
  <2>2. CASE fat[call.dcl] \in Clusters /\ call' = [Go("register") EXCEPT !.dcl = fat[call.dcl]]
    <3>1. call.dcl = Root
      BY <2>1 DEF VolumeInv, ClusterInv, CallInv, Stretching
    <3>2. /\ call'.pc = "register" /\ call'.goal = call.goal /\ call'.name = call.name /\ call'.dcl = fat[Root]
      BY <1>1, <2>2, <3>1 DEF Go, CallType
    <3>3. call.goal = "create" /\ Absent(fat, dir, call.name) /\ Full(dir[Root])
      BY <1>1, <2>1 DEF Placed, Adding
    <3> QED
      BY <2>2, <3>1, <3>2, <3>3, RegisterPlaced
  <2>3. CASE call' = [Go("probe") EXCEPT !.ncl = Next1(call.dcl)]
    <3>1. /\ call'.pc = "probe" /\ call'.goal = call.goal /\ call'.name = call.name
      BY <1>1, <2>3 DEF Go, CallType
    <3> QED
      BY <1>1, <2>1, <3>1 DEF Placed, Looking, Adding, Added
  <2> QED
    BY <1>2, <1>4, <2>2, <2>3 DEF DirStretch, Return, Continue
<1>5. CASE ProbeHint \/ ChainNext
  <2>1. CASE /\ call'.pc = "chain" /\ call'.goal = call.goal /\ call'.name = call.name
             /\ call.pc \in {"probe", "chain"}
    BY <1>1, <2>1 DEF Placed, Looking, Adding, Added
  <2>2. CASE ProbeHint
    <3>1. PICK scl : call' = [Go("chain") EXCEPT !.scl = scl, !.ncl = Next1(scl)]
      BY <2>2 DEF ProbeHint, Continue
    <3>2. /\ call'.pc = "chain" /\ call'.goal = call.goal /\ call'.name = call.name
      BY <1>1, <3>1 DEF Go, CallType
    <3> QED
      BY <2>1, <2>2, <3>2 DEF ProbeHint, At
  <2>3. CASE ChainNext /\ call' = [call EXCEPT !.ncl = Next1(@)]
    <3>1. /\ call'.pc = "chain" /\ call'.goal = call.goal /\ call'.name = call.name /\ call.pc = "chain"
      BY <1>1, <2>3 DEF ChainNext, At, CallType
    <3> QED
      BY <2>1, <3>1
  <2> QED
    BY <1>2, <1>5, <2>2, <2>3 DEF ChainNext, Return, Continue
<1> QED
  BY <1>3, <1>4, <1>5

(* The window is written back.                                             *)
LEMMA FlushPlaced ==
  ASSUME VolumeInv, DirClear \/ Flush \/ WriteInfo \/ WriteInfoFails
  PROVE  Placed(fat, dir, call')
<1>1. call \in CallType /\ Placed(fat, dir, call)
  BY DEF VolumeInv, ClusterInv, CallInv, PlaceInv
<1>2. CASE DirClear
  <2>1. call.pc = "clear" /\ call' = Go("zero")
    BY <1>2 DEF DirClear, At, Continue
  <2>2. /\ call'.pc = "zero" /\ call'.goal = call.goal /\ call'.name = call.name /\ call'.ncl = call.ncl
    BY <1>1, <2>1, GoFields
  <2> QED
    BY <1>1, <2>1, <2>2 DEF Placed, Looking, Adding, Added
<1>3. CASE Flush \/ WriteInfo \/ WriteInfoFails
  <2>1. PICK pc \in {"info", "syncfs"} : call.pc \in {"flush", "info"} /\ call' = Go(pc)
    BY <1>3 DEF Flush, WriteInfo, WriteInfoFails, InfoWith, At, Continue
  <2>2. /\ call'.pc = pc /\ call'.goal = call.goal /\ call'.name = call.name /\ call'.res = call.res
        /\ call'.dcl = call.dcl /\ call'.slot = call.slot /\ call'.scl = call.scl /\ call'.len = call.len
    BY <1>1, <2>1, GoFields
  <2>3. EntryOf(call') = EntryOf(call)
    BY <2>2 DEF EntryOf
  <2>4. Added(fat, dir, call')
    BY <1>1, <2>1, <2>2, <2>3 DEF Placed, Added
  <2> QED
    BY <2>1, <2>2, <2>4 DEF Placed, Looking, Adding
<1> QED
  BY <1>2, <1>3

(* The new file is given its area: the entry is there meanwhile.           *)
LEMMA GrowPlaced ==
  ASSUME VolumeInv, NEW f, f[Root] = fat[Root], call'.pc \in {"search", "alloc", "close"},
         call.pc \in {"expand", "search", "alloc"}, call'.goal = call.goal, call'.name = call.name,
         call'.dcl = call.dcl, call'.slot = call.slot
  PROVE  Placed(f, dir, call')
<1>1. /\ call.goal = "create" /\ FirstMatch(fat, dir, call.name, call.dcl, call.slot)
      /\ dir[call.dcl][call.slot] = NewFile(call.name)
  BY DEF VolumeInv, PlaceInv, Placed, Added
<1>2. FirstMatch(f, dir, call.name, call.dcl, call.slot)
  BY <1>1 DEF FirstMatch, Reached
<1> QED
  BY <1>1, <1>2 DEF Placed, Looking, Adding, Added

LEMMA SearchPlaced ==
  ASSUME VolumeInv, ExpandStart \/ Search
  PROVE  Placed(fat, dir, call')
<1>1. call \in CallType
  BY DEF VolumeInv, ClusterInv, CallInv
<1>2. CASE ExpandStart
  <2>1. \/ call' = [Go("close") EXCEPT !.res = "nospace"]
        \/ \E c : call' = [Go("search") EXCEPT !.start = c, !.clst = c, !.scl = c, !.ncl = 0]
    BY <1>2 DEF ExpandStart, Continue
  <2>2. /\ call'.pc \in {"search", "close"} /\ call'.goal = call.goal /\ call'.name = call.name
        /\ call'.dcl = call.dcl /\ call'.slot = call.slot
    BY <1>1, <2>1 DEF Go, CallType
  <2> QED
    BY <1>2, <2>2, GrowPlaced DEF ExpandStart, At
<1>3. CASE Search
  <2>1. /\ call'.pc \in {"search", "alloc", "close"} /\ call'.goal = call.goal /\ call'.name = call.name
        /\ call'.dcl = call.dcl /\ call'.slot = call.slot /\ call.pc = "search"
    <3>1. CASE call' = [Go("alloc") EXCEPT !.clst = RunStart, !.left = call.len]
      BY <1>1, <1>3, <3>1, SearchGoes DEF Go, CallType
    <3>2. CASE call' = [Go("close") EXCEPT !.res = "nospace"]
      BY <1>1, <1>3, <3>2, SearchGoes DEF Go, CallType
    <3>3. CASE call' = [call EXCEPT !.clst = Next1(call.clst), !.scl = RunStart, !.ncl = RunLength]
      BY <1>1, <1>3, <3>3, SearchGoes DEF CallType
    <3> QED
      BY <1>3, <3>1, <3>2, <3>3, SearchGoes
  <2> QED
    BY <2>1, GrowPlaced
<1> QED
  BY <1>2, <1>3

(* A failed call goes on to unlink the entry that it has left empty.       *)
LEMMA FailPlaced ==
  ASSUME VolumeInv, Fail
  PROVE  Placed(fat, dir, call')
<1>1. call \in CallType /\ Placed(fat, dir, call)
  BY DEF VolumeInv, ClusterInv, CallInv, PlaceInv
<1>2. CASE call' = NoCall
  BY <1>2, NoCallPlaced
<1>3. CASE call.pc \in {"search", "alloc"} /\ call' = [call EXCEPT !.pc = "close", !.res = "nospace"]
  <2>1. /\ call'.pc = "close" /\ call'.goal = call.goal /\ call'.name = call.name
        /\ call'.dcl = call.dcl /\ call'.slot = call.slot
    BY <1>1, <1>3 DEF CallType
  <2> QED
    BY <1>3, <2>1, GrowPlaced
<1>4. CASE /\ call.pc \in {"close", "flush"} /\ call.goal = "create" /\ call.res # "ok"
           /\ call' = [call EXCEPT !.pc = "find", !.goal = "unlink", !.dcl = Root]
  <2>1. /\ call'.pc = "find" /\ call'.goal = "unlink" /\ call'.name = call.name
        /\ call'.dcl = Root /\ call'.slot = call.slot
    BY <1>1, <1>4 DEF CallType
  <2>2. /\ FirstMatch(fat, dir, call.name, call.dcl, call.slot)
        /\ dir[call.dcl][call.slot] = NewFile(call.name)
    BY <1>1, <1>4 DEF Placed, Added
  <2>3. EmptyAt(dir, call.dcl, call.slot) /\ call.dcl \in Clusters
    BY <1>1, <2>2 DEF EmptyAt, NewFile, CallType
  <2>4. Reached(fat, dir, call'.name, call'.dcl)
    BY <2>1 DEF Reached
  <2> QED
    BY <2>1, <2>2, <2>3, <2>4, FindPlaced
<1> QED
  BY <1>2, <1>3, <1>4 DEF Fail, Return, Continue

LEMMA SyncFsPlaced ==
  ASSUME VolumeInv, SyncFs \/ SyncFsFails
  PROVE  Placed(fat, dir, call')
<1>1. call \in CallType /\ Placed(fat, dir, call) /\ call.pc = "syncfs" /\ \E good : AfterSync(good)
  BY DEF VolumeInv, ClusterInv, CallInv, PlaceInv, SyncFs, SyncFsFails, At
<1>2. CASE call' = NoCall
  BY <1>2, NoCallPlaced
<1>3. CASE /\ call.goal = "create" /\ call.res = "nospace"
           /\ call' = [call EXCEPT !.pc = "find", !.goal = "unlink", !.dcl = Root]
  <2>1. /\ call'.pc = "find" /\ call'.goal = "unlink" /\ call'.name = call.name
        /\ call'.dcl = Root /\ call'.slot = call.slot
    BY <1>1, <1>3 DEF CallType
  <2>2. /\ FirstMatch(fat, dir, call.name, call.dcl, call.slot)
        /\ dir[call.dcl][call.slot] = NewFile(call.name)
    BY <1>1, <1>3 DEF Placed, Added
  <2>3. EmptyAt(dir, call.dcl, call.slot) /\ call.dcl \in Clusters
    BY <1>1, <2>2 DEF EmptyAt, NewFile, CallType
  <2>4. Reached(fat, dir, call'.name, call'.dcl)
    BY <2>1 DEF Reached
  <2> QED
    BY <2>1, <2>2, <2>3, <2>4, FindPlaced
<1> QED
  BY <1>1, <1>2, <1>3 DEF AfterSync, Return, Continue

(* The steps that change what the library sees.                            *)
LEMMA PutPlaced ==
  ASSUME VolumeInv, Putting
  PROVE  PlaceInv'
<1>1. /\ call \in CallType /\ Placed(fat, dir, call) /\ dir' = dir
      /\ fat \in [Clusters -> 0 .. N + 1]
  BY PutLinks DEF VolumeInv, ClusterInv, CallInv, PlaceInv, TypeInv, FatTyped
<1>2. CASE TakeCluster
  <2>1. call.pc \in {"probe", "chain"} /\ call' = Go("link") /\ fat' = [fat EXCEPT ![call.ncl] = EOC]
        /\ call.ncl \in Clusters
    BY <1>2, TakenBlanked DEF TakeCluster, Continue, PutFat
  <2>2. /\ call'.pc = "link" /\ call'.goal = call.goal /\ call'.name = call.name /\ call'.ncl = call.ncl
    BY <1>1, <2>1, GoFields
  <2>3. fat'[call.ncl] = EOC
    BY <1>1, <2>1
  <2> QED
    BY <1>1, <2>1, <2>2, <2>3 DEF PlaceInv, Placed, Looking, Adding, Added
<1>3. CASE LinkCluster
  <2>1. call.pc = "link" /\ call' = Go("clear") /\ fat' = [fat EXCEPT ![Root] = call.ncl]
    BY <1>3 DEF LinkCluster, Continue, PutFat, At, VolumeInv, ClusterInv, CallInv, Stretching
  <2>2. /\ call'.pc = "clear" /\ call'.goal = call.goal /\ call'.name = call.name /\ call'.ncl = call.ncl
    BY <1>1, <2>1, GoFields
  <2>3. fat'[Root] = call.ncl
    BY <1>1, <2>1, Bounds
  <2> QED
    BY <1>1, <2>1, <2>2, <2>3 DEF PlaceInv, Placed, Looking, Adding, Added
<1>4. CASE Alloc
  <2>1. \/ call' = Go("close")
        \/ call.pc = "alloc" /\ call' = [call EXCEPT !.clst = @ + 1, !.left = @ - 1]
    BY <1>4 DEF Alloc, Continue, At
  <2>2. /\ call'.pc \in {"alloc", "close"} /\ call'.goal = call.goal /\ call'.name = call.name
        /\ call'.dcl = call.dcl /\ call'.slot = call.slot
    BY <1>1, <2>1 DEF Go, CallType
  <2>3. fat'[Root] = fat[Root]
    <3>1. ~LinkCluster
      BY <1>4 DEF Alloc, LinkCluster, At
    <3> QED
      BY <3>1, PutLinks
  <2>4. call.pc = "alloc"
    BY <1>4 DEF Alloc, At
  <2>5. Placed(fat', dir, call')
    BY <2>2, <2>3, <2>4, GrowPlaced
  <2> QED
    BY <1>1, <2>5 DEF PlaceInv
<1> QED
  BY <1>2, <1>3, <1>4 DEF Putting

LEMMA FullOpen ==
  ASSUME NEW g, Full(g)
  PROVE  Open(g, Slots + 1)
<1>1. 1 .. (Slots + 1) - 1 = 1 .. Slots
  BY Bounds
<1>2. \A t \in 1 .. Slots : g[t].kind # "end"
  BY DEF Full
<1> QED
  BY <1>1, <1>2 DEF Open

LEMMA RegisteredPlaced ==
  ASSUME VolumeInv, DirRegister
  PROVE  PlaceInv'
<1>1. /\ call \in CallType /\ call.pc = "register" /\ call.dcl \in Clusters /\ call.goal = "create"
      /\ Absent(fat, dir, call.name) /\ Missing(dir[Root], call.name)
      /\ call.dcl = Root \/ (call.dcl = fat[Root] /\ call.dcl \in Clusters /\ Full(dir[Root]))
  BY DEF VolumeInv, ClusterInv, CallInv, CallType, PlaceInv, Placed, Adding, DirRegister, At
<1>2. PICK s \in 1 .. Slots :
        /\ FreeEntry(s) /\ \A t \in 1 .. s - 1 : ~FreeEntry(t)
        /\ PutEntry(s, NewFile(call.name)) /\ call' = [Go("expand") EXCEPT !.slot = s]
  BY DEF DirRegister, Continue
<1>3. /\ call'.pc = "expand" /\ call'.goal = "create" /\ call'.name = call.name
      /\ call'.dcl = call.dcl /\ call'.slot = s
  BY <1>1, <1>2 DEF Go, CallType
<1>4. /\ fat' = fat /\ dir' = [dir EXCEPT ![call.dcl][s] = NewFile(call.name)]
      /\ dir[call.dcl] \in Sector /\ dir \in [Clusters -> Sector]
  BY <1>1, <1>2 DEF PutEntry, VolumeInv, TypeInv, DirTyped
<1>5. /\ dir'[call.dcl][s] = NewFile(call.name)
      /\ \A t \in 1 .. s - 1 : dir'[call.dcl][t] = dir[call.dcl][t]
      /\ call.dcl # Root => dir'[Root] = dir[Root]
  BY <1>1, <1>4, Bounds DEF Sector
<1>6. call.dcl # Root => Open(dir[Root], Slots + 1)
  BY <1>1, FullOpen
<1>7. Missing(dir[call.dcl], call.name)
  BY <1>1, <1>6 DEF Absent
<1>8. Reached(fat', dir', call.name, call.dcl)
  BY <1>1, <1>4, <1>5, <1>6 DEF Reached, Passed
<1>9. IsMatch(dir'[call.dcl], call.name, s)
  BY <1>2, <1>5 DEF IsMatch, Open, FreeEntry, NewFile, IsFile
<1>10. ASSUME NEW t \in 1 .. s - 1
       PROVE  ~IsMatch(dir'[call.dcl], call.name, t)
  <2>1. t \in 1 .. Slots /\ \A r \in 1 .. t - 1 : r \in 1 .. s - 1
    BY Bounds
  <2>2. IsMatch(dir'[call.dcl], call.name, t) => IsMatch(dir[call.dcl], call.name, t)
    BY <1>5, <2>1 DEF IsMatch, Open
  <2> QED
    BY <1>7, <2>1, <2>2 DEF Missing
<1>11. FirstMatch(fat', dir', call.name, call.dcl, s)
  BY <1>8, <1>9, <1>10 DEF FirstMatch
<1> QED
  BY <1>3, <1>5, <1>11 DEF PlaceInv, Placed, Looking, Adding, Added

NotOld == FALSE
FileWith(n, a, b, o) == [kind |-> "file", name |-> n, clust |-> a, len |-> b, old |-> o]
SetFields(n, a, b, o) == [FileWith(n, 0, 0, o) EXCEPT !.clust = a, !.len = b]
NewFileWith(n, a, b) == [NewFile(n) EXCEPT !.clust = a, !.len = b]

LEMMA FieldsSet ==
  ASSUME NEW n, NEW a, NEW b, NEW o
  PROVE  SetFields(n, a, b, o) = FileWith(n, a, b, o)
<1> DEFINE r == [FileWith(n, 0, 0, o) EXCEPT !.clust = a]
<1>1. r = FileWith(n, a, 0, o)
  BY DEF FileWith
<1>2. [FileWith(n, 0, 0, o) EXCEPT !.clust = a, !.len = b] = [r EXCEPT !.len = b]
  OBVIOUS
<1> HIDE DEF r
<1>3. [r EXCEPT !.len = b] = FileWith(n, a, b, o)
  BY <1>1 DEF FileWith
<1> QED
  BY <1>2, <1>3 DEF SetFields

LEMMA NewFileSet ==
  ASSUME NEW n, NEW a, NEW b
  PROVE  NewFileWith(n, a, b) = FileWith(n, a, b, NotOld)
<1>1. NewFile(n) = FileWith(n, 0, 0, NotOld)
  BY Zenon DEF NewFile, FileWith, NotOld
<1>2. NewFileWith(n, a, b) = SetFields(n, a, b, NotOld)
  BY <1>1, Zenon DEF NewFileWith, SetFields
<1> QED
  BY <1>2, FieldsSet, Zenon

LEMMA ClosedPlaced ==
  ASSUME VolumeInv, CloseEntry
  PROVE  /\ PlaceInv'
         /\ dir' = [dir EXCEPT ![call.dcl][call.slot] =
                      IF call.res = "ok" THEN EntryOf(call) ELSE NewFile(call.name)]
<1> DEFINE e == IF call.res = "ok" THEN EntryOf(call) ELSE NewFile(call.name)
<1>1. /\ call \in CallType /\ call.pc = "close" /\ call.dcl \in Clusters /\ call.goal = "create"
      /\ call.slot \in 1 .. Slots
      /\ FirstMatch(fat, dir, call.name, call.dcl, call.slot)
      /\ dir[call.dcl][call.slot] = NewFile(call.name)
  BY DEF VolumeInv, ClusterInv, CallInv, CallType, PlaceInv, Placed, Added, CloseEntry, At
<1>2. /\ call'.pc = "flush" /\ call'.goal = "create" /\ call'.name = call.name /\ call'.res = call.res
      /\ call'.dcl = call.dcl /\ call'.slot = call.slot /\ call'.scl = call.scl /\ call'.len = call.len
  BY <1>1, GoFields DEF CloseEntry, Continue
<1>3. PutEntry(call.slot, e)
  <2>1. PICK a, b : /\ a = (IF call.res = "ok" THEN call.scl ELSE 0) /\ b = (IF call.res = "ok" THEN call.len ELSE 0)
                    /\ PutEntry(call.slot, [dir[call.dcl][call.slot] EXCEPT !.clust = a, !.len = b])
    BY DEF CloseEntry
  <2>2. e = FileWith(call.name, a, b, NotOld)
    <3>1. CASE call.res = "ok"
      <4>1. a = call.scl /\ b = call.len
        BY <2>1, <3>1
      <4> QED
        BY <3>1, <4>1, Zenon DEF EntryOf, FileWith, NotOld
    <3>2. CASE call.res # "ok"
      <4>1. a = 0 /\ b = 0
        BY <2>1, <3>2
      <4> QED
        BY <3>2, <4>1, Zenon DEF NewFile, FileWith, NotOld
    <3> QED
      BY <3>1, <3>2
  <2> HIDE DEF e
  <2>3. NewFileWith(call.name, a, b) = e
    BY <2>2, NewFileSet, Zenon
  <2>4. PutEntry(call.slot, NewFileWith(call.name, a, b))
    BY <1>1, <2>1, Zenon DEF NewFileWith
  <2> QED
    BY <2>3, <2>4, Zenon
<1>4. /\ fat' = fat /\ dir' = [dir EXCEPT ![call.dcl][call.slot] = e]
      /\ dir[call.dcl] \in Sector /\ dir \in [Clusters -> Sector]
  BY <1>1, <1>3 DEF PutEntry, VolumeInv, TypeInv, DirTyped
<1>5. e.kind = "file" /\ e.name = call.name
  BY DEF EntryOf, NewFile
<1>6. EntryOf(call') = EntryOf(call)
  BY <1>2 DEF EntryOf
<1> HIDE DEF e
<1>7. /\ dir'[call.dcl][call.slot] = e
      /\ \A t \in 1 .. call.slot - 1 : dir'[call.dcl][t] = dir[call.dcl][t]
      /\ call.dcl # Root => dir'[Root] = dir[Root]
  BY <1>1, <1>4, Bounds DEF Sector
<1>8. Reached(fat', dir', call.name, call.dcl)
  BY <1>1, <1>4, <1>7 DEF FirstMatch, Reached, Passed
<1>9. IsMatch(dir'[call.dcl], call.name, call.slot)
  BY <1>1, <1>5, <1>7 DEF FirstMatch, IsMatch, Open, IsFile
<1>10. ASSUME NEW t \in 1 .. call.slot - 1
       PROVE  ~IsMatch(dir'[call.dcl], call.name, t)
  <2>1. \A r \in 1 .. t - 1 : r \in 1 .. call.slot - 1
    BY <1>1
  <2>2. IsMatch(dir'[call.dcl], call.name, t) => IsMatch(dir[call.dcl], call.name, t)
    BY <1>7, <2>1 DEF IsMatch, Open
  <2> QED
    BY <1>1, <2>2 DEF FirstMatch
<1>11. FirstMatch(fat', dir', call.name, call.dcl, call.slot)
  BY <1>8, <1>9, <1>10 DEF FirstMatch
<1>12. PlaceInv'
  BY <1>2, <1>6, <1>7, <1>11 DEF PlaceInv, Placed, Looking, Adding, Added, e
<1> QED
  BY <1>4, <1>12 DEF e

LEMMA RemovedPlaced ==
  ASSUME VolumeInv, DirRemove
  PROVE  PlaceInv'
<1>1. call \in CallType /\ call.goal = "unlink"
  BY DEF VolumeInv, ClusterInv, CallInv, PlaceInv, Placed, Looking, DirRemove, At
<1>2. call'.pc = "flush" /\ call'.goal = "unlink"
  BY <1>1, GoFields DEF DirRemove, Continue
<1> QED
  BY <1>2 DEF PlaceInv, Placed, Looking, Adding, Added

LEMMA ZeroPlaced ==
  ASSUME VolumeInv, Zeroing
  PROVE  PlaceInv'
<1>1. /\ call \in CallType /\ call.pc = "zero" /\ call.goal = "create"
      /\ Missing(dir[Root], call.name) /\ Full(dir[Root])
  BY DEF Zeroing, DirZero, DirZeroFails, ZeroWith, At, VolumeInv, ClusterInv, CallInv, PlaceInv, Placed, Adding
<1>2. CASE DirZeroFails
  BY <1>1, <1>2, FailReturns, NoCallPlaced DEF DirZeroFails, PlaceInv
<1>3. CASE DirZero
  <2>1. /\ call'.pc = "register" /\ call'.goal = "create" /\ call'.name = call.name /\ call'.dcl = call.ncl
    BY <1>1, <1>3 DEF DirZero, Continue, Go, CallType
  <2>2. /\ call.ncl \in Clusters /\ call.ncl # Root /\ fat'[Root] = call.ncl
        /\ dir' = [ddir EXCEPT ![call.ncl] = Cleared] /\ dir = ddir
    BY ZeroWhere
  <2>3. dir'[Root] = dir[Root] /\ dir'[call.ncl] = Cleared
    BY <2>2, Bounds DEF VolumeInv, TypeInv, DirTyped
  <2>4. Absent(fat', dir', call.name)
    BY <1>1, <2>2, <2>3, ClearedMissing DEF Absent
  <2>5. Placed(fat', dir', call')
    BY <1>1, <2>1, <2>2, <2>3, <2>4, RegisterPlaced
  <2> QED
    BY <2>5 DEF PlaceInv
<1> QED
  BY <1>2, <1>3 DEF Zeroing

LEMMA RestartPlaced ==
  ASSUME VolumeInv, MountVolume \/ MountNoInfo \/ MountFails \/ Kill \/ PowerLoss
  PROVE  PlaceInv'
<1>1. CASE call' = NoCall
  BY <1>1, NoCallPlaced DEF PlaceInv
<1>2. CASE MountVolume \/ MountNoInfo
  <2>1. call.pc = "mount" /\ call' = Go("follow") /\ call \in CallType
    BY <1>2 DEF MountVolume, MountNoInfo, MountWith, At, Continue, VolumeInv, ClusterInv, CallInv
  <2>2. call'.pc = "follow" /\ call'.goal = call.goal
    BY <2>1, GoFields
  <2>3. call.goal \in {"create", "exists", "free"}
    BY <2>1 DEF VolumeInv, PlaceInv, Placed, Looking
  <2> QED
    BY <2>2, <2>3, PlainPlaced DEF PlaceInv
<1> QED
  BY <1>1, <1>2, FailReturns DEF MountFails, Kill, PowerLoss, Restart, At

LEMMA PlaceStep ==
  ASSUME VolumeInv, [Next]_vars
  PROVE  PlaceInv'
<1>1. call \in CallType /\ call' \in CallType /\ ClusterInv /\ TypeInv
  BY ClusterStep DEF VolumeInv, ClusterInv, CallInv
<1>2. CASE UNCHANGED vars
  BY <1>2 DEF vars, window, VolumeInv, PlaceInv
<1>3. CASE Calls
  BY <1>1, <1>3, CallKinds, BeginPlaced, PlaceKept DEF Still, window
<1>4. CASE FollowPath \/ DirFind \/ DirFindNot \/ DirNext \/ DirFull \/ DirStretch \/ ProbeHint \/ ChainNext
             \/ ExpandStart \/ Search
  <2>1. Still
    BY <1>4 DEF FollowPath, DirFind, DirFindNot, DirNext, DirFull, DirStretch, ProbeHint, ChainNext,
       ExpandStart, Search, InMemory, Still
  <2> QED
    BY <1>1, <1>4, <2>1, PlaceKept, FollowPlaced, DirFindPlaced, DirFindNotPlaced, DirNextPlaced,
       StretchPlaced, SearchPlaced DEF Still, window
<1>5. CASE MoveWindow
  <2>1. Syncing /\ call' = call
    BY <1>1, <1>5, TargetIn DEF MoveWindow, Syncing, Fresh
  <2> QED
    BY <1>1, <2>1, PlaceKept DEF VolumeInv, PlaceInv
<1>6. CASE DirClear \/ Flush
  <2>1. Syncing /\ UNCHANGED dir
    BY <1>6 DEF DirClear, Flush, Syncing
  <2> QED
    BY <1>1, <1>6, <2>1, PlaceKept, FlushPlaced
<1>7. CASE WriteInfo \/ WriteInfoFails
  <2>1. Rereading /\ call.pc = "info"
    BY <1>7 DEF WriteInfo, WriteInfoFails, InfoWith, Rereading, Fresh, Sectors, At
  <2>2. dirty = FALSE
    BY <2>1 DEF VolumeInv, WindowInv, DirWindow, TypeInv, InfoTyped
  <2>3. ~Started
    BY <2>1 DEF Started, Idle
  <2> QED
    BY <1>1, <1>7, <2>1, <2>2, <2>3, PlaceKept, FlushPlaced
<1>8. CASE AllocPastEnd \/ WriteFails \/ FlushFails
  <2>1. Still /\ Fail /\ UNCHANGED dir
    BY <1>8 DEF AllocPastEnd, WriteFails, FlushFails, Still, window
  <2> QED
    BY <1>1, <2>1, PlaceKept, FailPlaced
<1>9. CASE ReadFails
  <2>1. Syncing /\ Fail
    BY <1>9 DEF ReadFails, Syncing, Fresh, Sectors
  <2>2. Started => call' = NoCall
    BY <1>9, <2>1 DEF Started, Fail, Return, ReadFails, Accessing, At, Idle
  <2> QED
    BY <1>1, <2>1, <2>2, PlaceKept, FailPlaced
<1>10. CASE SyncFs \/ SyncFsFails
  <2>1. (Settling \/ Still) /\ UNCHANGED dir
    BY <1>10 DEF SyncFs, SyncFsFails, Settling, Still, window
  <2> QED
    BY <1>1, <1>10, <2>1, PlaceKept, SyncFsPlaced
<1>11. CASE CountSector
  <2>1. Still /\ UNCHANGED dir
    BY <1>11 DEF CountSector, Still, window
  <2>2. call' = NoCall \/ call'.pc = "count"
    BY <1>1, <1>11 DEF CountSector, ReturnFree, Continue, At, CallType
  <2>3. Placed(fat, dir, call')
    BY <2>2, NoCallPlaced, PlainPlaced
  <2> QED
    BY <1>1, <2>1, <2>3, PlaceKept
<1>12. CASE TakeCluster \/ LinkCluster \/ Alloc
  BY <1>12, PutPlaced DEF Putting, TakeCluster, LinkCluster, Alloc
<1>13. CASE Works
  BY <1>4, <1>5, <1>6, <1>7, <1>8, <1>10, <1>11, <1>12, <1>13, RegisteredPlaced, ClosedPlaced,
     RemovedPlaced, ZeroPlaced, RestartPlaced DEF Works, Zeroing
<1>14. CASE Fails
  BY <1>7, <1>8, <1>9, <1>10, <1>14, ZeroPlaced, RestartPlaced DEF Fails, Zeroing
<1> QED
  BY <1>2, <1>3, <1>13, <1>14, RestartPlaced DEF Next

LEMMA RootStart ==
  ASSUME Init
  PROVE  \E v \in Volumes : /\ dfat = v.fat /\ fat = v.fat /\ v.fat[Root] = EOC /\ Sound(v)
                            /\ ddir = [v.old EXCEPT ![Root] = v.dir] /\ dir = ddir
                            /\ v.old \in [Clusters -> Sector] /\ \A c \in Clusters : Blanked(v.old[c])
                            /\ promised = {v.dir[s] : s \in {t \in 1 .. Slots : IsFile(v.dir[t])}}
                            /\ v.dir \in Sector
BY VolumeAssumption DEF Init, VolumeAssumption, Sound, Sector, Blanked

LEMMA VolumeInit == Init => VolumeInv
<1> SUFFICES ASSUME Init PROVE VolumeInv
  OBVIOUS
<1>1. ClusterInv /\ TypeInv
  BY ClusterInit, TypeInit
<1>2. call = NoCall /\ win = NoSec /\ fat = dfat /\ dir = ddir /\ dirty = FALSE
  BY DEF Init
<1>4. Unlinked(dfat, ddir)
  BY RootStart, Bounds DEF Unlinked, Linked
<1>5. WindowInv
  BY <1>2, <1>4, SimilarSelf DEF WindowInv, DirWindow, NewCluster, NoCall, Idle
<1>6. PlaceInv
  BY <1>2, NoCallPlaced DEF PlaceInv
<1> QED
  BY <1>1, <1>5, <1>6 DEF VolumeInv

LEMMA VolumeStep ==
  ASSUME VolumeInv, [Next]_vars
  PROVE  VolumeInv'
BY ClusterStep, TypeStep, WindowStep, PlaceStep DEF VolumeInv

LEMMA VolumeAlways == Spec => []VolumeInv
<1>1. VolumeInv /\ [Next]_vars => VolumeInv'
  BY VolumeStep
<1> QED
  BY <1>1, VolumeInit, PTL DEF Spec

(* TypeOK: the volume, what the library remembers of it and the window are *)
(* what fat.cpp declares them to be, the free count and the hint in range; *)
(* and f_unlink only ever removes an entry that names no cluster, which is *)
(* why it need not give a chain back.                                      *)
THEOREM FatTypeCorrect == Spec => []TypeOK
<1>1. VolumeInv => TypeOK
  BY DEF VolumeInv, TypeInv, FatTyped, DirTyped, InfoTyped, Sector, Infos, PlaceInv, Placed, Looking, EmptyAt,
     TypeOK, At
<1> QED
  BY <1>1, VolumeAlways, PTL

-----------------------------------------------------------------------------
(* Part 3: the areas.  What is said of a file: its entry is the one that a *)
(* search for its name comes to, its chain is in the FAT, and no other file *)
(* has its name or a cluster of its area.  What an uncleared cluster lists *)
(* is no file.                                                             *)
Alone(d, c, s) ==
  \A b \in Clusters, t \in 1 .. Slots :
    Own(d[b][t]) /\ (b # c \/ t # s) => d[b][t].name # d[c][s].name /\ Area(d[b][t]) \cap Area(d[c][s]) = {}
Good(f, d) ==
  /\ \A c \in Linked(f) : f[c] # 0
  /\ \A c \in Clusters, s \in 1 .. Slots : Own(d[c][s]) =>
       /\ Chained(f, d[c][s]) /\ Area(d[c][s]) \cap Linked(f) = {}
       /\ Comes(d, d[c][s].name, c, s) /\ Alone(d, c, s)
(* A cluster that neither the directory nor a file has.                    *)
Unowned(f, d, x) ==
  x \notin Linked(f) /\ \A c \in Clusters, s \in 1 .. Slots : Own(d[c][s]) => x \notin Area(d[c][s])

LEMMA SimilarFiles ==
  ASSUME NEW d, NEW g, Similar(d, g), NEW c \in Clusters, NEW s \in 1 .. Slots, Own(g[c][s])
  PROVE  g[c] = d[c] /\ Own(d[c][s])
BY DEF Similar, Blanked

LEMMA SimilarGood ==
  ASSUME NEW f, NEW d, NEW g, Good(f, d), Similar(d, g)
  PROVE  Good(f, g)
<1>1. g[Root] = d[Root]
  BY SimilarRoot
<1>2. ASSUME NEW c \in Clusters, NEW s \in 1 .. Slots, Own(g[c][s])
      PROVE  /\ Chained(f, g[c][s]) /\ Area(g[c][s]) \cap Linked(f) = {}
             /\ Comes(g, g[c][s].name, c, s) /\ Alone(g, c, s)
  <2>1. /\ g[c] = d[c] /\ Chained(f, d[c][s]) /\ Area(d[c][s]) \cap Linked(f) = {}
        /\ Comes(d, d[c][s].name, c, s) /\ Alone(d, c, s)
    BY <1>2, SimilarFiles DEF Good
  <2>2. Alone(g, c, s)
    BY <2>1, SimilarFiles DEF Alone
  <2> QED
    BY <1>1, <2>1, <2>2 DEF Comes
<1> QED
  BY <1>2 DEF Good

LEMMA SimilarUnowned ==
  ASSUME NEW f, NEW d, NEW g, NEW x, Unowned(f, d, x), Similar(d, g)
  PROVE  Unowned(f, g, x)
BY SimilarFiles DEF Unowned

(* The clusters of a chain are in use.                                     *)
LEMMA ChainUsed ==
  ASSUME NEW f, NEW e, Chained(f, e), NEW c \in Area(e)
  PROVE  c \in Clusters /\ f[c] # 0
<1>1. c \in Clusters /\ c \in Nat
  BY Bounds DEF Area
<1>2. f[c] = EOC \/ f[c] = c + 1
  BY DEF Chained
<1> QED
  BY <1>1, <1>2, Bounds

(* A free cluster that is taken belongs to nobody.                         *)
LEMMA PutGood ==
  ASSUME NEW f \in [Clusters -> 0 .. N + 1], NEW d, Good(f, d), NEW x \in Clusters, f[x] = 0, NEW v, v # 0,
         NEW g, g = [f EXCEPT ![x] = v]
  PROVE  Good(g, d) /\ Unowned(g, d, x)
<1>1. x # Root /\ x \notin Linked(f)
  BY Bounds DEF Good, Linked
<1>2. Linked(g) = Linked(f) /\ \A c \in Clusters : c # x => g[c] = f[c]
  BY <1>1, Bounds DEF Linked
<1>3. ASSUME NEW c \in Clusters, NEW s \in 1 .. Slots, Own(d[c][s])
      PROVE  Chained(g, d[c][s]) /\ x \notin Area(d[c][s])
  <2>1. Chained(f, d[c][s])
    BY <1>3 DEF Good
  <2>2. x \notin Area(d[c][s])
    BY <2>1, ChainUsed
  <2>3. \A y \in Area(d[c][s]) : g[y] = f[y]
    BY <1>2, <2>2 DEF Area
  <2> QED
    BY <2>1, <2>2, <2>3 DEF Chained
<1>4. \A c \in Linked(g) : g[c] # 0
  BY <1>1, <1>2, Bounds DEF Good, Linked
<1> QED
  BY <1>1, <1>2, <1>3, <1>4 DEF Good, Unowned

(* The directory is stretched by a cluster that belongs to nobody.         *)
LEMMA LinkGood ==
  ASSUME NEW f \in [Clusters -> 0 .. N + 1], NEW d, Good(f, d), NEW x \in Clusters, f[x] # 0, Unowned(f, d, x),
         NEW g, g = [f EXCEPT ![Root] = x]
  PROVE  Good(g, d)
<1>1. x # Root
  BY DEF Unowned, Linked
<1>2. g[Root] = x /\ Linked(g) = {Root, x} /\ \A c \in Clusters : c # Root => g[c] = f[c]
  BY <1>1, Bounds DEF Linked
<1>3. ASSUME NEW c \in Clusters, NEW s \in 1 .. Slots, Own(d[c][s])
      PROVE  Chained(g, d[c][s]) /\ Area(d[c][s]) \cap Linked(g) = {}
  <2>1. Chained(f, d[c][s]) /\ Area(d[c][s]) \cap Linked(f) = {} /\ x \notin Area(d[c][s])
    BY <1>3 DEF Good, Unowned
  <2>2. Root \notin Area(d[c][s])
    BY <2>1 DEF Linked
  <2>3. \A y \in Area(d[c][s]) : g[y] = f[y]
    BY <1>2, <2>2 DEF Area
  <2> QED
    BY <1>2, <2>1, <2>2, <2>3 DEF Chained
<1>4. \A c \in Linked(g) : g[c] # 0
  BY <1>1, <1>2, Bounds
<1> QED
  BY <1>3, <1>4 DEF Good

(* An entry is written: of a file of its own, or of none.                  *)
Fits(f, d, c, s, e) ==
  /\ Chained(f, e) /\ Area(e) \cap Linked(f) = {} /\ Comes(d, e.name, c, s) /\ ~e.old
  /\ \A b \in Clusters, t \in 1 .. Slots :
       Own(d[b][t]) /\ (b # c \/ t # s) => d[b][t].name # e.name /\ Area(d[b][t]) \cap Area(e) = {}

LEMMA EnterGood ==
  ASSUME NEW f, NEW d \in [Clusters -> Sector], Good(f, d), NEW c \in Clusters, NEW s \in 1 .. Slots,
         NEW e \in Entries, e.kind # "end", NEW g, g = [d EXCEPT ![c][s] = e],
         IsFile(e) => Fits(f, d, c, s, e)
  PROVE  Good(f, g)
<1>1. /\ g[c][s] = e
      /\ \A b \in Clusters, t \in 1 .. Slots : (b # c \/ t # s) => g[b][t] = d[b][t]
  BY DEF Sector
<1>2. \A b \in Clusters, t \in 1 .. Slots : d[b][t].kind # "end" => g[b][t].kind # "end"
  BY <1>1
<1>3. ASSUME NEW b \in Clusters, NEW t \in 1 .. Slots, NEW n, Comes(d, n, b, t),
             IsFile(e) /\ e.name = n => b = c /\ t = s
      PROVE  Comes(g, n, b, t)
  <2>1. \A r \in 1 .. t - 1 : r \in 1 .. Slots /\ r # t
    BY Bounds
  <2>2. 1 .. (Slots + 1) - 1 = 1 .. Slots
    BY Bounds
  <2>3. ASSUME NEW r \in 1 .. t - 1
        PROVE  g[b][r].kind # "end" /\ ~(IsFile(g[b][r]) /\ g[b][r].name = n)
    BY <1>1, <1>3, <2>1, <2>3 DEF Comes, Passes
  <2>4. ASSUME b # Root, NEW r \in 1 .. Slots
        PROVE  g[Root][r].kind # "end" /\ ~(IsFile(g[Root][r]) /\ g[Root][r].name = n)
    <3>1. /\ d[Root][r].kind # "end" /\ ~(IsFile(d[Root][r]) /\ d[Root][r].name = n)
          /\ Root \in Clusters /\ r \in 1 .. Slots
      BY <1>3, <2>2, <2>4, Bounds DEF Comes, Passes
    <3>2. CASE Root = c /\ r = s
      <4>1. g[Root][r] = e /\ e.kind # "end" /\ b # c
        BY <1>1, <2>4, <3>2
      <4>2. ~(IsFile(e) /\ e.name = n)
        BY <1>3, <4>1
      <4> QED
        BY <4>1, <4>2
    <3>3. CASE Root # c \/ r # s
      BY <1>1, <3>1, <3>3
    <3> QED
      BY <3>2, <3>3
  <2>5. Passes(g[b], n, t)
    BY <2>3 DEF Passes
  <2>6. b # Root => Passes(g[Root], n, Slots + 1)
    BY <2>2, <2>4 DEF Passes
  <2> QED
    BY <2>5, <2>6 DEF Comes
<1>4. ASSUME NEW b \in Clusters, NEW t \in 1 .. Slots, Own(g[b][t])
      PROVE  /\ Chained(f, g[b][t]) /\ Area(g[b][t]) \cap Linked(f) = {}
             /\ Comes(g, g[b][t].name, b, t) /\ Alone(g, b, t)
  <2>1. CASE b = c /\ t = s
    <3>1. g[b][t] = e /\ IsFile(e) /\ Comes(g, e.name, b, t) /\ Chained(f, e) /\ Area(e) \cap Linked(f) = {}
      BY <1>1, <1>3, <1>4, <2>1 DEF Fits, Own
    <3>2. \A a \in Clusters, r \in 1 .. Slots : (a # b \/ r # t) =>
            /\ g[a][r] = d[a][r]
            /\ Own(d[a][r]) => d[a][r].name # e.name /\ Area(d[a][r]) \cap Area(e) = {}
      BY <1>1, <2>1, <3>1 DEF Fits
    <3> QED
      BY <3>1, <3>2 DEF Alone
  <2>2. CASE b # c \/ t # s
    <3>1. /\ g[b][t] = d[b][t] /\ Chained(f, d[b][t]) /\ Area(d[b][t]) \cap Linked(f) = {}
          /\ Comes(d, d[b][t].name, b, t) /\ Alone(d, b, t) /\ Own(d[b][t])
      BY <1>1, <1>4, <2>2 DEF Good
    <3>2. Alone(g, b, t)
      <4>1. ASSUME NEW a \in Clusters, NEW r \in 1 .. Slots, Own(g[a][r]), a # b \/ r # t
            PROVE  g[a][r].name # g[b][t].name /\ Area(g[a][r]) \cap Area(g[b][t]) = {}
        <5>1. CASE a = c /\ r = s
          BY <1>1, <1>4, <2>2, <3>1, <4>1, <5>1 DEF Fits, Own
        <5>2. CASE a # c \/ r # s
          BY <1>1, <3>1, <4>1, <5>2 DEF Alone
        <5> QED
          BY <5>1, <5>2
      <4> QED
        BY <4>1 DEF Alone
    <3>3. IsFile(e) => e.name # d[b][t].name
      BY <2>2, <3>1 DEF Fits
    <3> QED
      BY <1>3, <3>1, <3>2, <3>3
  <2> QED
    BY <2>1, <2>2
<1> QED
  BY <1>4 DEF Good

(* A name a search does not find is no file's.                             *)
LEMMA AbsentNames ==
  ASSUME NEW f, NEW d, NEW n, Absent(f, d, n), Unlinked(f, d), NEW c \in Clusters, NEW s \in 1 .. Slots,
         Own(d[c][s]), Comes(d, d[c][s].name, c, s)
  PROVE  d[c][s].name # n
<1>1. c \in Linked(f)
  BY DEF Unlinked, Blanked
<1>2. IsFile(d[c][s]) /\ Open(d[c], s) /\ (c # Root => Open(d[Root], Slots + 1))
  BY DEF Own, Comes, Passes, Open
<1>3. CASE c = Root
  BY <1>2, <1>3 DEF Absent, Missing, IsMatch
<1>4. CASE c # Root
  <2>1. c = f[Root] /\ f[Root] \in Clusters
    BY <1>1, <1>4 DEF Linked
  <2> QED
    BY <1>2, <1>4, <2>1 DEF Absent, Missing, IsMatch
<1> QED
  BY <1>3, <1>4

-----------------------------------------------------------------------------
(* The area a call allocates: chained up to where it has come, and, as     *)
(* long as no power loss has brought back what was there before, nobody    *)
(* else's; so is the cluster it stretches the directory by.                *)
Built(f, k) ==
  /\ k.pc = "alloc" => \A c \in Clusters : k.scl <= c /\ c < k.clst => f[c] = c + 1 /\ c # Root
  /\ k.res = "ok" /\ (k.pc = "close" \/ (k.goal = "create" /\ k.pc \in {"flush", "info", "syncfs"})) =>
       Chained(f, EntryOf(k)) /\ Root \notin Area(EntryOf(k))
Reserved(f, d, k) ==
  /\ k.pc = "link" => Unowned(f, d, k.ncl)
  /\ k.pc = "alloc" => \A c \in Clusters : k.scl <= c /\ c < k.clst => Unowned(f, d, c)
  /\ k.pc = "close" /\ k.res = "ok" => \A c \in Area(EntryOf(k)) : Unowned(f, d, c)
GoodInv == losses = 0 => Good(fat, dir) /\ Good(dfat, ddir) /\ Reserved(fat, dir, call)
FilesInv == VolumeInv /\ Counted /\ Built(fat, call) /\ GoodInv

LEMMA PlainBuilt ==
  ASSUME NEW f, NEW d, NEW k, k.pc \notin {"link", "alloc", "close", "flush", "info", "syncfs"}
  PROVE  Built(f, k) /\ Reserved(f, d, k)
BY DEF Built, Reserved

(* Where a call that allocates, or closes what it has allocated, comes     *)
(* from.                                                                   *)
LEMMA MakingCalls ==
  ASSUME VolumeInv, [Next]_vars, call'.pc \in {"alloc", "flush"} \/ (call'.pc = "close" /\ call'.res = "ok")
  PROVE  \/ UNCHANGED vars
         \/ MoveWindow /\ UNCHANGED call
         \/ Search /\ RunLength = call.len /\ call' = [Go("alloc") EXCEPT !.clst = RunStart, !.left = call.len]
         \/ Alloc
         \/ (CloseEntry \/ DirRemove) /\ call' = Go("flush")
<1>0. call \in CallType
  BY DEF VolumeInv, ClusterInv, CallInv
<1>1. CASE call' = NoCall
  BY <1>1 DEF NoCall, Idle
<1>2. CASE Fail
  <2>1. CASE call' = [call EXCEPT !.pc = "close", !.res = "nospace"]
    BY <1>0, <2>1 DEF CallType
  <2>2. CASE call' = [call EXCEPT !.pc = "find", !.goal = "unlink", !.dcl = Root]
    BY <1>0, <2>2 DEF CallType
  <2> QED
    BY <1>1, <1>2, <2>1, <2>2 DEF Fail, Continue, Return
<1>3. CASE Calls
  <2>1. ASSUME NEW goal, NEW n, NEW l, Begin(goal, n, l)
        PROVE  FALSE
    <3>1. CASE vol = "none"
      BY <1>1, <2>1, <3>1 DEF Begin, Return, NoCall, Idle
    <3>2. CASE vol # "none"
      <4>1. PICK pc \in {"follow", "mount"} :
              call' = [NoCall EXCEPT !.pc = pc, !.goal = goal, !.name = n, !.len = l]
        BY <2>1, <3>2 DEF Begin
      <4> QED
        BY <4>1 DEF NoCall
    <3> QED
      BY <3>1, <3>2
  <2>2. CASE FatMount \/ FatUmount
    BY <2>2 DEF FatMount, FatUmount, At, Idle
  <2> QED
    BY <1>3, <2>1, <2>2 DEF Calls, FatGetFreeSpace, FatFileExists, FatFileCreate
<1>4. CASE Works
  <2>1. CASE MoveWindow \/ Alloc \/ CloseEntry \/ DirRemove
    BY <2>1 DEF MoveWindow, CloseEntry, DirRemove, Continue
  <2>2. CASE FollowPath \/ DirFind \/ DirFindNot \/ DirNext
    <3>1. call' = NoCall \/ call'.pc \in {"count", "find", "findnext", "register", "remove"}
      BY <1>0, <2>2 DEF FollowPath, DirFind, DirFindNot, DirNext, NotFound, Return, ReturnFree, Continue, Go,
         CallType
    <3> QED
      BY <1>1, <3>1
  <2>3. CASE DirRegister \/ DirFull \/ DirStretch \/ ProbeHint \/ ChainNext \/ DirZero \/ MountVolume
    <3>1. call' = NoCall \/ call'.pc \in {"expand", "regnext", "register", "probe", "chain", "follow"}
      BY <1>0, <2>3 DEF DirRegister, DirFull, DirStretch, ProbeHint, ChainNext, DirZero, MountVolume, MountWith,
         Return, Continue, Go, CallType, At
    <3> QED
      BY <1>1, <3>1
  <2>4. CASE TakeCluster \/ LinkCluster \/ DirClear \/ Flush \/ WriteInfo
    <3>1. call'.pc \in {"link", "clear", "zero", "info", "syncfs"}
      BY <1>0, <2>4 DEF TakeCluster, LinkCluster, DirClear, Flush, WriteInfo, InfoWith, Continue, Go, CallType
    <3> QED
      BY <3>1
  <2>5. CASE ExpandStart
    <3>1. call'.pc = "search" \/ (call'.pc = "close" /\ call'.res = "nospace")
      BY <1>0, <2>5 DEF ExpandStart, Continue, Go, CallType
    <3> QED
      BY <3>1
  <2>6. CASE Search
    <3>1. CASE call' = [Go("close") EXCEPT !.res = "nospace"]
      BY <1>0, <3>1 DEF Go, CallType
    <3>2. CASE call' = [call EXCEPT !.clst = Next1(call.clst), !.scl = RunStart, !.ncl = RunLength]
      BY <1>0, <2>6, <3>2, SearchGoes DEF CallType
    <3> QED
      BY <2>6, <3>1, <3>2, SearchGoes
  <2>7. CASE SyncFs
    <3>1. call' = NoCall \/ call' = [call EXCEPT !.pc = "find", !.goal = "unlink", !.dcl = Root]
      BY <2>7 DEF SyncFs, AfterSync, Return, Continue
    <3> QED
      BY <1>0, <1>1, <3>1 DEF CallType
  <2>8. CASE CountSector
    <3>1. PICK c, k : call.pc = "count" /\ (call' = NoCall \/ call' = [call EXCEPT !.clst = c, !.ncl = k])
      BY <2>8 DEF CountSector, ReturnFree, Continue, At
    <3> QED
      BY <1>0, <1>1, <3>1 DEF CallType
  <2> QED
    BY <1>2, <1>4, <2>1, <2>2, <2>3, <2>4, <2>5, <2>6, <2>7, <2>8 DEF Works, AllocPastEnd
<1>5. CASE Fails
  <2>1. CASE MountNoInfo \/ SyncFsFails
    <3>1. CASE call' = Go("follow")
      BY <1>0, <3>1 DEF Go, CallType
    <3>2. CASE call' = [call EXCEPT !.pc = "find", !.goal = "unlink", !.dcl = Root]
      BY <1>0, <3>2 DEF CallType
    <3> QED
      BY <1>1, <2>1, <3>1, <3>2 DEF MountNoInfo, MountWith, SyncFsFails, AfterSync, Return, Continue
  <2>2. CASE WriteInfoFails
    <3>1. call'.pc = "syncfs"
      BY <1>0, <2>2 DEF WriteInfoFails, InfoWith, Continue, Go, CallType
    <3> QED
      BY <3>1
  <2> QED
    BY <1>2, <1>5, <2>1, <2>2 DEF Fails, WriteFails, ReadFails, MountFails, DirZeroFails, FlushFails
<1>6. CASE Kill \/ PowerLoss
  BY <1>1, <1>6 DEF Kill, PowerLoss, Restart
<1> QED
  BY <1>3, <1>4, <1>5, <1>6 DEF Next

(* One turn of the allocation.                                             *)
LEMMA AllocGoes ==
  ASSUME VolumeInv, Alloc
  PROVE  /\ call \in CallType /\ call.pc = "alloc" /\ call.clst \in Clusters /\ fat[call.clst] = 0
         /\ call.clst # Root /\ call.left \in Nat /\ call.left # 0 /\ call.clst + call.left = call.scl + call.len
         /\ fat' = [fat EXCEPT ![call.clst] = IF call.left = 1 THEN EOC ELSE call.clst + 1]
         /\ call'.scl = call.scl /\ call'.len = call.len
         /\ \/ call.left = 1 /\ call'.pc = "close"
            \/ call.left # 1 /\ call'.pc = "alloc" /\ call'.clst = call.clst + 1
<1>1. call \in CallType /\ call.pc = "alloc" /\ call.clst < N
  BY DEF Alloc, At, VolumeInv, ClusterInv, CallInv
<1>2. /\ call.clst >= 2 /\ call.left # 0 /\ call.left \in Nat /\ call.clst \in Nat
      /\ FreeFrom(call.clst, call.clst + call.left)
  BY <1>1 DEF VolumeInv, ClusterInv, CallInv, Allocating, At, CallType
<1>3. call.clst \in Clusters
  BY <1>1, <1>2, Bounds DEF Clusters
<1>4. fat[call.clst] = 0
  BY <1>2, <1>3 DEF FreeFrom
<1>5. call.clst # Root
  <2>1. fat[Root] \in RootEntries
    BY DEF VolumeInv, ClusterInv, FatInv, Tables
  <2> QED
    BY <1>4, <2>1, Bounds DEF RootEntries
<1>6. call.clst + call.left = call.scl + call.len
  BY <1>1 DEF VolumeInv, TypeInv, Fitting, At
<1>7. fat' = [fat EXCEPT ![call.clst] = IF call.left = 1 THEN EOC ELSE call.clst + 1]
  BY DEF Alloc, PutFat
<1>8. CASE call.left = 1
  BY <1>1, <1>2, <1>3, <1>4, <1>5, <1>6, <1>7, <1>8, GoFields DEF Alloc, Continue
<1>9. CASE call.left # 1
  <2>1. call' = [call EXCEPT !.clst = @ + 1, !.left = @ - 1]
    BY <1>9 DEF Alloc, Continue
  <2>2. call'.pc = "alloc" /\ call'.clst = call.clst + 1 /\ call'.scl = call.scl /\ call'.len = call.len
    BY <1>1, <2>1 DEF CallType
  <2> QED
    BY <1>1, <1>2, <1>3, <1>4, <1>5, <1>6, <1>7, <1>9, <2>2
<1> QED
  BY <1>8, <1>9

LEMMA SearchFound ==
  ASSUME VolumeInv, Search, RunLength = call.len, call' = [Go("alloc") EXCEPT !.clst = RunStart, !.left = call.len]
  PROVE  call'.pc = "alloc" /\ call'.scl = call.scl /\ call'.clst = call.scl /\ fat' = fat /\ dir' = dir
<1>1. call \in CallType /\ call.pc = "search"
  BY SearchGoes DEF VolumeInv, ClusterInv, CallInv
<1>2. call'.pc = "alloc" /\ call'.scl = call.scl /\ call'.clst = RunStart
  BY <1>1 DEF Go, CallType
<1>3. call.len # 0
  BY <1>1 DEF VolumeInv, ClusterInv, CallInv, Searching, At
<1>4. RunStart = call.scl
  BY <1>3 DEF RunStart, RunLength
<1> QED
  BY <1>2, <1>4 DEF Search, InMemory, window

LEMMA MovedView ==
  ASSUME VolumeInv, MoveWindow
  PROVE  fat' = fat /\ dfat' = fat /\ Similar(dir, dir') /\ Similar(dir, ddir')
<1>1. Syncing
  BY TargetIn DEF MoveWindow, Syncing, Fresh, VolumeInv
<1> QED
  BY <1>1, SyncingView

(* The last turn of the allocation completes the chain.                    *)
LEMMA AllocBuilt ==
  ASSUME VolumeInv, Built(fat, call), Alloc
  PROVE  Built(fat', call')
<1>1. /\ call \in CallType /\ call.pc = "alloc" /\ call.clst \in Clusters /\ call.clst # Root
      /\ call.left \in Nat /\ call.left # 0 /\ call.clst + call.left = call.scl + call.len
      /\ fat' = [fat EXCEPT ![call.clst] = IF call.left = 1 THEN EOC ELSE call.clst + 1]
      /\ call'.scl = call.scl /\ call'.len = call.len
      /\ fat \in [Clusters -> 0 .. N + 1]
  BY AllocGoes DEF VolumeInv, TypeInv, FatTyped
<1>2. call.scl \in Nat /\ call.len \in Nat /\ call.clst \in Nat
  BY <1>1 DEF CallType
<1>3. \A c \in Clusters : call.scl <= c /\ c < call.clst => fat[c] = c + 1 /\ c # Root
  BY <1>1 DEF Built
<1>4. \A c \in Clusters : call.scl <= c /\ c < call.clst => fat'[c] = c + 1 /\ c # Root
  BY <1>1, <1>2, <1>3, Bounds
<1>5. CASE call.left # 1
  <2>1. call'.pc = "alloc" /\ call'.clst = call.clst + 1 /\ fat'[call.clst] = call.clst + 1
    BY <1>1, <1>5, AllocGoes
  <2>2. ASSUME NEW c \in Clusters, call'.scl <= c, c < call'.clst
        PROVE  fat'[c] = c + 1 /\ c # Root
    <3>1. c \in Nat /\ (c = call.clst \/ c < call.clst)
      BY <1>2, <2>1, <2>2, Bounds
    <3> QED
      BY <1>1, <1>4, <2>1, <2>2, <3>1
  <2> QED
    BY <2>1, <2>2 DEF Built
<1>6. CASE call.left = 1
  <2>1. call'.pc = "close" /\ fat'[call.clst] = EOC /\ call.scl + call.len = call.clst + 1
    BY <1>1, <1>2, <1>6, AllocGoes
  <2>2. EntryOf(call').clust = call.scl /\ EntryOf(call').len = call.len
    BY <1>1 DEF EntryOf
  <2>3. ASSUME NEW c \in Area(EntryOf(call'))
        PROVE  fat'[c] = (IF c + 1 = call.scl + call.len THEN EOC ELSE c + 1) /\ c # Root
    <3>1. c \in Clusters /\ c \in Nat /\ call.scl <= c /\ c < call.scl + call.len
      BY <2>2, Bounds DEF Area
    <3>2. CASE c = call.clst
      BY <1>1, <2>1, <3>2
    <3>3. CASE c # call.clst
      BY <1>2, <1>4, <2>1, <3>1, <3>3
    <3> QED
      BY <3>2, <3>3
  <2>4. Chained(fat', EntryOf(call'))
    BY <2>2, <2>3 DEF Chained
  <2>5. Root \notin Area(EntryOf(call'))
    BY <2>3
  <2> QED
    BY <2>1, <2>4, <2>5 DEF Built
<1> QED
  BY <1>5, <1>6

LEMMA BuiltStep ==
  ASSUME VolumeInv, Built(fat, call), [Next]_vars
  PROVE  Built(fat', call')
<1>0. call \in CallType
  BY DEF VolumeInv, ClusterInv, CallInv
<1>1. CASE call'.pc \notin {"alloc", "close", "flush", "info", "syncfs"} \/ (call'.pc = "close" /\ call'.res # "ok")
  BY <1>1 DEF Built
<1>2. CASE UNCHANGED vars
  BY <1>2 DEF vars, window
<1>3. CASE MoveWindow /\ UNCHANGED call
  BY <1>3, MovedView
<1>4. CASE /\ fat' = fat /\ call.pc \in {"close", "flush", "info"}
           /\ \E pc \in {"flush", "info", "syncfs"} : call' = Go(pc)
  <2>1. EntryOf(call') = EntryOf(call) /\ call'.goal = call.goal /\ call'.res = call.res
        /\ call'.pc \in {"flush", "info", "syncfs"}
    BY <1>0, <1>4, GoFields DEF EntryOf
  <2> QED
    BY <1>4, <2>1 DEF Built
<1>5. CASE call'.pc \in {"info", "syncfs"}
  <2>1. \/ UNCHANGED vars
        \/ MoveWindow /\ UNCHANGED call
        \/ Flush /\ \E pc \in {"info", "syncfs"} : call' = Go(pc)
        \/ (WriteInfo \/ WriteInfoFails) /\ call' = Go("syncfs")
    BY <1>0, <1>5, LateCalls, GoFields
  <2>2. CASE Flush /\ \E pc \in {"info", "syncfs"} : call' = Go(pc)
    BY <1>4, <2>2 DEF Flush, At
  <2>3. CASE (WriteInfo \/ WriteInfoFails) /\ call' = Go("syncfs")
    <3>1. call.pc = "info" /\ fat' = dfat' /\ dfat' = dfat
      BY <2>3 DEF WriteInfo, WriteInfoFails, InfoWith, Fresh, At
    <3>2. dfat = fat
      BY <3>1, CleanView DEF VolumeInv, WindowInv, DirWindow, TypeInv, InfoTyped
    <3> QED
      BY <1>4, <2>3, <3>1, <3>2
  <2> QED
    BY <1>2, <1>3, <2>1, <2>2, <2>3
<1>6. CASE call'.pc \in {"alloc", "flush"} \/ (call'.pc = "close" /\ call'.res = "ok")
  <2>1. CASE Search /\ RunLength = call.len /\ call' = [Go("alloc") EXCEPT !.clst = RunStart, !.left = call.len]
    <3>1. call'.pc = "alloc" /\ call'.scl = call.scl /\ call'.clst = call.scl /\ call.scl \in Nat
      BY <1>0, <2>1, SearchFound DEF CallType
    <3>2. \A c \in Clusters : ~(call'.scl <= c /\ c < call'.clst)
      BY <3>1, Bounds
    <3> QED
      BY <3>1, <3>2 DEF Built
  <2>2. CASE CloseEntry /\ call' = Go("flush")
    BY <1>4, <2>2 DEF CloseEntry, PutEntry, At
  <2>3. CASE DirRemove /\ call' = Go("flush")
    <3>1. call.goal = "unlink"
      BY <2>3 DEF DirRemove, At, VolumeInv, PlaceInv, Placed, Looking
    <3>2. call'.goal = "unlink" /\ call'.pc = "flush"
      BY <1>0, <2>3, <3>1, GoFields
    <3> QED
      BY <3>2 DEF Built
  <2> QED
    BY <1>2, <1>3, <1>6, <2>1, <2>2, <2>3, AllocBuilt, MakingCalls
<1> QED
  BY <1>1, <1>5, <1>6

-----------------------------------------------------------------------------
(* Good, step by step.                                                     *)
LEMMA PuttingGood ==
  ASSUME VolumeInv, Putting, Good(fat, dir), Good(dfat, ddir), Reserved(fat, dir, call)
  PROVE  Good(fat', dir') /\ Good(dfat', ddir')
<1>1. /\ fat \in [Clusters -> 0 .. N + 1] /\ call \in CallType
      /\ dir' = dir /\ dfat' = dfat /\ ddir' = ddir
  BY PutLinks DEF VolumeInv, TypeInv, FatTyped, ClusterInv, CallInv
<1>2. CASE TakeCluster
  <2>1. call.ncl \in Clusters /\ fat[call.ncl] = 0 /\ fat' = [fat EXCEPT ![call.ncl] = EOC]
    BY <1>2, TakenBlanked DEF TakeCluster, PutFat
  <2> QED
    BY <1>1, <2>1, PutGood, Bounds
<1>3. CASE LinkCluster
  <2>1. call.pc = "link" /\ fat' = [fat EXCEPT ![Root] = call.ncl] /\ call.ncl \in Clusters /\ fat[call.ncl] = EOC
    BY <1>3 DEF LinkCluster, At, PutFat, VolumeInv, ClusterInv, CallInv, Stretching, PlaceInv, Placed, Adding
  <2>2. Unowned(fat, dir, call.ncl)
    BY <2>1 DEF Reserved
  <2>3. fat[call.ncl] # 0
    BY <2>1, Bounds
  <2> QED
    BY <1>1, <2>1, <2>2, <2>3, LinkGood
<1>4. CASE Alloc
  <2>1. PICK v : v = (IF call.left = 1 THEN EOC ELSE call.clst + 1)
    OBVIOUS
  <2>2. call.clst \in Clusters /\ fat[call.clst] = 0 /\ fat' = [fat EXCEPT ![call.clst] = v]
    BY <1>4, <2>1, AllocGoes
  <2>3. v # 0
    <3>1. call.clst \in Nat /\ EOC # 0
      BY <2>2, Bounds
    <3> QED
      BY <2>1, <3>1
  <2> QED
    BY <1>1, <2>2, <2>3, PutGood
<1> QED
  BY <1>2, <1>3, <1>4 DEF Putting

LEMMA RegisteredGood ==
  ASSUME VolumeInv, DirRegister, Good(fat, dir)
  PROVE  Good(fat', dir')
<1>1. /\ call \in CallType /\ call.dcl \in Clusters /\ Absent(fat, dir, call.name)
      /\ call.dcl # Root => Full(dir[Root]) /\ call.dcl = fat[Root]
      /\ dir \in [Clusters -> Sector] /\ Unlinked(fat, dir)
  BY DEF VolumeInv, ClusterInv, CallInv, CallType, PlaceInv, Placed, Adding, DirRegister, At, TypeInv, DirTyped,
     WindowInv
<1>2. PICK s \in 1 .. Slots :
        /\ FreeEntry(s) /\ \A t \in 1 .. s - 1 : ~FreeEntry(t)
        /\ PutEntry(s, NewFile(call.name))
  BY DEF DirRegister
<1> DEFINE e == NewFile(call.name)
<1>3. e \in Entries /\ e.kind # "end" /\ e.clust = 0 /\ e.name = call.name /\ ~e.old
  BY <1>1, Bounds DEF NewFile, Entries, CallType
<1>4. Area(e) = {}
  BY <1>3 DEF Area
<1> HIDE DEF e
<1>5. fat' = fat /\ dir' = [dir EXCEPT ![call.dcl][s] = e]
  BY <1>2 DEF PutEntry, e
<1>6. Comes(dir, e.name, call.dcl, s)
  <2>1. Missing(dir[call.dcl], e.name) /\ (call.dcl # Root => Passed(dir, e.name))
    BY <1>1, <1>3, FullOpen DEF Absent, Passed
  <2>2. Open(dir[call.dcl], s)
    BY <1>2 DEF Open, FreeEntry
  <2>3. s \in 1 .. Slots + 1 /\ \A t \in 1 .. s - 1 : t \in 1 .. Slots
    BY Bounds
  <2>4. Passes(dir[call.dcl], e.name, s)
    BY <2>1, <2>2, <2>3, PassesMatch DEF Missing
  <2> QED
    BY <2>1, <2>4, PassesAll DEF Comes
<1>7. ASSUME NEW b \in Clusters, NEW t \in 1 .. Slots, Own(dir[b][t])
      PROVE  dir[b][t].name # e.name
  BY <1>1, <1>3, <1>7, AbsentNames DEF Good
<1>8. Chained(fat, e)
  BY <1>4 DEF Chained
<1>9. Fits(fat, dir, call.dcl, s, e)
  BY <1>3, <1>4, <1>6, <1>7, <1>8 DEF Fits
<1>10. Good(fat, dir')
  BY <1>1, <1>3, <1>5, <1>9, EnterGood
<1> QED
  BY <1>5, <1>10

LEMMA ClosedGood ==
  ASSUME VolumeInv, CloseEntry, Good(fat, dir), Built(fat, call), Reserved(fat, dir, call)
  PROVE  Good(fat', dir')
<1> DEFINE e == IF call.res = "ok" THEN EntryOf(call) ELSE NewFile(call.name)
<1>1. /\ call \in CallType /\ call.pc = "close" /\ call.dcl \in Clusters /\ call.slot \in 1 .. Slots
      /\ dir[call.dcl][call.slot] = NewFile(call.name)
      /\ dir \in [Clusters -> Sector]
  BY DEF VolumeInv, ClusterInv, CallInv, CallType, PlaceInv, Placed, Added, CloseEntry, At, TypeInv, DirTyped
<1>2. fat' = fat /\ dir' = [dir EXCEPT ![call.dcl][call.slot] = e]
  BY ClosedPlaced DEF CloseEntry, PutEntry
<1>3. Own(dir[call.dcl][call.slot]) /\ dir[call.dcl][call.slot].name = call.name
  BY <1>1 DEF NewFile, IsFile, Own
<1>4. Comes(dir, call.name, call.dcl, call.slot) /\ Alone(dir, call.dcl, call.slot)
  BY <1>1, <1>3 DEF Good
<1>5. e \in Entries /\ e.kind = "file" /\ e.name = call.name /\ ~e.old
  <2>1. CASE call.res = "ok"
    <3>1. call.scl >= 2 /\ call.scl + call.len <= N /\ call.len # 0 /\ call.scl \in Nat /\ call.len \in Nat
      BY <1>1, <2>1 DEF VolumeInv, TypeInv, Fitting, At, CallType
    <3>2. call.scl \in 0 .. N - 1
      BY <3>1, Bounds
    <3> QED
      BY <1>1, <2>1, <3>1, <3>2 DEF EntryOf, Entries, CallType
  <2>2. CASE call.res # "ok"
    BY <1>1, <2>2, Bounds DEF NewFile, Entries, CallType
  <2> QED
    BY <2>1, <2>2
<1>6. /\ Chained(fat, e) /\ Area(e) \cap Linked(fat) = {}
      /\ \A b \in Clusters, t \in 1 .. Slots : Own(dir[b][t]) => Area(dir[b][t]) \cap Area(e) = {}
  <2>1. CASE call.res = "ok"
    <3>1. e = EntryOf(call)
      BY <2>1
    <3>2. Chained(fat, e) /\ \A x \in Area(e) : Unowned(fat, dir, x)
      BY <1>1, <2>1, <3>1 DEF Built, Reserved
    <3> QED
      BY <3>2 DEF Unowned
  <2>2. CASE call.res # "ok"
    <3>1. Area(e) = {}
      BY <2>2 DEF Area, NewFile
    <3> QED
      BY <3>1 DEF Chained
  <2> QED
    BY <2>1, <2>2
<1> HIDE DEF e
<1>7. ASSUME NEW b \in Clusters, NEW t \in 1 .. Slots, Own(dir[b][t]), b # call.dcl \/ t # call.slot
      PROVE  dir[b][t].name # e.name
  BY <1>3, <1>4, <1>5, <1>7 DEF Alone
<1>8. Fits(fat, dir, call.dcl, call.slot, e)
  BY <1>4, <1>5, <1>6, <1>7 DEF Fits
<1>9. Good(fat, dir')
  BY <1>1, <1>2, <1>5, <1>8, EnterGood
<1> QED
  BY <1>2, <1>9

LEMMA RemovedGood ==
  ASSUME VolumeInv, DirRemove, Good(fat, dir)
  PROVE  Good(fat', dir')
<1>1. /\ call.dcl \in Clusters /\ call.slot \in 1 .. Slots /\ dir \in [Clusters -> Sector]
  BY DEF VolumeInv, ClusterInv, CallInv, CallType, TypeInv, DirTyped
<1>2. fat' = fat /\ dir' = [dir EXCEPT ![call.dcl][call.slot] = Blank("deleted")]
  BY DEF DirRemove, PutEntry
<1>3. Blank("deleted") \in Entries /\ Blank("deleted").kind # "end" /\ ~IsFile(Blank("deleted"))
  BY BlankTyped DEF Blank, IsFile
<1>4. Good(fat, dir')
  BY <1>1, <1>2, <1>3, EnterGood
<1> QED
  BY <1>2, <1>4

LEMMA ZeroGood ==
  ASSUME VolumeInv, Zeroing, Good(dfat, ddir)
  PROVE  Good(fat', dir') /\ Good(dfat', ddir')
<1>1. /\ call.ncl \in Clusters /\ call.ncl # Root /\ Blanked(ddir[call.ncl]) /\ Blanked(Cleared)
      /\ fat' = dfat /\ dfat' = dfat /\ dir' = [ddir EXCEPT ![call.ncl] = Cleared]
      /\ ddir' = ddir \/ ddir' = dir'
      /\ ddir \in [Clusters -> Sector]
  BY ZeroWhere DEF VolumeInv, TypeInv, DirTyped
<1>2. Similar(ddir, dir')
  BY <1>1 DEF Similar
<1> QED
  BY <1>1, <1>2, SimilarGood

LEMMA MovedReserved ==
  ASSUME VolumeInv, Reserved(fat, dir, call), MoveWindow, UNCHANGED call
  PROVE  Reserved(fat', dir', call')
<1>1. fat' = fat /\ Similar(dir, dir') /\ call' = call
  BY MovedView
<1>2. \A x : Unowned(fat, dir, x) => Unowned(fat, dir', x)
  BY <1>1, SimilarUnowned
<1> QED
  BY <1>1, <1>2 DEF Reserved

LEMMA AllocReserved ==
  ASSUME VolumeInv, Good(fat, dir), Reserved(fat, dir, call), Alloc
  PROVE  Reserved(fat', dir', call')
<1>1. /\ call \in CallType /\ call.pc = "alloc" /\ call.clst \in Clusters /\ fat[call.clst] = 0
      /\ call.left \in Nat /\ call.left # 0 /\ call.clst + call.left = call.scl + call.len
      /\ call'.scl = call.scl /\ call'.len = call.len
      /\ fat \in [Clusters -> 0 .. N + 1]
  BY AllocGoes DEF VolumeInv, TypeInv, FatTyped
<1>2. call.scl \in Nat /\ call.len \in Nat /\ call.clst \in Nat
  BY <1>1 DEF CallType
<1>3. Unowned(fat', dir, call.clst) /\ Linked(fat') = Linked(fat) /\ dir' = dir
  <2>1. PICK v : v = (IF call.left = 1 THEN EOC ELSE call.clst + 1)
    OBVIOUS
  <2>2. fat' = [fat EXCEPT ![call.clst] = v]
    BY <2>1, AllocGoes
  <2>3. v # 0
    <3>1. call.clst \in Nat /\ EOC # 0
      BY <1>2, Bounds
    <3> QED
      BY <2>1, <3>1
  <2>4. fat \in [Clusters -> 0 .. N + 1] /\ call.clst \in Clusters /\ fat[call.clst] = 0
    BY <1>1
  <2>5. Unowned(fat', dir, call.clst)
    BY <2>2, <2>3, <2>4, PutGood
  <2>6. fat'[Root] = fat[Root]
    BY <2>2, <2>4, Bounds DEF Good, Linked
  <2>7. dir' = dir
    BY DEF Alloc, PutFat
  <2> QED
    BY <2>5, <2>6, <2>7 DEF Linked
<1>4. ASSUME NEW c \in Clusters, call.scl <= c, c < call.clst + 1
      PROVE  Unowned(fat', dir', c)
  <2>1. c \in Nat /\ (c = call.clst \/ c < call.clst)
    BY <1>2, <1>4, Bounds
  <2>2. c < call.clst => Unowned(fat, dir, c)
    BY <1>1, <1>4 DEF Reserved
  <2> QED
    BY <1>3, <2>1, <2>2 DEF Unowned
<1>5. CASE call.left # 1
  <2>1. call'.pc = "alloc" /\ call'.clst = call.clst + 1
    BY <1>5, AllocGoes
  <2> QED
    BY <1>1, <1>4, <2>1 DEF Reserved
<1>6. CASE call.left = 1
  <2>1. call'.pc = "close" /\ call.scl + call.len = call.clst + 1
    BY <1>1, <1>2, <1>6, AllocGoes
  <2>2. EntryOf(call').clust = call.scl /\ EntryOf(call').len = call.len
    BY <1>1 DEF EntryOf
  <2>3. ASSUME NEW c \in Area(EntryOf(call'))
        PROVE  c \in Clusters /\ call.scl <= c /\ c < call.clst + 1
    BY <2>1, <2>2 DEF Area
  <2> QED
    BY <1>4, <2>1, <2>3 DEF Reserved
<1> QED
  BY <1>5, <1>6

LEMMA ReservedStep ==
  ASSUME VolumeInv, Good(fat, dir), Reserved(fat, dir, call), [Next]_vars
  PROVE  Reserved(fat', dir', call')
<1>0. call \in CallType
  BY DEF VolumeInv, ClusterInv, CallInv
<1>1. CASE call'.pc \notin {"link", "alloc", "close"} \/ (call'.pc = "close" /\ call'.res # "ok")
  BY <1>1 DEF Reserved
<1>2. CASE UNCHANGED vars
  BY <1>2 DEF vars, window
<1>3. CASE call'.pc = "link"
  <2>1. \/ UNCHANGED vars
        \/ MoveWindow /\ UNCHANGED call
        \/ TakeCluster /\ call' = Go("link")
    BY <1>0, <1>3, LateCalls, GoFields
  <2>2. CASE TakeCluster /\ call' = Go("link")
    <3>1. /\ call.ncl \in Clusters /\ fat[call.ncl] = 0 /\ fat' = [fat EXCEPT ![call.ncl] = EOC]
          /\ dir' = dir /\ fat \in [Clusters -> 0 .. N + 1]
      BY <2>2, TakenBlanked DEF TakeCluster, PutFat, VolumeInv, TypeInv, FatTyped
    <3>2. Unowned(fat', dir, call.ncl)
      BY <3>1, PutGood, Bounds
    <3>3. call'.ncl = call.ncl
      BY <1>0, <2>2, GoFields
    <3> QED
      BY <1>3, <3>1, <3>2, <3>3 DEF Reserved
  <2> QED
    BY <1>2, <2>1, <2>2, MovedReserved
<1>4. CASE call'.pc = "alloc" \/ (call'.pc = "close" /\ call'.res = "ok")
  <2>1. CASE Search /\ RunLength = call.len /\ call' = [Go("alloc") EXCEPT !.clst = RunStart, !.left = call.len]
    <3>1. call'.pc = "alloc" /\ call'.scl = call.scl /\ call'.clst = call.scl /\ call.scl \in Nat
      BY <1>0, <2>1, SearchFound DEF CallType
    <3>2. \A c \in Clusters : ~(call'.scl <= c /\ c < call'.clst)
      BY <3>1, Bounds
    <3> QED
      BY <3>1, <3>2 DEF Reserved
  <2>2. CASE (CloseEntry \/ DirRemove) /\ call' = Go("flush")
    BY <1>0, <1>4, <2>2, GoFields
  <2> QED
    BY <1>2, <1>4, <2>1, <2>2, MovedReserved, AllocReserved, MakingCalls
<1> QED
  BY <1>1, <1>3, <1>4

LEMMA GoodStep ==
  ASSUME FilesInv, [Next]_vars
  PROVE  GoodInv'
<1> SUFFICES ASSUME losses' = 0
             PROVE  Good(fat', dir') /\ Good(dfat', ddir') /\ Reserved(fat', dir', call')
  BY DEF GoodInv
<1>1. losses = 0 /\ ~PowerLoss
  BY LossesGrow DEF FilesInv, Counted, PowerLoss
<1>2. VolumeInv /\ Built(fat, call) /\ Good(fat, dir) /\ Good(dfat, ddir) /\ Reserved(fat, dir, call)
  BY <1>1 DEF FilesInv, GoodInv
<1>3. Good(fat', dir') /\ Good(dfat', ddir')
  <2>1. CASE Still \/ Settling
    BY <1>2, <2>1 DEF Still, Settling, disk, window
  <2>2. CASE Syncing
    BY <1>2, <2>2, SyncingView, SimilarGood
  <2>3. CASE Rereading
    BY <1>2, <2>3 DEF Rereading, Fresh
  <2>4. CASE Putting
    BY <1>2, <2>4, PuttingGood
  <2>5. CASE Entering
    <3>1. Good(fat', dir')
      BY <1>2, <2>5, RegisteredGood, ClosedGood, RemovedGood DEF Entering
    <3>2. dfat' = dfat /\ ddir' = ddir
      BY <2>5 DEF Entering, disk
    <3> QED
      BY <1>2, <3>1, <3>2
  <2>6. CASE Zeroing
    BY <1>2, <2>6, ZeroGood
  <2> QED
    BY <1>1, <1>2, <2>1, <2>2, <2>3, <2>4, <2>5, <2>6, Kinds DEF VolumeInv
<1> QED
  BY <1>2, <1>3, ReservedStep

LEMMA FilesInit == Init => FilesInv
<1> SUFFICES ASSUME Init PROVE FilesInv
  OBVIOUS
<1>1. PICK v \in Volumes : /\ dfat = v.fat /\ fat = v.fat /\ v.fat[Root] = EOC /\ Sound(v)
                           /\ ddir = [v.old EXCEPT ![Root] = v.dir] /\ dir = ddir
                           /\ v.old \in [Clusters -> Sector] /\ \A c \in Clusters : Blanked(v.old[c])
  BY RootStart
<1>2. ASSUME NEW c \in Clusters, NEW s \in 1 .. Slots, Own(ddir[c][s])
      PROVE  c = Root /\ ddir[c] = v.dir
  BY <1>1, <1>2, Bounds DEF Blanked
<1>3. Linked(dfat) = {Root}
  BY <1>1, Bounds DEF Linked
<1>4. ASSUME NEW c \in Clusters, NEW s \in 1 .. Slots, Own(ddir[c][s])
      PROVE  /\ Chained(dfat, ddir[c][s]) /\ Area(ddir[c][s]) \cap Linked(dfat) = {}
             /\ Comes(ddir, ddir[c][s].name, c, s) /\ Alone(ddir, c, s)
  <2>1. c = Root /\ ddir[c] = v.dir /\ IsFile(v.dir[s])
    BY <1>2, <1>4 DEF Own
  <2>2. /\ Chained(v.fat, v.dir[s]) /\ Root \notin Area(v.dir[s])
        /\ \A t \in 1 .. s - 1 : v.dir[t].kind # "end"
        /\ \A t \in 1 .. Slots \ {s} : IsFile(v.dir[t]) =>
             v.dir[t].name # v.dir[s].name /\ Area(v.dir[t]) \cap Area(v.dir[s]) = {}
    BY <1>1, <2>1 DEF Sound
  <2>3. \A t \in 1 .. s - 1 : t \in 1 .. Slots \ {s}
    BY Bounds
  <2>4. Comes(ddir, ddir[c][s].name, c, s)
    BY <2>1, <2>2, <2>3 DEF Comes, Passes
  <2>5. Alone(ddir, c, s)
    BY <1>2, <2>1, <2>2 DEF Alone, Own
  <2> QED
    BY <1>1, <1>3, <2>1, <2>2, <2>4, <2>5
<1>5. Good(dfat, ddir)
  BY <1>1, <1>3, <1>4, Bounds DEF Good
<1>6. Built(fat, call) /\ Reserved(fat, dir, call)
  BY PlainBuilt DEF Init, NoCall, Idle
<1>7. dfat = fat /\ ddir = dir /\ losses = 0
  BY DEF Init
<1> QED
  BY <1>5, <1>6, <1>7, VolumeInit DEF FilesInv, GoodInv, Counted

LEMMA FilesStep ==
  ASSUME FilesInv, [Next]_vars
  PROVE  FilesInv'
<1>1. VolumeInv' /\ Built(fat', call')
  BY VolumeStep, BuiltStep DEF FilesInv
<1>2. Counted'
  BY LossesStep DEF FilesInv
<1> QED
  BY <1>1, <1>2, GoodStep DEF FilesInv

LEMMA FilesAlways == Spec => []FilesInv
<1>1. FilesInv /\ [Next]_vars => FilesInv'
  BY FilesStep
<1> QED
  BY <1>1, FilesInit, PTL DEF Spec

(* FilesIntact: without a power loss, and however often a call fails or is *)
(* killed between any two writes, each file is the one that a search for   *)
(* its name comes to, no two files have a name or a cluster in common, no  *)
(* file has one of the directory, and the chain of each is that of its     *)
(* area.  The area of a new file is nobody's while it is allocated, and    *)
(* its entry names it only once it is complete.  An uncleared cluster of   *)
(* the directory may list what was there before: it hides no file.         *)
THEOREM FilesKept == Spec => []FilesIntact
<1>1. FilesInv => FilesIntact
  <2> SUFFICES ASSUME FilesInv, losses = 0, NEW p \in Listed(fat, dir), ~dir[p[1]][p[2]].old
               PROVE  LET e == dir[p[1]][p[2]] IN
                        /\ Comes(dir, e.name, p[1], p[2])
                        /\ Chained(fat, e)
                        /\ Area(e) \cap Linked(fat) = {}
                        /\ \A q \in Listed(fat, dir) \ {p} : LET g == dir[q[1]][q[2]] IN
                             ~g.old => g.name # e.name /\ Area(e) \cap Area(g) = {}
    BY DEF FilesIntact
  <2>1. Good(fat, dir)
    BY DEF FilesInv, GoodInv
  <2>2. ASSUME NEW q \in Listed(fat, dir)
        PROVE  /\ q[1] \in Clusters /\ q[2] \in 1 .. Slots /\ q = <<q[1], q[2]>>
               /\ ~dir[q[1]][q[2]].old => Own(dir[q[1]][q[2]])
    BY Bounds DEF Listed, Linked, Own
  <2>3. /\ Comes(dir, dir[p[1]][p[2]].name, p[1], p[2]) /\ Chained(fat, dir[p[1]][p[2]])
        /\ Area(dir[p[1]][p[2]]) \cap Linked(fat) = {} /\ Alone(dir, p[1], p[2])
    BY <2>1, <2>2 DEF Good
  <2>4. ASSUME NEW q \in Listed(fat, dir) \ {p}, ~dir[q[1]][q[2]].old
        PROVE  /\ dir[q[1]][q[2]].name # dir[p[1]][p[2]].name
               /\ Area(dir[q[1]][q[2]]) \cap Area(dir[p[1]][p[2]]) = {}
    <3>1. q[1] # p[1] \/ q[2] # p[2]
      BY <2>2
    <3> QED
      BY <2>2, <2>3, <2>4, <3>1 DEF Alone
  <2> QED
    BY <2>3, <2>4
<1> QED
  BY <1>1, FilesAlways, PTL

-----------------------------------------------------------------------------
(* Part 4: promised files.  A file that was promised is in cluster c and   *)
(* slot s of the directory and its area is chained: for the library, on    *)
(* the disk, and in everything a power loss can leave.                     *)
Holds(f, e, c) ==
  (\A x \in Area(e) : f[x] = IF x + 1 = e.clust + e.len THEN EOC ELSE x + 1) /\ (c # Root => f[Root] = c)
Lists(d, e, c, s) == d[c][s] = e /\ Comes(d, e.name, c, s)

FatHolds(e, c) ==
  /\ Holds(fat, e, c) /\ Holds(dfat, e, c)
  /\ \A x \in Area(e) : \A f \in vfat[FatSec(x)] : f[x] = IF x + 1 = e.clust + e.len THEN EOC ELSE x + 1
  /\ c # Root => \A f \in vfat[FatSec(Root)] : f[Root] = c
DirLists(e, c, s) ==
  /\ Lists(dir, e, c, s) /\ Lists(ddir, e, c, s)
  /\ \A g \in vdir[c] : g[s] = e /\ Passes(g, e.name, s)
  /\ c # Root => \A g \in vdir[Root] : Passes(g, e.name, Slots + 1)
Held(e, c, s) == Own(e) /\ Root \notin Area(e) /\ FatHolds(e, c) /\ DirLists(e, c, s)

(* A call that enters or unlinks a file is not about one that is promised. *)
Adds == {"register", "regnext", "probe", "chain", "link", "clear", "zero", "expand", "search", "alloc",
         "close", "flush", "info", "syncfs"}
Changes(k) == k.goal = "unlink" \/ k.pc \in Adds
Spared(e) == Changes(call) => e.name # call.name

PromiseInv ==
  \A e \in promised : Spared(e) /\ \E c \in Clusters, s \in 1 .. Slots : Held(e, c, s)
KeptInv == VolumeInv /\ Built(fat, call) /\ PromiseInv

LEMMA WrittenFat ==
  ASSUME SyncWindow, NEW x \in Clusters, NEW f \in vfat'[FatSec(x)]
  PROVE  f \in vfat[FatSec(x)] \/ f[x] = fat[x]
<1>1. FatSec(x) \in FatSecs
  BY DEF FatSecs
<1>2. CASE dirty
  BY <1>1, <1>2 DEF SyncWindow, WriteBack
<1>3. CASE ~dirty
  BY <1>3 DEF SyncWindow, versions
<1> QED
  BY <1>2, <1>3

LEMMA SettledFat ==
  ASSUME vfat' = [s \in FatSecs |-> {[c \in Clusters |-> IF FatSec(c) = s THEN dfat'[c] ELSE 0]}],
         NEW x \in Clusters, NEW f \in vfat'[FatSec(x)]
  PROVE  f[x] = dfat'[x]
<1>1. FatSec(x) \in FatSecs
  BY DEF FatSecs
<1> QED
  BY <1>1

(* The FAT is settled in either way: by syncfs, or by what a power loss    *)
(* has left.                                                               *)
LEMMA FatHoldsSettled ==
  ASSUME NEW e, NEW c, Holds(dfat', e, c), fat' = dfat' \/ Holds(fat', e, c),
         vfat' = [s \in FatSecs |-> {[b \in Clusters |-> IF FatSec(b) = s THEN dfat'[b] ELSE 0]}]
  PROVE  FatHolds(e, c)'
<1>1. Root \in Clusters /\ \A x \in Area(e) : x \in Clusters
  BY Bounds DEF Area
<1>2. \A x \in Clusters : \A f \in vfat'[FatSec(x)] : f[x] = dfat'[x]
  BY SettledFat
<1> QED
  BY <1>1, <1>2 DEF FatHolds, Holds

LEMMA FatHoldsLost ==
  ASSUME NEW e, NEW c, FatHolds(e, c), PowerLoss
  PROVE  FatHolds(e, c)'
<1>1. PICK cf \in [FatSecs -> UNION {vfat[s] : s \in FatSecs}] :
        /\ \A s \in FatSecs : cf[s] \in vfat[s]
        /\ dfat' = [b \in Clusters |-> cf[FatSec(b)][b]]
  BY DEF PowerLoss
<1>2. \A x \in Clusters : FatSec(x) \in FatSecs
  BY DEF FatSecs
<1>3. \A x \in Clusters : \E f \in vfat[FatSec(x)] : dfat'[x] = f[x]
  BY <1>1, <1>2
<1>4. Root \in Clusters /\ \A x \in Area(e) : x \in Clusters
  BY Bounds DEF Area
<1>5. Holds(dfat', e, c)
  BY <1>3, <1>4 DEF Holds, FatHolds
<1> QED
  BY <1>5, FatHoldsSettled DEF PowerLoss, Restart, Fresh

LEMMA FatHoldsStep ==
  ASSUME VolumeInv, [Next]_vars, NEW e, NEW c \in Clusters, Root \notin Area(e), FatHolds(e, c)
  PROVE  FatHolds(e, c)'
<1>1. Root \in Clusters /\ \A x \in Area(e) : x \in Clusters
  BY Bounds DEF Area
<1>2. CASE Still \/ Entering
  <2>1. UNCHANGED <<fat, dfat, vfat>>
    BY <1>2, EnteredWhere DEF Still, Entering, disk, versions, window
  <2> QED
    BY <2>1 DEF FatHolds
<1>3. CASE Settling
  <2>1. fat' = fat /\ dfat' = dfat
    BY <1>3 DEF Settling, disk, window
  <2>2. Holds(dfat', e, c) /\ Holds(fat', e, c)
    BY <2>1 DEF FatHolds
  <2>3. vfat' = [s \in FatSecs |-> {[b \in Clusters |-> IF FatSec(b) = s THEN dfat'[b] ELSE 0]}]
    BY <1>3, <2>1 DEF Settling, Settle
  <2> QED
    BY <2>2, <2>3, FatHoldsSettled
<1>4. CASE Syncing
  <2>1. fat' = fat /\ dfat' = fat
    BY <1>4, SyncingView
  <2>2. \A x \in Clusters : \A f \in vfat'[FatSec(x)] : f \in vfat[FatSec(x)] \/ f[x] = fat[x]
    BY <1>4, WrittenFat DEF Syncing
  <2> QED
    BY <1>1, <2>1, <2>2 DEF FatHolds, Holds
<1>5. CASE Rereading \/ Zeroing
  <2>1. fat' = dfat /\ dfat' = dfat /\ vfat' = vfat
    BY <1>5 DEF Rereading, Fresh, Zeroing, DirZero, DirZeroFails, ZeroWith
  <2> QED
    BY <2>1 DEF FatHolds
<1>6. CASE Putting
  <2>1. dfat' = dfat /\ vfat' = vfat
    BY <1>6 DEF Putting, disk, versions
  <2>2. fat \in [Clusters -> 0 .. N + 1] /\ call \in CallType
    BY DEF VolumeInv, TypeInv, FatTyped, ClusterInv, CallInv
  <2>3. ASSUME NEW x \in Area(e)
        PROVE  fat[x] # 0
    <3>1. x \in Nat /\ EOC # 0 /\ (fat[x] = EOC \/ fat[x] = x + 1)
      BY <1>1, Bounds DEF FatHolds, Holds
    <3> QED
      BY <3>1
  <2>4. c # Root => fat[Root] # EOC /\ fat[Root] # 0
    BY Bounds DEF FatHolds, Holds
  <2>5. CASE LinkCluster
    <3>1. fat[Root] = EOC /\ fat' = [fat EXCEPT ![Root] = call.ncl]
      BY <2>5 DEF LinkCluster, At, PutFat, VolumeInv, ClusterInv, CallInv, Stretching
    <3>2. c = Root /\ \A x \in Area(e) : fat'[x] = fat[x]
      BY <1>1, <2>2, <2>4, <3>1
    <3> QED
      BY <2>1, <3>2 DEF FatHolds, Holds
  <2>6. CASE TakeCluster \/ Alloc
    <3>1. PICK y, v : y \in Clusters /\ fat[y] = 0 /\ fat' = [fat EXCEPT ![y] = v]
      <4>1. CASE TakeCluster
        BY <4>1, TakenBlanked DEF TakeCluster, PutFat
      <4>2. CASE Alloc
        BY <4>2, AllocGoes
      <4> QED
        BY <2>6, <4>1, <4>2
    <3>2. (\A x \in Area(e) : fat'[x] = fat[x]) /\ (c # Root => fat'[Root] = fat[Root])
      BY <1>1, <2>2, <2>3, <2>4, <3>1
    <3> QED
      BY <2>1, <3>2 DEF FatHolds, Holds
  <2> QED
    BY <1>6, <2>5, <2>6 DEF Putting
<1> QED
  BY <1>2, <1>3, <1>4, <1>5, <1>6, FatHoldsLost, Kinds DEF VolumeInv

(* The directory.                                                          *)
LEMMA DirListsSettled ==
  ASSUME VolumeInv, NEW e, NEW c \in Clusters, NEW s, Lists(ddir', e, c, s), dir' = ddir' \/ Lists(dir', e, c, s),
         vdir' = [b \in Clusters |-> {ddir'[b]}]
  PROVE  DirLists(e, c, s)'
BY Bounds DEF DirLists, Lists, Comes

LEMMA DirListsLost ==
  ASSUME VolumeInv, NEW e, NEW c \in Clusters, NEW s, FatHolds(e, c), DirLists(e, c, s), PowerLoss
  PROVE  DirLists(e, c, s)'
<1>1. Root \in Clusters
  BY Bounds
<1>2. Root \in Linked(dfat') /\ c \in Linked(dfat')
  <2>1. Holds(dfat', e, c)
    BY FatHoldsLost DEF FatHolds
  <2> QED
    BY <2>1 DEF Holds, Linked
<1>3. ddir'[Root] \in vdir[Root] \cup {ddir[Root]} /\ ddir'[c] \in vdir[c] \cup {ddir[c]}
  BY <1>1, <1>2, LostDir
<1>4. Lists(ddir', e, c, s)
  BY <1>3 DEF DirLists, Lists, Comes
<1> QED
  BY <1>4, DirListsSettled DEF PowerLoss, Restart, Fresh

(* An entry that is written is that of the call, or was of no file.        *)
LEMMA EnteredElse ==
  ASSUME VolumeInv, Entering
  PROVE  \E r \in 1 .. Slots, n \in Entries :
           /\ dir' = [dir EXCEPT ![call.dcl][r] = n] /\ n.kind # "end"
           /\ ~IsFile(dir[call.dcl][r]) \/ (Changes(call) /\ dir[call.dcl][r].name = call.name)
           /\ ~IsFile(n) \/ (Changes(call) /\ n.name = call.name)
<1>1. call \in CallType /\ call.slot \in 1 .. Slots /\ call.dcl \in Clusters
  BY DEF VolumeInv, ClusterInv, CallInv, CallType
<1>2. CASE DirRegister
  <2>1. PICK r \in 1 .. Slots : FreeEntry(r) /\ PutEntry(r, NewFile(call.name))
    BY <1>2 DEF DirRegister
  <2>2. NewFile(call.name) \in Entries /\ NewFile(call.name).kind # "end"
    BY <1>1, Bounds DEF NewFile, Entries, CallType
  <2>3. ~IsFile(dir[call.dcl][r])
    BY <2>1 DEF FreeEntry, IsFile
  <2>4. Changes(call) /\ NewFile(call.name).name = call.name
    BY <1>2 DEF DirRegister, At, Changes, Adds, NewFile
  <2> QED
    BY <2>1, <2>2, <2>3, <2>4 DEF PutEntry
<1>3. CASE CloseEntry
  <2>1. dir[call.dcl][call.slot] = NewFile(call.name) /\ call.pc = "close"
    BY <1>3 DEF VolumeInv, PlaceInv, Placed, Added, CloseEntry, At
  <2>2. PICK n : n = (IF call.res = "ok" THEN EntryOf(call) ELSE NewFile(call.name))
    OBVIOUS
  <2>3. dir' = [dir EXCEPT ![call.dcl][call.slot] = n] /\ n.kind # "end"
    BY <1>3, <2>2, ClosedPlaced DEF EntryOf, NewFile
  <2>4. n \in Entries
    <3>1. CASE call.res = "ok"
      <4>1. call.scl >= 2 /\ call.scl + call.len <= N /\ call.len # 0 /\ call.scl \in Nat /\ call.len \in Nat
        BY <1>1, <2>1, <3>1 DEF VolumeInv, TypeInv, Fitting, At, CallType
      <4>2. call.scl \in 0 .. N - 1
        BY <4>1, Bounds
      <4> QED
        BY <1>1, <2>2, <3>1, <4>1, <4>2 DEF EntryOf, Entries, CallType
    <3>2. CASE call.res # "ok"
      BY <1>1, <2>2, <3>2, Bounds DEF NewFile, Entries, CallType
    <3> QED
      BY <3>1, <3>2
  <2>5. Changes(call) /\ dir[call.dcl][call.slot].name = call.name /\ n.name = call.name
    BY <2>1, <2>2 DEF Changes, Adds, NewFile, EntryOf
  <2> QED
    BY <1>1, <2>3, <2>4, <2>5
<1>4. CASE DirRemove
  <2>1. call.goal = "unlink" /\ IsMatch(dir[call.dcl], call.name, call.slot)
    BY <1>4 DEF VolumeInv, PlaceInv, Placed, Looking, FirstMatch, DirRemove, At
  <2>2. Blank("deleted") \in Entries /\ Blank("deleted").kind # "end" /\ ~IsFile(Blank("deleted"))
    BY BlankTyped DEF Blank, IsFile
  <2> QED
    BY <1>1, <1>4, <2>1, <2>2 DEF DirRemove, PutEntry, IsMatch, Changes
<1> QED
  BY <1>2, <1>3, <1>4 DEF Entering

LEMMA EnteredLists ==
  ASSUME VolumeInv, Entering, NEW e, IsFile(e), Spared(e), NEW c \in Clusters, NEW s \in 1 .. Slots, Lists(dir, e, c, s)
  PROVE  Lists(dir', e, c, s)
<1>1. PICK r \in 1 .. Slots, n \in Entries :
        /\ dir' = [dir EXCEPT ![call.dcl][r] = n] /\ n.kind # "end"
        /\ ~IsFile(dir[call.dcl][r]) \/ (Changes(call) /\ dir[call.dcl][r].name = call.name)
        /\ ~IsFile(n) \/ (Changes(call) /\ n.name = call.name)
  BY EnteredElse
<1>2. call.dcl \in Clusters /\ dir \in [Clusters -> Sector]
  BY DEF VolumeInv, ClusterInv, CallInv, CallType, TypeInv, DirTyped
<1>3. \A b \in Clusters, t \in 1 .. Slots :
        dir'[b][t] = dir[b][t] \/ (b = call.dcl /\ t = r /\ dir'[b][t] = n)
  BY <1>1, <1>2 DEF Sector
<1>4. dir[c][s] = e
  BY DEF Lists
<1>5. ~(c = call.dcl /\ s = r)
  BY <1>1, <1>4 DEF Spared
<1>6. dir'[c][s] = e
  BY <1>3, <1>4, <1>5
<1>7. ~(IsFile(n) /\ n.name = e.name)
  BY <1>1 DEF Spared
<1>8. ASSUME NEW b \in Clusters, NEW q \in 1 .. Slots + 1, Passes(dir[b], e.name, q)
      PROVE  Passes(dir'[b], e.name, q)
  <2>1. \A t \in 1 .. q - 1 : t \in 1 .. Slots
    BY Bounds
  <2> QED
    BY <1>1, <1>3, <1>7, <1>8, <2>1 DEF Passes
<1>9. s \in 1 .. Slots + 1 /\ Slots + 1 \in 1 .. Slots + 1 /\ Root \in Clusters
  BY Bounds
<1> QED
  BY <1>6, <1>8, <1>9 DEF Lists, Comes

LEMMA WrittenDir ==
  ASSUME TypeInv, SyncWindow, NEW c \in Clusters, NEW g \in vdir'[c]
  PROVE  g \in vdir[c] \/ g = dir[c]
<1>1. CASE dirty
  BY <1>1 DEF SyncWindow, WriteBack
<1>2. CASE ~dirty
  BY <1>2 DEF SyncWindow, versions
<1> QED
  BY <1>1, <1>2

LEMMA DirListsStep ==
  ASSUME VolumeInv, [Next]_vars, NEW e, NEW c \in Clusters, NEW s \in 1 .. Slots, Held(e, c, s), Spared(e)
  PROVE  DirLists(e, c, s)'
<1>0. /\ DirLists(e, c, s) /\ FatHolds(e, c) /\ Own(e)
      /\ Lists(dir, e, c, s) /\ Lists(ddir, e, c, s) /\ Root \in Clusters
  BY Bounds DEF Held, DirLists
<1>1. CASE Still \/ Putting
  <2>1. UNCHANGED <<dir, ddir, vdir>>
    BY <1>1, PutLinks DEF Still, Putting, disk, versions, window
  <2> QED
    BY <1>0, <2>1 DEF DirLists
<1>2. CASE Settling
  <2>1. dir' = dir /\ ddir' = ddir
    BY <1>2 DEF Settling, disk, window
  <2>2. Lists(ddir', e, c, s) /\ Lists(dir', e, c, s)
    BY <1>0, <2>1
  <2>3. vdir' = [b \in Clusters |-> {ddir'[b]}]
    BY <1>2, <2>1 DEF Settling, Settle
  <2> QED
    BY <2>2, <2>3, DirListsSettled
<1>3. CASE Syncing
  <2>1. SyncWindow /\ (dir' = dir \/ dir' = ddir')
    BY <1>3 DEF Syncing, Fresh
  <2>2. ddir' = dir \/ ddir' = ddir
    BY <2>1, SyncedDir DEF VolumeInv
  <2>3. Lists(ddir', e, c, s) /\ Lists(dir', e, c, s)
    BY <1>0, <2>1, <2>2
  <2>4. \A b \in Clusters : \A g \in vdir'[b] : g \in vdir[b] \/ g = dir[b]
    BY <2>1, WrittenDir DEF VolumeInv
  <2>5. \A g \in vdir'[c] : g[s] = e /\ Passes(g, e.name, s)
    BY <1>0, <2>4 DEF DirLists, Lists, Comes
  <2>6. c # Root => \A g \in vdir'[Root] : Passes(g, e.name, Slots + 1)
    BY <1>0, <2>4 DEF DirLists, Lists, Comes
  <2> QED
    BY <2>3, <2>5, <2>6 DEF DirLists
<1>4. CASE Rereading
  <2>1. ddir' = ddir /\ dir' = ddir /\ vdir' = vdir
    BY <1>4 DEF Rereading, Fresh
  <2> QED
    BY <1>0, <2>1 DEF DirLists
<1>5. CASE Entering
  <2>1. ddir' = ddir /\ vdir' = vdir
    BY <1>5 DEF Entering, disk, versions
  <2>2. Lists(dir', e, c, s)
    BY <1>0, <1>5, EnteredLists DEF Own
  <2> QED
    BY <1>0, <2>1, <2>2 DEF DirLists
<1>6. CASE Zeroing
  <2>1. /\ call.ncl \in Clusters /\ call.ncl # Root /\ Blanked(ddir[call.ncl])
        /\ dir' = [ddir EXCEPT ![call.ncl] = Cleared] /\ (ddir' = ddir \/ ddir' = dir')
        /\ ddir \in [Clusters -> Sector] /\ vdir \in [Clusters -> SUBSET Sector]
    BY <1>6, ZeroWhere DEF VolumeInv, TypeInv, DirTyped
  <2>2. \E x : vdir' = [vdir EXCEPT ![call.ncl] = x]
    BY <1>6 DEF Zeroing, DirZero, DirZeroFails, ZeroWith
  <2>3. c # call.ncl
    BY <1>0, <2>1 DEF Lists, Blanked
  <2>4. \A b \in {c, Root} : dir'[b] = ddir[b] /\ ddir'[b] = ddir[b] /\ vdir'[b] = vdir[b]
    BY <1>0, <2>1, <2>2, <2>3
  <2> QED
    BY <1>0, <2>4 DEF DirLists, Lists, Comes
<1>7. CASE PowerLoss
  BY <1>0, <1>7, DirListsLost
<1> QED
  BY <1>1, <1>2, <1>3, <1>4, <1>5, <1>6, <1>7, Kinds DEF VolumeInv

LEMMA HeldStep ==
  ASSUME VolumeInv, [Next]_vars, NEW e, NEW c \in Clusters, NEW s \in 1 .. Slots, Held(e, c, s), Spared(e)
  PROVE  Held(e, c, s)'
BY FatHoldsStep, DirListsStep DEF Held

-----------------------------------------------------------------------------
(* Which call the next step is in.                                         *)
Same(k) == k.name = call.name /\ (Changes(k) => Changes(call))
Harmless(k) == k.goal \in {"none", "create", "exists", "free"} /\ k.pc \notin Adds

LEMMA CallGoes ==
  ASSUME VolumeInv, [Next]_vars
  PROVE  Harmless(call') \/ call'.pc = "register" \/ Same(call')
<1>0. call \in CallType /\ Placed(fat, dir, call)
  BY DEF VolumeInv, ClusterInv, CallInv, PlaceInv
<1>1. CASE call' = NoCall
  BY <1>1 DEF NoCall, Idle, Harmless, Adds
<1>2. CASE call' = call
  BY <1>2 DEF Same
<1>3. ASSUME NEW pc, call' = Go(pc), call.goal = "unlink" \/ call.pc \in Adds \/ pc \notin Adds
      PROVE  Same(call')
  <2>1. call'.pc = pc /\ call'.goal = call.goal /\ call'.name = call.name
    BY <1>0, <1>3, GoFields
  <2> QED
    BY <1>3, <2>1 DEF Same, Changes
<1>4. CASE Fail
  <2>1. CASE call.pc \in {"search", "alloc"} /\ call' = [call EXCEPT !.pc = "close", !.res = "nospace"]
    BY <1>0, <2>1 DEF CallType, Same, Changes, Adds
  <2>2. CASE call.pc \in {"close", "flush"} /\ call' = [call EXCEPT !.pc = "find", !.goal = "unlink", !.dcl = Root]
    BY <1>0, <2>2 DEF CallType, Same, Changes, Adds
  <2> QED
    BY <1>1, <1>4, <2>1, <2>2 DEF Fail, Return, Continue
<1>5. CASE Calls
  <2>1. ASSUME NEW goal \in {"create", "exists", "free"}, NEW n, NEW l, Begin(goal, n, l)
        PROVE  Harmless(call')
    <3>1. CASE vol = "none"
      BY <1>1, <2>1, <3>1 DEF Begin, Return, NoCall, Idle, Harmless, Adds
    <3>2. CASE vol # "none"
      <4>1. PICK pc \in {"follow", "mount"} :
              call' = [NoCall EXCEPT !.pc = pc, !.goal = goal, !.name = n, !.len = l]
        BY <2>1, <3>2 DEF Begin
      <4>2. call'.pc = pc /\ call'.goal = goal
        BY <4>1 DEF NoCall
      <4> QED
        BY <4>2 DEF Harmless, Adds
    <3> QED
      BY <3>1, <3>2
  <2> QED
    BY <1>2, <1>5, <2>1 DEF Calls, FatMount, FatUmount, FatGetFreeSpace, FatFileExists, FatFileCreate
<1>6. CASE MoveWindow \/ UNCHANGED vars
  BY <1>2, <1>6 DEF MoveWindow, vars
<1>7. CASE MountVolume \/ MountNoInfo
  <2>1. call' = Go("follow")
    BY <1>7 DEF MountVolume, MountNoInfo, MountWith, Continue
  <2> QED
    BY <1>3, <2>1 DEF Adds
<1>8. CASE FollowPath \/ DirFind \/ DirNext
  <2>1. CASE call' = [Go("count") EXCEPT !.clst = 2, !.ncl = 0]
    BY <1>0, <2>1 DEF Go, CallType, Same, Changes, Adds
  <2>2. CASE \E c : call' = [Go("find") EXCEPT !.dcl = c]
    BY <1>0, <2>2 DEF Go, CallType, Same, Changes, Adds
  <2>3. CASE \E r : call' = [Go("remove") EXCEPT !.slot = r]
    BY <1>0, <2>3 DEF Go, CallType, Same, Changes, Adds
  <2>4. CASE call' = [call EXCEPT !.pc = "register", !.dcl = Root]
    BY <1>0, <2>4 DEF CallType
  <2> QED
    BY <1>1, <1>8, <2>1, <2>2, <2>3, <2>4 DEF FollowPath, DirFind, DirNext, NotFound, Return, ReturnFree, Continue
<1>9. CASE DirFindNot
  <2>1. CASE call' = [call EXCEPT !.pc = "register", !.dcl = Root]
    BY <1>0, <2>1 DEF CallType
  <2>2. CASE call' = Go("findnext")
    BY <1>3, <2>2 DEF Adds
  <2> QED
    BY <1>1, <1>9, <2>1, <2>2 DEF DirFindNot, NotFound, Return, Continue
<1>10. CASE DirRegister \/ DirFull \/ DirStretch \/ ProbeHint \/ ChainNext \/ DirZero
  <2>1. call.pc \in Adds
    BY <1>10 DEF DirRegister, DirFull, DirStretch, ProbeHint, ChainNext, DirZero, ZeroWith, At, Adds
  <2>2. call' = NoCall \/ call'.name = call.name
    BY <1>0, <1>10 DEF DirRegister, DirFull, DirStretch, ProbeHint, ChainNext, DirZero, Return, Continue, Go,
       CallType
  <2> QED
    BY <1>1, <2>1, <2>2 DEF Same, Changes
<1>11. CASE TakeCluster \/ LinkCluster \/ DirClear \/ CloseEntry \/ DirRemove \/ Flush \/ WriteInfo \/ WriteInfoFails
  <2>1. call.goal = "unlink" \/ call.pc \in Adds
    BY <1>0, <1>11 DEF TakeCluster, LinkCluster, DirClear, CloseEntry, DirRemove, Flush, WriteInfo,
       WriteInfoFails, InfoWith, At, Adds, Placed, Looking
  <2>2. \E pc : call' = Go(pc)
    BY <1>11 DEF TakeCluster, LinkCluster, DirClear, CloseEntry, DirRemove, Flush, WriteInfo,
       WriteInfoFails, InfoWith, Continue
  <2> QED
    BY <1>3, <2>1, <2>2
<1>12. CASE ExpandStart \/ Search \/ Alloc
  <2>1. call.pc \in Adds
    BY <1>12 DEF ExpandStart, Search, Alloc, At, Adds
  <2>2. call'.name = call.name
    <3>1. CASE ExpandStart
      BY <1>0, <3>1 DEF ExpandStart, Continue, Go, CallType
    <3>2. CASE Search
      BY <1>0, <3>2, SearchGoes DEF Go, CallType
    <3>3. CASE Alloc
      BY <1>0, <3>3 DEF Alloc, Continue, Go, CallType
    <3> QED
      BY <1>12, <3>1, <3>2, <3>3
  <2> QED
    BY <2>1, <2>2 DEF Same, Changes
<1>13. CASE SyncFs \/ SyncFsFails
  <2>1. call.pc \in Adds /\ \E good : AfterSync(good)
    BY <1>13 DEF SyncFs, SyncFsFails, At, Adds
  <2>2. call' = NoCall \/ call'.name = call.name
    BY <1>0, <2>1 DEF AfterSync, Return, Continue, CallType
  <2> QED
    BY <1>1, <2>1, <2>2 DEF Same, Changes
<1>14. CASE CountSector
  <2>1. CASE \E c, n : call' = [call EXCEPT !.clst = c, !.ncl = n]
    BY <1>0, <2>1 DEF CallType, Same, Changes
  <2> QED
    BY <1>1, <1>14, <2>1 DEF CountSector, ReturnFree, Continue
<1>15. CASE Kill \/ PowerLoss
  BY <1>1, <1>15 DEF Kill, PowerLoss, Restart
<1>16. CASE Works
  BY <1>4, <1>6, <1>7, <1>8, <1>9, <1>10, <1>11, <1>12, <1>13, <1>14, <1>16 DEF Works, AllocPastEnd
<1>17. CASE Fails
  BY <1>4, <1>7, <1>11, <1>13, <1>17 DEF Fails, WriteFails, ReadFails, MountFails, DirZeroFails, FlushFails
<1> QED
  BY <1>5, <1>6, <1>15, <1>16, <1>17 DEF Next

-----------------------------------------------------------------------------
(* A promise is made by f_close when the medium has everything.            *)
LEMMA NewEntryIs == NewEntry = EntryOf(call)
<1>1. NewEntry = NewFileWith(call.name, call.scl, call.len)
  BY Zenon DEF NewEntry, NewFileWith
<1>2. EntryOf(call) = FileWith(call.name, call.scl, call.len, NotOld)
  BY Zenon DEF EntryOf, FileWith, NotOld
<1> QED
  BY <1>1, <1>2, NewFileSet, Zenon

LEMMA PromisedGrows ==
  ASSUME [Next]_vars
  PROVE  \/ promised' = promised
         \/ /\ SyncFs /\ call.goal = "create" /\ call.res = "ok"
            /\ call' = NoCall /\ promised' = promised \cup {EntryOf(call)}
<1>1. CASE UNCHANGED vars
  BY <1>1 DEF vars
<1>2. CASE Calls
  BY <1>2 DEF Calls, FatMount, FatUmount, FatGetFreeSpace, FatFileExists, FatFileCreate, Begin, Return
<1>3. CASE Fail
  BY <1>3 DEF Fail, Return, Continue
<1>4. CASE Works
  <2>1. CASE MoveWindow \/ MountVolume \/ FollowPath \/ DirFind \/ DirFindNot \/ DirNext
    BY <2>1 DEF MoveWindow, MountVolume, MountWith, FollowPath, DirFind, DirFindNot, DirNext, NotFound, Return,
       ReturnFree, Continue
  <2>2. CASE DirRegister \/ DirFull \/ DirStretch \/ TakeCluster \/ ProbeHint \/ ChainNext \/ LinkCluster
    BY <2>2 DEF DirRegister, DirFull, DirStretch, TakeCluster, ProbeHint, ChainNext, LinkCluster, Return, Continue
  <2>3. CASE DirClear \/ DirZero \/ ExpandStart \/ Search \/ Alloc \/ CloseEntry \/ DirRemove \/ Flush \/ WriteInfo
    BY <2>3 DEF DirClear, DirZero, ExpandStart, Search, Alloc, CloseEntry, DirRemove, Flush, WriteInfo, InfoWith,
       Continue
  <2>4. CASE CountSector
    BY <2>4 DEF CountSector, ReturnFree, Continue
  <2>5. CASE SyncFs
    <3>1. AfterSync(~faulty)
      BY <2>5 DEF SyncFs
    <3>2. CASE call.goal = "create" /\ call.res = "ok"
      BY <2>5, <3>1, <3>2, NewEntryIs DEF AfterSync
    <3>3. CASE ~(call.goal = "create" /\ call.res = "ok")
      BY <3>1, <3>3 DEF AfterSync, Return, Continue
    <3> QED
      BY <3>2, <3>3
  <2> QED
    BY <1>3, <1>4, <2>1, <2>2, <2>3, <2>4, <2>5 DEF Works, AllocPastEnd
<1>5. CASE Fails
  <2>1. CASE SyncFsFails
    BY <2>1 DEF SyncFsFails, AfterSync, Return, Continue
  <2>2. CASE MountNoInfo \/ WriteInfoFails
    BY <2>2 DEF MountNoInfo, MountWith, WriteInfoFails, InfoWith, Continue
  <2> QED
    BY <1>3, <1>5, <2>1, <2>2 DEF Fails, WriteFails, ReadFails, MountFails, DirZeroFails, FlushFails
<1>6. CASE Kill \/ PowerLoss
  BY <1>6 DEF Kill, PowerLoss, Restart
<1> QED
  BY <1>1, <1>2, <1>4, <1>5, <1>6 DEF Next

LEMMA NewHeld ==
  ASSUME VolumeInv, Built(fat, call), SyncFs, call.goal = "create", call.res = "ok", NEW e, e = EntryOf(call)
  PROVE  \E c \in Clusters, s \in 1 .. Slots : Held(e, c, s)'
<1>1. PICK c \in Clusters, s \in 1 .. Slots :
        c = call.dcl /\ s = call.slot /\ FirstMatch(fat, dir, call.name, c, s) /\ dir[c][s] = e
  BY DEF SyncFs, At, VolumeInv, ClusterInv, CallInv, CallType, PlaceInv, Placed, Added
<1>2. Chained(fat, e) /\ Root \notin Area(e) /\ Own(e) /\ call.pc = "syncfs"
  BY DEF Built, EntryOf, IsFile, Own, SyncFs, At
<1>3. dirty = FALSE
  BY <1>2 DEF VolumeInv, WindowInv, DirWindow, TypeInv, InfoTyped
<1>4. dfat = fat /\ Similar(dir, ddir)
  BY <1>3, CleanView
<1>5. FirstMatch(fat, ddir, call.name, c, s) /\ ddir[c] = dir[c]
  BY <1>1, <1>2, <1>4, SimilarFirst
<1>6. Lists(dir, e, c, s) /\ Lists(ddir, e, c, s)
  <2>1. e.name = call.name
    BY DEF EntryOf
  <2> QED
    BY <1>1, <1>5, <2>1, MatchComes DEF Lists
<1>7. Holds(fat, e, c)
  BY <1>1, <1>2 DEF Holds, Chained, FirstMatch, Reached
<1>8. dfat' = fat /\ fat' = fat /\ dir' = dir /\ ddir' = ddir
  BY <1>4 DEF SyncFs, disk, window
<1>9. /\ vfat' = [r \in FatSecs |-> {[b \in Clusters |-> IF FatSec(b) = r THEN dfat'[b] ELSE 0]}]
      /\ vdir' = [b \in Clusters |-> {ddir'[b]}]
  BY <1>4, <1>8 DEF SyncFs, Settle
<1>10. Holds(dfat', e, c) /\ Holds(fat', e, c) /\ Lists(ddir', e, c, s) /\ Lists(dir', e, c, s)
  BY <1>6, <1>7, <1>8
<1>11. FatHolds(e, c)'
  BY <1>9, <1>10, FatHoldsSettled
<1>12. DirLists(e, c, s)'
  BY <1>9, <1>10, DirListsSettled
<1> QED
  BY <1>2, <1>11, <1>12 DEF Held

LEMMA HeldFirst ==
  ASSUME NEW f, NEW d, NEW e, IsFile(e), NEW c \in Clusters, NEW s \in 1 .. Slots, Holds(f, e, c), Lists(d, e, c, s)
  PROVE  FirstMatch(f, d, e.name, c, s) /\ d[c][s] = e
BY MatchComes DEF Holds, Lists

LEMMA FirstAbsent ==
  ASSUME NEW f, NEW d, NEW n, Absent(f, d, n), NEW c \in Clusters, NEW s \in 1 .. Slots
  PROVE  ~FirstMatch(f, d, n, c, s)
BY DEF Absent, Missing, FirstMatch, Reached, Passed

LEMMA PromiseKept ==
  ASSUME KeptInv, [Next]_vars, NEW e \in promised
  PROVE  Spared(e)' /\ \E c \in Clusters, s \in 1 .. Slots : Held(e, c, s)'
<1>1. PICK c \in Clusters, s \in 1 .. Slots : Held(e, c, s)
  BY DEF KeptInv, PromiseInv
<1>2. VolumeInv /\ Spared(e)
  BY DEF KeptInv, PromiseInv
<1>3. Held(e, c, s)'
  BY <1>1, <1>2, HeldStep
<1>4. Spared(e)'
  <2>1. CASE Harmless(call')
    BY <2>1 DEF Harmless, Spared, Changes
  <2>2. CASE Same(call')
    BY <1>2, <2>2 DEF Same, Spared
  <2>3. CASE call'.pc = "register"
    <3>1. Absent(fat', dir', call'.name)
      BY <1>2, <2>3, VolumeStep DEF VolumeInv, PlaceInv, Placed, Adding
    <3>2. Holds(fat', e, c) /\ Lists(dir', e, c, s) /\ IsFile(e)
      BY <1>3 DEF Held, Own, FatHolds, DirLists
    <3>3. e.name # call'.name
      BY <3>1, <3>2, HeldFirst, FirstAbsent
    <3> QED
      BY <3>3 DEF Spared
  <2> QED
    BY <1>2, <2>1, <2>2, <2>3, CallGoes
<1> QED
  BY <1>3, <1>4

LEMMA KeptStep ==
  ASSUME KeptInv, [Next]_vars
  PROVE  KeptInv'
<1>1. VolumeInv' /\ Built(fat', call')
  BY VolumeStep, BuiltStep DEF KeptInv
<1>2. ASSUME NEW e \in promised'
      PROVE  Spared(e)' /\ \E c \in Clusters, s \in 1 .. Slots : Held(e, c, s)'
  <2>1. CASE e \in promised
    BY <2>1, PromiseKept
  <2>2. CASE SyncFs /\ call.goal = "create" /\ call.res = "ok" /\ call' = NoCall /\ e = EntryOf(call)
    <3>1. \E c \in Clusters, s \in 1 .. Slots : Held(e, c, s)'
      BY <2>2, NewHeld DEF KeptInv
    <3>2. Spared(e)'
      BY <2>2 DEF Spared, Changes, Adds, NoCall, Idle
    <3> QED
      BY <3>1, <3>2
  <2> QED
    BY <1>2, <2>1, <2>2, PromisedGrows
<1>3. PromiseInv'
  BY <1>2 DEF PromiseInv
<1> QED
  BY <1>1, <1>3 DEF KeptInv

LEMMA KeptInit == Init => KeptInv
<1> SUFFICES ASSUME Init PROVE KeptInv
  OBVIOUS
<1>1. PICK v \in Volumes : /\ dfat = v.fat /\ fat = v.fat /\ v.fat[Root] = EOC /\ Sound(v)
                           /\ ddir = [v.old EXCEPT ![Root] = v.dir] /\ dir = ddir
                           /\ v.old \in [Clusters -> Sector]
                           /\ promised = {v.dir[s] : s \in {t \in 1 .. Slots : IsFile(v.dir[t])}}
  BY RootStart
<1>2. VolumeInv /\ Built(fat, call)
  BY VolumeInit, PlainBuilt DEF Init, NoCall, Idle
<1>3. ASSUME NEW e \in promised
      PROVE  Spared(e) /\ \E c \in Clusters, s \in 1 .. Slots : Held(e, c, s)
  <2>1. PICK s \in 1 .. Slots : e = v.dir[s] /\ IsFile(v.dir[s])
    BY <1>1, <1>3
  <2>2. Chained(v.fat, e) /\ Root \notin Area(e) /\ Passes(v.dir, e.name, s)
    <3>1. \A t \in 1 .. s - 1 : t \in 1 .. Slots \ {s}
      BY Bounds
    <3> QED
      BY <1>1, <2>1, <3>1 DEF Sound, Passes
  <2>3. ddir[Root] = v.dir /\ dir[Root] = v.dir
    BY <1>1, Bounds
  <2>4. Lists(ddir, e, Root, s) /\ Lists(dir, e, Root, s)
    BY <2>1, <2>2, <2>3 DEF Lists, Comes
  <2>5. DirLists(e, Root, s)
    BY <2>4, Bounds DEF DirLists, Lists, Comes, Init
  <2>6. Holds(fat, e, Root) /\ Holds(dfat, e, Root)
    BY <1>1, <2>2 DEF Holds, Chained
  <2>7. \A x \in Area(e) : \A f \in vfat[FatSec(x)] : f[x] = dfat[x]
    BY DEF Init, Area, FatSecs
  <2>8. FatHolds(e, Root)
    BY <2>6, <2>7 DEF FatHolds, Holds
  <2>9. Held(e, Root, s)
    BY <1>1, <2>1, <2>2, <2>5, <2>8 DEF Held, Own, Sound
  <2>10. Spared(e)
    BY DEF Init, Spared, Changes, Adds, NoCall, Idle
  <2> QED
    BY <2>9, <2>10, Bounds
<1> QED
  BY <1>2, <1>3 DEF KeptInv, PromiseInv

LEMMA KeptAlways == Spec => []KeptInv
<1>1. KeptInv /\ [Next]_vars => KeptInv'
  BY KeptStep
<1> QED
  BY <1>1, KeptInit, PTL DEF Spec

(* PromisedFilesStay: a file of the first volume, or one whose creation    *)
(* was answered OK without a disk error, is found with its whole chain     *)
(* ever after: through failing accesses, kills and power losses, later     *)
(* calls, and wherever the window and the versions of a sector not yet on  *)
(* the medium stand.                                                       *)
THEOREM PromisesKept == Spec => []PromisedFilesStay
<1>1. KeptInv => PromisedFilesStay
  <2> SUFFICES ASSUME KeptInv, NEW e \in promised
               PROVE  e \in FilesOf(fat, dir) /\ Chained(fat, e)
    BY DEF PromisedFilesStay
  <2>1. PICK c \in Clusters, s \in 1 .. Slots : Held(e, c, s)
    BY DEF KeptInv, PromiseInv
  <2>2. Holds(fat, e, c) /\ Lists(dir, e, c, s) /\ IsFile(e)
    BY <2>1 DEF Held, Own, FatHolds, DirLists
  <2>3. c \in Linked(fat) /\ dir[c][s] = e
    BY <2>2 DEF Holds, Lists, Linked
  <2>4. <<c, s>> \in Listed(fat, dir)
    BY <2>2, <2>3 DEF Listed
  <2>5. e \in FilesOf(fat, dir)
    BY <2>2, <2>3, <2>4 DEF FilesOf, Lists
  <2> QED
    BY <2>2, <2>5 DEF Holds, Chained
<1> QED
  BY <1>1, KeptAlways, PTL

-----------------------------------------------------------------------------
(* Part 5: the library as a store of files (FileStore): the entries that a *)
(* search for their name comes to, and what each step does to them.        *)

(* The files that a search for their name finds.                           *)
LEMMA FilesAre ==
  ASSUME NEW f, NEW d, NEW e
  PROVE  e \in FilesOf(f, d) <=> \E c \in Clusters, s \in 1 .. Slots : FirstMatch(f, d, e.name, c, s) /\ d[c][s] = e
<1>1. ASSUME e \in FilesOf(f, d)
      PROVE  \E c \in Clusters, s \in 1 .. Slots : FirstMatch(f, d, e.name, c, s) /\ d[c][s] = e
  <2>1. PICK p \in Linked(f) \X (1 .. Slots) :
          IsFile(d[p[1]][p[2]]) /\ Comes(d, d[p[1]][p[2]].name, p[1], p[2]) /\ e = d[p[1]][p[2]]
    BY <1>1 DEF FilesOf, Listed
  <2>2. p[1] \in Clusters /\ (p[1] = Root \/ p[1] = f[Root]) /\ p[2] \in 1 .. Slots
    BY Bounds DEF Linked
  <2>3. FirstMatch(f, d, e.name, p[1], p[2])
    BY <2>1, <2>2, MatchComes
  <2> QED
    BY <2>1, <2>2, <2>3
<1>2. ASSUME NEW c \in Clusters, NEW s \in 1 .. Slots, FirstMatch(f, d, e.name, c, s), d[c][s] = e
      PROVE  e \in FilesOf(f, d)
  <2>1. (c = Root \/ c = f[Root]) /\ IsFile(d[c][s]) /\ Comes(d, e.name, c, s)
    BY <1>2, MatchComes
  <2>2. <<c, s>> \in Linked(f) \X (1 .. Slots)
    BY <2>1 DEF Linked
  <2>3. <<c, s>> \in {q \in Listed(f, d) : Comes(d, d[q[1]][q[2]].name, q[1], q[2])}
    BY <1>2, <2>1, <2>2 DEF Listed
  <2> QED
    BY <1>2, <2>3 DEF FilesOf
<1> QED
  BY <1>1, <1>2

LEMMA FileUnique ==
  ASSUME NEW f, NEW d, NEW e \in FilesOf(f, d), NEW g \in FilesOf(f, d), g.name = e.name
  PROVE  g = e
<1>1. PICK b \in Clusters, s \in 1 .. Slots : FirstMatch(f, d, e.name, b, s) /\ d[b][s] = e
  BY FilesAre
<1>2. PICK c \in Clusters, t \in 1 .. Slots : FirstMatch(f, d, g.name, c, t) /\ d[c][t] = g
  BY FilesAre
<1>3. b = c /\ s = t
  BY <1>1, <1>2, FirstUnique
<1> QED
  BY <1>1, <1>2, <1>3

LEMMA FileFound ==
  ASSUME NEW f, NEW d, NEW n
  PROVE  (\E e \in FilesOf(f, d) : e.name = n) <=> \E c \in Clusters, s \in 1 .. Slots : FirstMatch(f, d, n, c, s)
<1>1. ASSUME NEW c \in Clusters, NEW s \in 1 .. Slots, FirstMatch(f, d, n, c, s)
      PROVE  d[c][s] \in FilesOf(f, d) /\ d[c][s].name = n
  <2>1. d[c][s].name = n
    BY <1>1 DEF FirstMatch, IsMatch
  <2> QED
    BY <1>1, <2>1, FilesAre
<1> QED
  BY <1>1, FilesAre

(* What does not change the files.  The cluster that stretches the         *)
(* directory counts when it is cleared; every other step is plain.         *)
LEMMA LinkedFilesOf ==
  ASSUME NEW f, NEW g, NEW d, Linked(f) = Linked(g)
  PROVE  FilesOf(f, d) = FilesOf(g, d)
BY DEF FilesOf, Listed

Clearing == call.pc \in {"clear", "zero"}

LEMMA PlainShown ==
  ASSUME VolumeInv, [Next]_vars, ~Clearing, ~LinkCluster
  PROVE  ~Clearing' /\ Shown = FilesOf(fat, dir) /\ Shown' = FilesOf(fat', dir')
<1>0. call \in CallType
  BY DEF VolumeInv, ClusterInv, CallInv
<1>1. ~Clearing'
  <2> SUFFICES ASSUME call'.pc \in {"clear", "zero"}
               PROVE  FALSE
    BY DEF Clearing
  <2>1. \A pc \in {"link", "info", "syncfs"} : call' # Go(pc)
    BY <1>0, GoFields
  <2>2. ~DirClear /\ call' # call
    BY DEF DirClear, At, Clearing
  <2> QED
    BY <1>0, <2>1, <2>2, LateCalls DEF vars
<1> QED
  BY <1>1 DEF Shown, Finished, Clearing

LEMMA FilesStay ==
  ASSUME VolumeInv, Still \/ Settling \/ (Syncing /\ (dirty \/ dir = ddir)) \/ (Putting /\ ~LinkCluster)
  PROVE  FilesOf(fat', dir') = FilesOf(fat, dir)
<1>1. CASE Still \/ Settling
  BY <1>1 DEF Still, Settling, window
<1>2. CASE Syncing /\ (dirty \/ dir = ddir)
  <2>1. ddir' = dir
    BY <1>2, SyncedDir DEF VolumeInv, Syncing
  <2>2. fat' = fat /\ dir' = dir
    BY <1>2, <2>1, SyncingView DEF Syncing, Fresh
  <2> QED
    BY <2>2
<1>3. CASE Putting /\ ~LinkCluster
  <2>1. Linked(fat') = Linked(fat) /\ dir' = dir
    BY <1>3, PutLinks
  <2> QED
    BY <2>1, LinkedFilesOf
<1> QED
  BY <1>1, <1>2, <1>3

LEMMA InfoStays ==
  ASSUME VolumeInv, WriteInfo \/ WriteInfoFails
  PROVE  fat' = fat /\ dir' = dir
<1>3. \E i : InfoWith(i)
  BY Zenon DEF WriteInfo, WriteInfoFails
<1>0. call.pc = "info"
  BY <1>3 DEF InfoWith, At
<1>1. dirty = FALSE
  BY <1>0 DEF VolumeInv, WindowInv, DirWindow, TypeInv, InfoTyped
<1>5. ~Started
  BY <1>0 DEF Started, Idle
<1>6. dfat = fat /\ (dir = ddir \/ Started)
  BY <1>1, CleanView
<1>2. dfat = fat /\ dir = ddir
  BY <1>5, <1>6, Zenon
<1>4. fat' = dfat' /\ dir' = ddir' /\ dfat' = dfat /\ ddir' = ddir
  BY <1>3 DEF InfoWith, Fresh
<1> QED
  BY <1>2, <1>4

LEMMA LinkStays ==
  ASSUME VolumeInv, LinkCluster
  PROVE  Linked(Finished') = Linked(Finished) /\ dir' = dir /\ Shown' = Shown
<1>1. /\ call.pc = "link" /\ fat[Root] = EOC /\ fat' = [fat EXCEPT ![Root] = call.ncl] /\ dir' = dir
      /\ call \in CallType /\ fat \in [Clusters -> 0 .. N + 1]
  BY DEF LinkCluster, At, PutFat, VolumeInv, ClusterInv, CallInv, Stretching, TypeInv, FatTyped
<1>2. call'.pc = "clear"
  BY <1>1, GoFields DEF LinkCluster, Continue
<1>3. Finished = fat /\ Finished' = [fat' EXCEPT ![Root] = EOC]
  BY <1>1, <1>2 DEF Finished
<1>4. Linked(Finished') = Linked(Finished)
  BY <1>1, <1>3, Bounds DEF Linked
<1> QED
  BY <1>1, <1>4, LinkedFilesOf DEF Shown

LEMMA ZeroStays ==
  ASSUME VolumeInv, DirZero
  PROVE  Shown' = Shown
<1>1. /\ call.pc = "zero" /\ call.ncl \in Clusters /\ call.ncl # Root /\ fat[Root] = call.ncl /\ fat' = fat
      /\ dir' = [dir EXCEPT ![call.ncl] = Cleared]
      /\ call \in CallType /\ fat \in [Clusters -> 0 .. N + 1] /\ dir \in [Clusters -> Sector] /\ Root \in Clusters
  BY ZeroWhere, Bounds DEF DirZero, ZeroWith, Zeroing, At, VolumeInv, ClusterInv, CallInv, TypeInv, FatTyped, DirTyped
<1>2. call'.pc = "register"
  BY <1>1 DEF DirZero, Continue, Go, CallType
<1>3. PICK f : f = [fat EXCEPT ![Root] = EOC]
  OBVIOUS
<1>4. Shown = FilesOf(f, dir) /\ Shown' = FilesOf(fat', dir')
  BY <1>1, <1>2, <1>3 DEF Shown, Finished
<1>5. dir'[Root] = dir[Root] /\ dir'[call.ncl] = Cleared /\ f[Root] = EOC
  BY <1>1, <1>3
<1>6. ASSUME NEW n, NEW c \in Clusters, NEW s \in 1 .. Slots
      PROVE  FirstMatch(f, dir, n, c, s) <=> FirstMatch(fat', dir', n, c, s)
  <2>1. CASE c = Root
    BY <1>5, <2>1 DEF FirstMatch, Reached
  <2>2. CASE c # Root
    <3>1. ~FirstMatch(f, dir, n, c, s)
      BY <1>5, <2>2, Bounds DEF FirstMatch, Reached
    <3>2. ~FirstMatch(fat', dir', n, c, s)
      BY <1>1, <1>5, <2>2, ClearedMissing DEF FirstMatch, Reached, Missing
    <3> QED
      BY <3>1, <3>2
  <2> QED
    BY <2>1, <2>2
<1>7. ASSUME NEW n, NEW c \in Clusters, NEW s \in 1 .. Slots, FirstMatch(f, dir, n, c, s)
      PROVE  dir'[c] = dir[c]
  BY <1>5, <1>7, Bounds DEF FirstMatch, Reached
<1>8. \A e : e \in FilesOf(f, dir) <=> e \in FilesOf(fat', dir')
  BY <1>6, <1>7, FilesAre
<1> QED
  BY <1>4, <1>8

-----------------------------------------------------------------------------
(* What only an error, a kill or a power loss can bring about: a clean     *)
(* window between the writes of a call that is not as the disk, and an     *)
(* entry of the directory that was left over from before.                  *)
Writing == {"link", "clear", "expand", "search", "alloc", "close", "flush"}
Tallied == faults \in Nat /\ kills \in Nat /\ losses \in Nat
Untroubled == faults = 0 /\ kills = 0 /\ losses = 0
OwnOnly(f, d) == \A c \in Linked(f), s \in 1 .. Slots : IsFile(d[c][s]) => ~d[c][s].old
CalmWindow == faults = 0 => (call.pc \notin Writing => ~dirty) /\ (~dirty => dir = ddir)
NoRelics == Untroubled => OwnOnly(Finished, dir)
CalmInv == Tallied /\ CalmWindow /\ NoRelics

LEMMA BeginQuiet ==
  ASSUME NEW goal, NEW n, NEW l, Begin(goal, n, l)
  PROVE  call.pc = Idle /\ UNCHANGED <<disk, versions, window>> /\ mishaps' = mishaps
BY DEF Begin, At

LEMMA TalliesGrow ==
  ASSUME [Next]_vars
  PROVE  /\ faults' = faults \/ faults' = faults + 1
         /\ kills' = kills \/ kills' = kills + 1
         /\ losses' = losses \/ losses' = losses + 1
<1>1. CASE UNCHANGED vars
  BY <1>1 DEF vars, mishaps
<1>2. CASE Calls
  <2>1. mishaps' = mishaps
    BY <1>2, BeginQuiet DEF Calls, FatMount, FatUmount, FatGetFreeSpace, FatFileExists, FatFileCreate, calm
  <2> QED
    BY <2>1 DEF mishaps
<1>3. CASE Works
  <2>1. CASE MoveWindow \/ MountVolume \/ FollowPath \/ DirFind \/ DirFindNot \/ DirNext \/ DirRegister \/ DirFull
    BY <2>1 DEF MoveWindow, MountVolume, FollowPath, DirFind, DirFindNot, DirNext, DirRegister, DirFull,
       InMemory, calm, mishaps
  <2>2. CASE DirStretch \/ TakeCluster \/ ProbeHint \/ ChainNext \/ LinkCluster \/ DirClear \/ DirZero
    BY <2>2 DEF DirStretch, TakeCluster, ProbeHint, ChainNext, LinkCluster, DirClear, DirZero, InMemory,
       calm, mishaps
  <2>3. CASE ExpandStart \/ Search \/ Alloc \/ AllocPastEnd \/ CloseEntry \/ DirRemove
    BY <2>3 DEF ExpandStart, Search, Alloc, AllocPastEnd, CloseEntry, DirRemove, InMemory, calm, mishaps
  <2>4. CASE Flush \/ WriteInfo \/ SyncFs \/ CountSector
    BY <2>4 DEF Flush, WriteInfo, SyncFs, CountSector, calm, mishaps
  <2> QED
    BY <1>3, <2>1, <2>2, <2>3, <2>4 DEF Works
<1>4. CASE Fails
  BY <1>4 DEF Fails, WriteFails, ReadFails, MountNoInfo, MountFails, DirZeroFails, FlushFails,
     WriteInfoFails, SyncFsFails, Fault
<1>5. CASE Kill \/ PowerLoss
  BY <1>5 DEF Kill, PowerLoss
<1> QED
  BY <1>1, <1>2, <1>3, <1>4, <1>5 DEF Next

LEMMA CalmTwice ==
  ASSUME Tallied, [Next]_vars
  PROVE  Tallied' /\ (faults' = 0 => faults = 0 /\ ~Fails) /\ (Untroubled' => Untroubled /\ ~Fails /\ ~Kill /\ ~PowerLoss)
<1>1. Tallied' /\ (faults' = 0 => faults = 0) /\ (Untroubled' => Untroubled)
  BY TalliesGrow DEF Tallied, Untroubled
<1>2. Fails => faults' = faults + 1
  BY DEF Fails, WriteFails, ReadFails, MountNoInfo, MountFails, DirZeroFails, FlushFails,
     WriteInfoFails, SyncFsFails, Fault
<1>3. (Kill => kills' = kills + 1) /\ (PowerLoss => losses' = losses + 1)
  BY DEF Kill, PowerLoss
<1> QED
  BY <1>1, <1>2, <1>3 DEF Tallied, Untroubled

LEMMA CalmWindowStep ==
  ASSUME VolumeInv, CalmInv, [Next]_vars
  PROVE  CalmWindow'
<1> SUFFICES ASSUME faults' = 0
             PROVE  (call.pc \notin Writing => ~dirty)' /\ (~dirty => dir = ddir)'
  BY DEF CalmWindow
<1>0. /\ faults = 0 /\ ~Fails /\ (call.pc \notin Writing => ~dirty) /\ (~dirty => dir = ddir)
      /\ call \in CallType /\ dirty \in BOOLEAN
  BY CalmTwice DEF CalmInv, CalmWindow, VolumeInv, ClusterInv, CallInv, TypeInv, InfoTyped
<1>1. ASSUME UNCHANGED <<dirty, dir, ddir>>, call.pc \notin Writing \/ call'.pc \in Writing
      PROVE  (call.pc \notin Writing => ~dirty)' /\ (~dirty => dir = ddir)'
  BY <1>0, <1>1
<1>2. ASSUME dirty' = FALSE, dir' = ddir'
      PROVE  (call.pc \notin Writing => ~dirty)' /\ (~dirty => dir = ddir)'
  BY <1>2
<1>3. ASSUME dirty' = TRUE, call'.pc \in Writing
      PROVE  (call.pc \notin Writing => ~dirty)' /\ (~dirty => dir = ddir)'
  BY <1>3
<1>4. CASE UNCHANGED vars
  BY <1>1, <1>4 DEF vars, disk, window
<1>5. CASE Calls
  <2>0. call.pc = Idle /\ UNCHANGED <<disk, window>>
    BY <1>5, BeginQuiet DEF Calls, FatMount, FatUmount, FatGetFreeSpace, FatFileExists, FatFileCreate, At
  <2>1. UNCHANGED <<dirty, dir, ddir>> /\ call.pc \notin Writing
    BY <2>0 DEF disk, window, Idle, Writing
  <2> QED
    BY <1>1, <2>1
<1>6. CASE FollowPath \/ DirFind \/ DirFindNot \/ DirNext \/ DirFull \/ DirStretch \/ ProbeHint \/ ChainNext
  <2>1. UNCHANGED <<dirty, dir, ddir>> /\ call.pc \notin Writing
    BY <1>6 DEF FollowPath, DirFind, DirFindNot, DirNext, DirFull, DirStretch, ProbeHint, ChainNext, InMemory,
       disk, window, At, Writing
  <2> QED
    BY <1>1, <2>1
<1>7. CASE SyncFs \/ CountSector
  <2>1. UNCHANGED <<dirty, dir, ddir>> /\ call.pc \notin Writing
    BY <1>7 DEF SyncFs, CountSector, disk, window, At, Writing
  <2> QED
    BY <1>1, <2>1
<1>8. CASE ExpandStart \/ Search \/ AllocPastEnd
  <2>1. UNCHANGED <<dirty, dir, ddir>>
    BY <1>8 DEF ExpandStart, Search, AllocPastEnd, InMemory, disk, window
  <2>2. CASE ExpandStart
    BY <1>0, <1>1, <2>1, <2>2 DEF ExpandStart, Continue, Go, CallType, Writing
  <2>3. CASE Search
    <3>1. call'.pc \in {"search", "alloc", "close"}
      BY <1>0, <2>3, SearchGoes DEF Go, CallType, Search, At
    <3> QED
      BY <1>1, <2>1, <3>1 DEF Writing
  <2>4. CASE AllocPastEnd
    <3>1. call.goal = "create" /\ call.pc = "alloc"
      BY <2>4 DEF AllocPastEnd, At, VolumeInv, PlaceInv, Placed, Added
    <3>2. call' = [call EXCEPT !.pc = "close", !.res = "nospace"]
      BY <2>4, <3>1 DEF AllocPastEnd, Fail, Continue
    <3>3. call'.pc = "close"
      BY <1>0, <3>2 DEF CallType
    <3> QED
      BY <1>1, <2>1, <3>3 DEF Writing
  <2> QED
    BY <1>8, <2>2, <2>3, <2>4
<1>9. CASE MoveWindow \/ MountVolume \/ WriteInfo \/ DirZero
  <2>1. CASE MoveWindow
    BY <1>2, <2>1 DEF MoveWindow, Fresh
  <2>2. CASE MountVolume
    BY <1>2, <2>2 DEF MountVolume, MountWith, disk
  <2>3. CASE WriteInfo
    BY <1>2, <2>3 DEF WriteInfo, InfoWith, Fresh
  <2>4. CASE DirZero
    BY <1>2, <2>4 DEF DirZero, ZeroWith
  <2> QED
    BY <1>9, <2>1, <2>2, <2>3, <2>4
<1>10. CASE DirClear \/ Flush
  <2>1. SyncWindow /\ dirty' = FALSE /\ dir' = dir
    BY <1>10 DEF DirClear, Flush
  <2>2. ddir' = dir \/ (ddir' = ddir /\ ~dirty)
    BY <2>1, SyncedDir DEF VolumeInv
  <2> QED
    BY <1>0, <1>2, <2>1, <2>2
<1>11. CASE TakeCluster \/ LinkCluster \/ Alloc
  <2>1. dirty' = TRUE
    BY <1>11 DEF TakeCluster, LinkCluster, Alloc, PutFat
  <2>2. call'.pc \in {"link", "clear", "alloc", "close"}
    <3>1. CASE TakeCluster \/ LinkCluster
      BY <1>0, <3>1, GoFields DEF TakeCluster, LinkCluster, Continue
    <3>2. CASE Alloc
      BY <1>0, <3>2 DEF Alloc, Continue, Go, CallType, At
    <3> QED
      BY <1>11, <3>1, <3>2
  <2> QED
    BY <1>3, <2>1, <2>2 DEF Writing
<1>12. CASE DirRegister \/ CloseEntry \/ DirRemove
  <2>1. dirty' = TRUE
    BY <1>12 DEF DirRegister, CloseEntry, DirRemove, PutEntry
  <2>2. call'.pc \in {"expand", "flush"}
    <3>1. CASE DirRegister
      BY <1>0, <3>1 DEF DirRegister, Continue, Go, CallType
    <3>2. CASE CloseEntry \/ DirRemove
      BY <1>0, <3>2, GoFields DEF CloseEntry, DirRemove, Continue
    <3> QED
      BY <1>12, <3>1, <3>2
  <2> QED
    BY <1>3, <2>1, <2>2 DEF Writing
<1>13. CASE Kill \/ PowerLoss
  BY <1>2, <1>13 DEF Kill, PowerLoss, Restart, Fresh
<1> QED
  BY <1>0, <1>4, <1>5, <1>6, <1>7, <1>8, <1>9, <1>10, <1>11, <1>12, <1>13 DEF Next, Works

(* What a step without an error makes of the directory.                    *)
LEMMA EnteredOwn ==
  ASSUME VolumeInv, Entering, OwnOnly(fat, dir)
  PROVE  OwnOnly(fat', dir')
<1>1. fat' = fat /\ call.dcl \in Clusters /\ dir \in [Clusters -> Sector]
  BY EnteredWhere DEF VolumeInv, TypeInv, DirTyped
<1>2. PICK r, n : r \in 1 .. Slots /\ dir' = [dir EXCEPT ![call.dcl][r] = n] /\ (IsFile(n) => n.old = NotOld)
  <2>1. CASE DirRegister
    <3>1. PICK r \in 1 .. Slots : dir' = [dir EXCEPT ![call.dcl][r] = NewFile(call.name)]
      BY <2>1 DEF DirRegister, PutEntry
    <3>2. NewFile(call.name).old = NotOld
      BY Zenon DEF NewFile, NotOld
    <3> QED
      BY <3>1, <3>2
  <2>2. CASE CloseEntry
    <3>1. dir' = [dir EXCEPT ![call.dcl][call.slot] = IF call.res = "ok" THEN EntryOf(call) ELSE NewFile(call.name)]
      BY <2>2, ClosedPlaced
    <3>2. NewFile(call.name).old = NotOld /\ EntryOf(call).old = NotOld
      BY Zenon DEF NewFile, EntryOf, NotOld
    <3>3. call.slot \in 1 .. Slots
      BY DEF VolumeInv, ClusterInv, CallInv, CallType
    <3>4. PICK n : n = (IF call.res = "ok" THEN EntryOf(call) ELSE NewFile(call.name))
      OBVIOUS
    <3>5. n.old = NotOld
      BY <3>2, <3>4
    <3> QED
      BY <3>1, <3>3, <3>4, <3>5
  <2>3. CASE DirRemove
    <3>1. dir' = [dir EXCEPT ![call.dcl][call.slot] = Blank("deleted")] /\ call.slot \in 1 .. Slots
      BY <2>3 DEF DirRemove, PutEntry, VolumeInv, ClusterInv, CallInv, CallType
    <3>2. ~IsFile(Blank("deleted"))
      BY DEF IsFile, Blank
    <3> QED
      BY <3>1, <3>2
  <2> QED
    BY <2>1, <2>2, <2>3 DEF Entering
<1>3. \A c \in Clusters, s \in 1 .. Slots : dir'[c][s] = dir[c][s] \/ dir'[c][s] = n
  BY <1>1, <1>2 DEF Sector
<1>4. ASSUME NEW c \in Linked(fat), NEW s \in 1 .. Slots, IsFile(dir'[c][s])
      PROVE  ~dir'[c][s].old
  <2>1. c \in Clusters
    BY Bounds DEF Linked
  <2> QED
    BY <1>2, <1>3, <1>4, <2>1 DEF OwnOnly, NotOld
<1> QED
  BY <1>1, <1>4 DEF OwnOnly

(* The steps after which the directory is as the FAT has it.               *)
LEMMA PlainSteps ==
  ASSUME \/ Calls
         \/ MoveWindow \/ MountVolume \/ FollowPath \/ DirFind \/ DirFindNot \/ DirNext \/ DirRegister \/ DirFull
         \/ DirStretch \/ TakeCluster \/ ProbeHint \/ ChainNext \/ ExpandStart \/ Search \/ Alloc \/ AllocPastEnd
         \/ CloseEntry \/ DirRemove \/ Flush \/ WriteInfo \/ SyncFs \/ CountSector
         \/ WriteFails \/ ReadFails \/ MountNoInfo \/ MountFails \/ WriteInfoFails \/ SyncFsFails
  PROVE  ~Clearing /\ ~LinkCluster
<1>1. ASSUME call.pc \notin {"clear", "zero", "link"}
      PROVE  ~Clearing /\ ~LinkCluster
  BY <1>1 DEF Clearing, LinkCluster, At
<1>2. CASE MoveWindow \/ WriteFails \/ ReadFails
  BY <1>2 DEF MoveWindow, WriteFails, ReadFails, Accessing, LinkCluster, Clearing, At
<1>3. CASE Calls
  <2>1. call.pc = Idle
    BY <1>3, BeginQuiet DEF Calls, FatMount, FatUmount, FatGetFreeSpace, FatFileExists, FatFileCreate, At
  <2> QED
    BY <1>1, <2>1 DEF Idle
<1>4. CASE MountVolume \/ FollowPath \/ DirFind \/ DirFindNot \/ DirNext \/ DirRegister \/ DirFull
           \/ DirStretch \/ TakeCluster \/ ProbeHint \/ ChainNext \/ MountNoInfo \/ MountFails
  BY <1>1, <1>4 DEF MountVolume, FollowPath, DirFind, DirFindNot, DirNext, DirRegister, DirFull, DirStretch,
     TakeCluster, ProbeHint, ChainNext, MountNoInfo, MountFails, MountWith, At
<1>5. CASE ExpandStart \/ Search \/ Alloc \/ AllocPastEnd \/ CloseEntry \/ DirRemove \/ Flush \/ WriteInfo
           \/ SyncFs \/ CountSector \/ WriteInfoFails \/ SyncFsFails
  BY <1>1, <1>5 DEF ExpandStart, Search, Alloc, AllocPastEnd, CloseEntry, DirRemove, Flush, WriteInfo,
     SyncFs, CountSector, WriteInfoFails, SyncFsFails, InfoWith, At
<1> QED
  BY <1>2, <1>3, <1>4, <1>5

LEMMA WindowSame ==
  ASSUME VolumeInv, [Next]_vars, ~Clearing, ~LinkCluster, fat' = fat, dir' = dir
  PROVE  Shown' = Shown
BY PlainShown

LEMMA ClearStays ==
  ASSUME VolumeInv, DirClear
  PROVE  Finished' = Finished /\ dir' = dir /\ Shown' = Shown
<1>1. call' = Go("zero") /\ call.pc = "clear" /\ fat' = fat /\ dir' = dir /\ call \in CallType
  BY DEF DirClear, Continue, At, VolumeInv, ClusterInv, CallInv
<1>2. call'.pc = "zero"
  BY <1>1, GoFields
<1>3. Finished' = Finished
  BY <1>1, <1>2 DEF Finished
<1> QED
  BY <1>1, <1>3 DEF Shown

(* The window is moved, or the volume mounted, over a disk that is as the  *)
(* library saw it.                                                         *)
LEMMA MovedSame ==
  ASSUME VolumeInv, MoveWindow \/ ReadFails, dirty \/ dir = ddir
  PROVE  fat' = fat /\ dir' = dir
<1>1. Syncing
  <2>1. NoSec \in Sectors
    BY DEF Sectors
  <2> QED
    BY <2>1, TargetIn DEF MoveWindow, ReadFails, Syncing, Fresh, VolumeInv
<1>2. ddir' = dir
  BY <1>1, SyncedDir DEF VolumeInv, Syncing
<1> QED
  BY <1>1, <1>2, SyncingView DEF MoveWindow, ReadFails, Fresh

LEMMA CalmMount ==
  ASSUME VolumeInv, CalmInv, faults = 0, MountVolume \/ MountNoInfo
  PROVE  fat' = fat /\ dir' = dir
<1>1. fat' = dfat /\ dir' = ddir /\ call.pc = "mount"
  BY DEF MountVolume, MountNoInfo, MountWith, At
<1>2. dirty = FALSE /\ dir = ddir
  BY <1>1 DEF CalmInv, CalmWindow, Writing, VolumeInv, TypeInv, InfoTyped
<1> QED
  BY <1>1, <1>2, CleanView

LEMMA NoRelicsStep ==
  ASSUME VolumeInv, CalmInv, [Next]_vars
  PROVE  NoRelics'
<1> SUFFICES ASSUME Untroubled'
             PROVE  OwnOnly(Finished', dir')
  BY DEF NoRelics
<1>0. /\ Untroubled /\ faults = 0 /\ ~Fails /\ ~Kill /\ ~PowerLoss /\ OwnOnly(Finished, dir)
      /\ call \in CallType /\ (dirty \/ dir = ddir)
  BY CalmTwice DEF CalmInv, CalmWindow, NoRelics, Untroubled, VolumeInv, ClusterInv, CallInv
<1>1. ASSUME Linked(Finished') = Linked(Finished), dir' = dir
      PROVE  OwnOnly(Finished', dir')
  BY <1>0, <1>1 DEF OwnOnly
<1>2. ASSUME ~Clearing, ~LinkCluster
      PROVE  Finished = fat /\ Finished' = fat'
  BY <1>2, PlainShown DEF Finished, Clearing
<1>3. ASSUME ~Clearing, ~LinkCluster, Linked(fat') = Linked(fat), dir' = dir
      PROVE  OwnOnly(Finished', dir')
  BY <1>1, <1>2, <1>3
<1>4. CASE UNCHANGED vars
  <2>1. Finished' = Finished /\ dir' = dir
    BY <1>4 DEF vars, window, Finished
  <2> QED
    BY <1>1, <2>1
<1>5. CASE Calls
  <2>1. fat' = fat /\ dir' = dir
    BY <1>5, BeginQuiet DEF Calls, FatMount, FatUmount, FatGetFreeSpace, FatFileExists, FatFileCreate, window
  <2> QED
    BY <1>3, <1>5, <2>1, PlainSteps
<1>6. CASE FollowPath \/ DirFind \/ DirFindNot \/ DirNext \/ DirFull \/ DirStretch \/ ProbeHint \/ ChainNext
           \/ ExpandStart \/ Search \/ AllocPastEnd \/ SyncFs \/ CountSector \/ Flush
  <2>1. fat' = fat /\ dir' = dir
    BY <1>6 DEF FollowPath, DirFind, DirFindNot, DirNext, DirFull, DirStretch, ProbeHint, ChainNext,
       ExpandStart, Search, AllocPastEnd, SyncFs, CountSector, Flush, InMemory, window
  <2> QED
    BY <1>3, <1>6, <2>1, PlainSteps
<1>7. CASE MoveWindow \/ MountVolume \/ WriteInfo
  <2>1. fat' = fat /\ dir' = dir
    BY <1>0, <1>7, MovedSame, CalmMount, InfoStays
  <2> QED
    BY <1>3, <1>7, <2>1, PlainSteps
<1>8. CASE TakeCluster \/ Alloc
  <2>1. Putting
    BY <1>8 DEF Putting, TakeCluster, Alloc
  <2>2. ~Clearing /\ ~LinkCluster
    BY <1>8, PlainSteps
  <2> QED
    BY <1>3, <2>1, <2>2, PutLinks
<1>9. CASE DirRegister \/ CloseEntry \/ DirRemove
  <2>1. Entering
    BY <1>9 DEF Entering, DirRegister, CloseEntry, DirRemove
  <2>2. ~Clearing /\ ~LinkCluster
    BY <1>9, PlainSteps
  <2> QED
    BY <1>0, <1>2, <2>1, <2>2, EnteredOwn
<1>10. CASE LinkCluster
  BY <1>1, <1>10, LinkStays
<1>11. CASE DirClear
  BY <1>1, <1>11, ClearStays
<1>12. CASE DirZero
  <2>1. /\ call.pc = "zero" /\ call.ncl # Root /\ fat[Root] = call.ncl /\ fat' = fat
        /\ dir' = [dir EXCEPT ![call.ncl] = Cleared] /\ dir \in [Clusters -> Sector]
    BY <1>12, ZeroWhere DEF DirZero, ZeroWith, Zeroing, At, VolumeInv, TypeInv, DirTyped
  <2>2. call'.pc = "register"
    BY <1>0, <1>12 DEF DirZero, Continue, Go, CallType
  <2>3. Finished' = fat /\ Root \in Linked(Finished)
    BY <2>1, <2>2 DEF Finished, Linked
  <2>4. \A c \in Linked(fat) : c = Root \/ c = call.ncl
    BY <2>1 DEF Linked
  <2>5. dir'[Root] = dir[Root] /\ (call.ncl \in Clusters => dir'[call.ncl] = Cleared)
    BY <2>1, Bounds
  <2>6. call.ncl \in Clusters
    BY <1>12, ZeroWhere DEF Zeroing
  <2>7. \A s \in 1 .. Slots : ~IsFile(Cleared[s])
    BY DEF Cleared, Blank, IsFile
  <2>8. ASSUME NEW c \in Linked(fat), NEW s \in 1 .. Slots, IsFile(dir'[c][s])
        PROVE  ~dir'[c][s].old
    BY <1>0, <2>3, <2>4, <2>5, <2>6, <2>7, <2>8 DEF OwnOnly
  <2> QED
    BY <2>3, <2>8 DEF OwnOnly
<1> QED
  BY <1>0, <1>4, <1>5, <1>6, <1>7, <1>8, <1>9, <1>10, <1>11, <1>12 DEF Next, Works

LEMMA CalmStep ==
  ASSUME VolumeInv, CalmInv, [Next]_vars
  PROVE  CalmInv'
BY CalmTwice, CalmWindowStep, NoRelicsStep DEF CalmInv

LEMMA CalmInit == Init => CalmInv
<1> SUFFICES ASSUME Init
             PROVE  CalmInv
  OBVIOUS
<1>1. Tallied /\ CalmWindow
  BY DEF Init, Tallied, CalmWindow
<1>2. PICK v \in Volumes : /\ fat = v.fat /\ v.fat[Root] = EOC /\ Sound(v)
                           /\ ddir = [v.old EXCEPT ![Root] = v.dir] /\ dir = ddir
                           /\ v.old \in [Clusters -> Sector]
  BY RootStart
<1>3. Finished = fat /\ dir[Root] = v.dir
  BY <1>2, Bounds DEF Init, NoCall, Idle, Finished
<1>4. Linked(Finished) = {Root}
  BY <1>2, <1>3, Bounds DEF Linked
<1>5. \A s \in 1 .. Slots : IsFile(v.dir[s]) => ~v.dir[s].old
  BY <1>2 DEF Sound
<1> QED
  BY <1>1, <1>3, <1>4, <1>5 DEF CalmInv, NoRelics, OwnOnly

(* The files of the names that are settled are those that were promised.   *)
SettledFiles == {e \in Shown : \E g \in promised : g.name = e.name}

LEMMA PromisedShown ==
  ASSUME KeptInv, NEW e \in promised
  PROVE  e \in Shown
<1>1. PICK c \in Clusters, s \in 1 .. Slots : Held(e, c, s)
  BY DEF KeptInv, PromiseInv
<1>2. Own(e) /\ Root \notin Area(e) /\ Holds(fat, e, c) /\ Lists(dir, e, c, s)
  BY <1>1 DEF Held, FatHolds, DirLists
<1>3. Holds(Finished, e, c)
  <2>1. CASE ~Clearing
    BY <1>2, <2>1 DEF Finished, Clearing
  <2>2. CASE Clearing
    <3>1. PICK f : f = [fat EXCEPT ![Root] = EOC]
      OBVIOUS
    <3>2. Finished = f
      BY <2>2, <3>1 DEF Finished, Clearing
    <3>3. \A x \in Area(e) : x \in Clusters /\ f[x] = fat[x]
      BY <1>2, <3>1 DEF KeptInv, VolumeInv, TypeInv, FatTyped, Area
    <3>4. fat[Root] = call.ncl /\ Blanked(dir[call.ncl])
      BY <2>2 DEF Clearing, KeptInv, VolumeInv, PlaceInv, Placed, Adding, WindowInv, NewCluster
    <3>5. dir[c][s] = e /\ (c # Root => fat[Root] = c)
      BY <1>2 DEF Lists, Holds
    <3>6. c = Root
      BY <1>2, <3>4, <3>5 DEF Blanked
    <3> QED
      BY <1>2, <3>2, <3>3, <3>6 DEF Holds
  <2> QED
    BY <2>1, <2>2
<1>4. FirstMatch(Finished, dir, e.name, c, s) /\ dir[c][s] = e
  BY <1>2, <1>3, HeldFirst DEF Own
<1> QED
  BY <1>4, FilesAre DEF Shown

LEMMA PromisedFiles ==
  ASSUME KeptInv
  PROVE  SettledFiles = promised
<1>1. ASSUME NEW e \in Shown, NEW g \in promised, g.name = e.name
      PROVE  e \in promised
  BY <1>1, PromisedShown, FileUnique DEF Shown
<1> QED
  BY <1>1, PromisedShown DEF SettledFiles

LEMMA SettledStay ==
  ASSUME KeptInv, KeptInv', promised' = promised
  PROVE  {e \in Shown' : \E g \in promised : g.name = e.name} = {e \in Shown : \E g \in promised : g.name = e.name}
<1>1. SettledFiles = promised
  BY PromisedFiles
<1>2. (SettledFiles = promised)'
  BY PromisedFiles, PTL
<1> QED
  BY <1>1, <1>2 DEF SettledFiles

(* With no power loss every file of the directory is found.                *)
LEMMA GoodFiles ==
  ASSUME NEW f, NEW d, Good(f, d), NEW c \in Linked(f), NEW s \in 1 .. Slots, Own(d[c][s])
  PROVE  d[c][s] \in FilesOf(f, d)
<1>1. c \in Clusters /\ (c = Root \/ c = f[Root])
  BY Bounds DEF Linked
<1>2. IsFile(d[c][s]) /\ Comes(d, d[c][s].name, c, s)
  BY <1>1 DEF Good, Own
<1>3. FirstMatch(f, d, d[c][s].name, c, s)
  BY <1>1, <1>2, MatchComes
<1> QED
  BY <1>1, <1>3, FilesAre

(* An entry is made, filled in or removed.                                 *)
LEMMA EnteredFiles ==
  ASSUME VolumeInv, Entering, NEW e \in FilesOf(fat, dir), e.name # call.name
  PROVE  e \in FilesOf(fat', dir')
<1>1. PICK c \in Clusters, s \in 1 .. Slots : FirstMatch(fat, dir, e.name, c, s) /\ dir[c][s] = e
  BY FilesAre
<1>2. IsFile(e) /\ Lists(dir, e, c, s) /\ (c = Root \/ c = fat[Root])
  BY <1>1, MatchComes DEF Lists
<1>3. Lists(dir', e, c, s)
  BY <1>2, EnteredLists DEF Spared
<1>4. fat' = fat
  BY EnteredWhere
<1>5. FirstMatch(fat', dir', e.name, c, s)
  BY <1>2, <1>3, <1>4, MatchComes DEF Lists
<1> QED
  BY <1>3, <1>5, FilesAre DEF Lists

LEMMA EnteredNoOther ==
  ASSUME VolumeInv, Entering, Good(fat, dir), OwnOnly(fat, dir), NEW c \in Linked(fat), NEW s \in 1 .. Slots,
         IsFile(dir'[c][s]), dir'[c][s] \notin FilesOf(fat, dir)
  PROVE  c = call.dcl /\ IsFile(dir'[c][s]) /\ dir'[c][s].name = call.name
<1>1. PICK r \in 1 .. Slots, n \in Entries :
        /\ dir' = [dir EXCEPT ![call.dcl][r] = n] /\ n.kind # "end"
        /\ ~IsFile(dir[call.dcl][r]) \/ (Changes(call) /\ dir[call.dcl][r].name = call.name)
        /\ ~IsFile(n) \/ (Changes(call) /\ n.name = call.name)
  BY EnteredElse
<1>2. call.dcl \in Clusters /\ dir \in [Clusters -> Sector] /\ c \in Clusters
  BY Bounds DEF VolumeInv, ClusterInv, CallInv, CallType, TypeInv, DirTyped, Linked
<1>3. dir'[c][s] = dir[c][s] \/ (c = call.dcl /\ s = r /\ dir'[c][s] = n)
  BY <1>1, <1>2 DEF Sector
<1>4. dir'[c][s] # dir[c][s]
  BY GoodFiles DEF OwnOnly, Own
<1> QED
  BY <1>1, <1>3, <1>4

LEMMA RegisteredFiles ==
  ASSUME VolumeInv, VolumeInv', DirRegister
  PROVE  /\ \A e \in FilesOf(fat, dir) : e.name # call.name
         /\ FilesOf(fat, dir) \cup {NewFile(call.name)} \subseteq FilesOf(fat', dir')
         /\ Good(fat, dir) /\ OwnOnly(fat, dir) => FilesOf(fat', dir') = FilesOf(fat, dir) \cup {NewFile(call.name)}
<1>1. Entering /\ call \in CallType
  BY DEF Entering, DirRegister, VolumeInv, ClusterInv, CallInv
<1>2. \A e \in FilesOf(fat, dir) : e.name # call.name
  <2>1. Absent(fat, dir, call.name)
    BY DEF VolumeInv, PlaceInv, Placed, Adding, DirRegister, At
  <2> QED
    BY <2>1, FirstAbsent, FilesAre
<1>3. NewFile(call.name) \in FilesOf(fat', dir')
  <2>1. \E s \in 1 .. Slots : call' = [Go("expand") EXCEPT !.slot = s]
    BY DEF DirRegister, Continue
  <2>2. call'.pc = "expand" /\ call'.name = call.name
    BY <1>1, <2>1 DEF Go, CallType
  <2>3. /\ FirstMatch(fat', dir', call.name, call'.dcl, call'.slot) /\ dir'[call'.dcl][call'.slot] = NewFile(call.name)
        /\ call'.dcl \in Clusters /\ call'.slot \in 1 .. Slots
    BY <2>2 DEF VolumeInv, PlaceInv, Placed, Added, ClusterInv, CallInv, CallType
  <2>4. NewFile(call.name).name = call.name
    BY DEF NewFile
  <2> QED
    BY <2>3, <2>4, FilesAre
<1>4. ASSUME NEW e \in FilesOf(fat', dir'), Good(fat, dir), OwnOnly(fat, dir), e \notin FilesOf(fat, dir)
      PROVE  e = NewFile(call.name)
  <2>1. PICK c \in Clusters, s \in 1 .. Slots : FirstMatch(fat', dir', e.name, c, s) /\ dir'[c][s] = e
    BY FilesAre
  <2>2. fat' = fat /\ IsFile(e) /\ (c = Root \/ c = fat'[Root])
    BY <1>1, <2>1, EnteredWhere, MatchComes
  <2>3. e.name = call.name
    BY <1>1, <1>4, <2>1, <2>2, EnteredNoOther DEF Linked
  <2>4. NewFile(call.name).name = call.name
    BY DEF NewFile
  <2> QED
    BY <1>3, <2>3, <2>4, FileUnique
<1> QED
  BY <1>1, <1>2, <1>3, <1>4, EnteredFiles

LEMMA ClosedFiles ==
  ASSUME VolumeInv, VolumeInv', CloseEntry, NEW n, n = (IF call.res = "ok" THEN EntryOf(call) ELSE NewFile(call.name))
  PROVE  /\ NewFile(call.name) \in FilesOf(fat, dir)
         /\ FilesOf(fat', dir') = (FilesOf(fat, dir) \ {NewFile(call.name)}) \cup {n}
<1>1. Entering /\ call \in CallType /\ call.dcl \in Clusters /\ call.slot \in 1 .. Slots
  BY DEF Entering, CloseEntry, VolumeInv, ClusterInv, CallInv, CallType
<1>2. /\ call.goal = "create" /\ FirstMatch(fat, dir, call.name, call.dcl, call.slot)
      /\ dir[call.dcl][call.slot] = NewFile(call.name)
  BY DEF VolumeInv, PlaceInv, Placed, Added, CloseEntry, At
<1>3. NewFile(call.name).name = call.name /\ n.name = call.name /\ n.kind = "file" /\ NewFile(call.name).kind = "file"
  BY DEF NewFile, EntryOf
<1>4. NewFile(call.name) \in FilesOf(fat, dir)
  BY <1>1, <1>2, <1>3, FilesAre
<1>5. dir' = [dir EXCEPT ![call.dcl][call.slot] = n] /\ fat' = fat
  BY <1>1, ClosedPlaced, EnteredWhere DEF EntryOf, NewFile
<1>6. n \in FilesOf(fat', dir')
  <2>1. call' = Go("flush")
    BY DEF CloseEntry, Continue
  <2>2. call'.pc = "flush" /\ call'.goal = "create" /\ call'.name = call.name /\ call'.res = call.res
        /\ call'.scl = call.scl /\ call'.len = call.len
    BY <1>1, <1>2, <2>1, GoFields
  <2>3. EntryOf(call') = EntryOf(call)
    BY <2>2 DEF EntryOf
  <2>4. /\ FirstMatch(fat', dir', call.name, call'.dcl, call'.slot) /\ dir'[call'.dcl][call'.slot] = n
        /\ call'.dcl \in Clusters /\ call'.slot \in 1 .. Slots
    BY <2>2, <2>3 DEF VolumeInv, PlaceInv, Placed, Added, ClusterInv, CallInv, CallType
  <2> QED
    BY <1>3, <2>4, FilesAre
<1>7. ASSUME NEW e \in FilesOf(fat', dir'), e # n
      PROVE  e \in FilesOf(fat, dir) /\ e # NewFile(call.name)
  <2>1. e.name # call.name
    BY <1>3, <1>6, <1>7, FileUnique
  <2>2. PICK c \in Clusters, s \in 1 .. Slots : FirstMatch(fat', dir', e.name, c, s) /\ dir'[c][s] = e
    BY FilesAre
  <2>3. dir \in [Clusters -> Sector]
    BY DEF VolumeInv, TypeInv, DirTyped
  <2>4. \A b \in Clusters, t \in 1 .. Slots :
          dir'[b][t] = dir[b][t] \/ (dir[b][t] = NewFile(call.name) /\ dir'[b][t] = n)
    BY <1>1, <1>2, <1>5, <2>3 DEF Sector
  <2>5. ASSUME NEW b \in Clusters, NEW q \in 1 .. Slots + 1, Passes(dir'[b], e.name, q)
        PROVE  Passes(dir[b], e.name, q)
    <3>1. \A t \in 1 .. q - 1 : t \in 1 .. Slots
      BY Bounds
    <3> QED
      BY <1>3, <2>1, <2>4, <2>5, <3>1 DEF Passes
  <2>6. s \in 1 .. Slots + 1 /\ Slots + 1 \in 1 .. Slots + 1 /\ Root \in Clusters
    BY Bounds
  <2>7. dir[c][s] = e
    BY <1>3, <2>1, <2>2, <2>4
  <2>8. FirstMatch(fat, dir, e.name, c, s)
    <3>1. (c = Root \/ c = fat'[Root]) /\ IsFile(dir'[c][s]) /\ Comes(dir', e.name, c, s)
      BY <2>2, MatchComes
    <3>2. Comes(dir, e.name, c, s)
      BY <2>5, <2>6, <3>1 DEF Comes
    <3> QED
      BY <1>5, <2>2, <2>7, <3>1, <3>2, MatchComes
  <2> QED
    BY <1>3, <2>1, <2>7, <2>8, FilesAre
<1>8. ASSUME NEW e \in FilesOf(fat, dir), e # NewFile(call.name)
      PROVE  e \in FilesOf(fat', dir')
  BY <1>1, <1>3, <1>4, <1>8, FileUnique, EnteredFiles
<1> QED
  BY <1>4, <1>6, <1>7, <1>8

LEMMA RemovedFiles ==
  ASSUME VolumeInv, DirRemove
  PROVE  /\ \E e \in FilesOf(fat, dir) : e.name = call.name /\ e.len = 0
         /\ \A e \in FilesOf(fat, dir) : e.name # call.name => e \in FilesOf(fat', dir')
         /\ Good(fat, dir) /\ OwnOnly(fat, dir) =>
              /\ FilesOf(fat', dir') \subseteq FilesOf(fat, dir)
              /\ \A e \in FilesOf(fat', dir') : e.name # call.name
<1>1. Entering /\ call \in CallType /\ call.dcl \in Clusters /\ call.slot \in 1 .. Slots
  BY DEF Entering, DirRemove, VolumeInv, ClusterInv, CallInv, CallType
<1>2. FirstMatch(fat, dir, call.name, call.dcl, call.slot) /\ dir[call.dcl][call.slot].len = 0
  BY DEF VolumeInv, PlaceInv, Placed, Looking, EmptyAt, DirRemove, At
<1>3. IsFile(dir[call.dcl][call.slot]) /\ dir[call.dcl][call.slot].name = call.name
  BY <1>2 DEF FirstMatch, IsMatch
<1>4. dir[call.dcl][call.slot] \in FilesOf(fat, dir)
  BY <1>1, <1>2, <1>3, FilesAre
<1>5. dir' = [dir EXCEPT ![call.dcl][call.slot] = Blank("deleted")] /\ fat' = fat
  BY DEF DirRemove, PutEntry
<1>6. ASSUME Good(fat, dir), OwnOnly(fat, dir), NEW e \in FilesOf(fat', dir')
      PROVE  e \in FilesOf(fat, dir) /\ e.name # call.name
  <2>1. PICK c \in Clusters, s \in 1 .. Slots : FirstMatch(fat', dir', e.name, c, s) /\ dir'[c][s] = e
    BY FilesAre
  <2>2. IsFile(e) /\ (c = Root \/ c = fat[Root])
    <3>1. IsFile(dir'[c][s]) /\ (c = Root \/ c = fat'[Root])
      BY <2>1, MatchComes
    <3> QED
      BY <1>5, <2>1, <3>1
  <2>3. dir \in [Clusters -> Sector] /\ ~IsFile(Blank("deleted"))
    BY DEF VolumeInv, TypeInv, DirTyped, IsFile, Blank
  <2>4. dir[c][s] = e /\ (c # call.dcl \/ s # call.slot)
    BY <1>1, <1>5, <2>1, <2>2, <2>3 DEF Sector
  <2>6. c \in Linked(fat) /\ call.dcl \in Linked(fat)
    BY <1>1, <2>2, EnteredWhere DEF Linked
  <2>7. Own(dir[c][s]) /\ Own(dir[call.dcl][call.slot])
    BY <1>1, <1>3, <1>6, <2>2, <2>4, <2>6 DEF OwnOnly, Own
  <2>5. e.name # call.name
    BY <1>1, <1>3, <1>6, <2>2, <2>4, <2>7 DEF Good, Alone
  <2> QED
    BY <1>6, <2>2, <2>4, <2>5, <2>6, <2>7, GoodFiles
<1> QED
  BY <1>1, <1>2, <1>3, <1>4, <1>6, EnteredFiles

(* No call runs between calls, and only f_getfree counts.                  *)
Aimed == (At(Idle) => call.goal = "none") /\ (At("count") => call.goal = "free")
(* Once it is unlinked a file is gone, while no error, kill or power loss  *)
(* can have hidden one.                                                    *)
Gone ==
  Untroubled /\ call.goal = "unlink" /\ call.pc \in {"flush", "info", "syncfs"} =>
    \A e \in FilesOf(fat, dir) : e.name # call.name

LEMMA AimedStep ==
  ASSUME VolumeInv, Aimed, [Next]_vars
  PROVE  Aimed'
<1>0. call \in CallType
  BY DEF VolumeInv, ClusterInv, CallInv
<1>1. CASE call' = NoCall
  BY <1>1 DEF NoCall, Idle, Aimed, At
<1>2. CASE call' = call
  BY <1>2 DEF Aimed, At
<1>3. ASSUME call'.pc \notin {Idle, "count"}
      PROVE  Aimed'
  BY <1>3 DEF Aimed, At
<1>4. ASSUME NEW pc, pc \notin {Idle, "count"}, call' = Go(pc)
      PROVE  Aimed'
  BY <1>0, <1>3, <1>4, GoFields
<1>5. CASE Fail
  <2>1. CASE call' = [call EXCEPT !.pc = "close", !.res = "nospace"]
    BY <1>0, <1>3, <2>1 DEF CallType, Idle
  <2>2. CASE call' = [call EXCEPT !.pc = "find", !.goal = "unlink", !.dcl = Root]
    BY <1>0, <1>3, <2>2 DEF CallType, Idle
  <2> QED
    BY <1>1, <1>5, <2>1, <2>2 DEF Fail, Continue, Return
<1>6. CASE Calls
  <2>1. ASSUME NEW goal, NEW n, NEW l, Begin(goal, n, l)
        PROVE  Aimed'
    <3>1. CASE vol = "none"
      BY <1>1, <2>1, <3>1 DEF Begin, Return
    <3>2. CASE vol # "none"
      <4>1. PICK pc \in {"follow", "mount"} :
              call' = [NoCall EXCEPT !.pc = pc, !.goal = goal, !.name = n, !.len = l]
        BY <2>1, <3>2 DEF Begin
      <4> QED
        BY <1>3, <4>1 DEF NoCall, Idle
    <3> QED
      BY <3>1, <3>2
  <2> QED
    BY <1>2, <1>6, <2>1 DEF Calls, FatMount, FatUmount, FatGetFreeSpace, FatFileExists, FatFileCreate
<1>7. CASE MoveWindow \/ UNCHANGED vars
  BY <1>2, <1>7 DEF MoveWindow, vars
<1>8. CASE FollowPath
  <2>1. CASE call.goal = "free" /\ call' = [Go("count") EXCEPT !.clst = 2, !.ncl = 0]
    <3>1. call'.pc = "count" /\ call'.goal = "free"
      BY <1>0, <2>1 DEF Go, CallType
    <3> QED
      BY <3>1 DEF Aimed, At, Idle
  <2>2. CASE call' = [Go("find") EXCEPT !.dcl = Root]
    BY <1>0, <1>3, <2>2 DEF Go, CallType, Idle
  <2> QED
    BY <1>1, <1>8, <2>1, <2>2 DEF FollowPath, Return, ReturnFree, Continue
<1>9. CASE CountSector
  <2>1. call.pc = "count" /\ call.goal = "free"
    BY <1>9 DEF CountSector, At, Aimed
  <2>2. PICK c, k : call' = NoCall \/ call' = [call EXCEPT !.clst = c, !.ncl = k]
    BY <1>9 DEF CountSector, ReturnFree, Continue
  <2>3. CASE call' = [call EXCEPT !.clst = c, !.ncl = k]
    <3>1. call'.pc = "count" /\ call'.goal = "free"
      BY <1>0, <2>1, <2>3 DEF CallType
    <3> QED
      BY <3>1 DEF Aimed, At, Idle
  <2> QED
    BY <1>1, <2>2, <2>3
<1>10. CASE DirFind \/ DirFindNot \/ DirNext
  <2>1. CASE call'.pc \in {"find", "findnext", "register", "remove"}
    BY <1>3, <2>1 DEF Idle
  <2>2. call' = NoCall \/ call'.pc \in {"find", "findnext", "register", "remove"}
    BY <1>0, <1>10 DEF DirFind, DirFindNot, DirNext, NotFound, Return, Continue, Go, CallType
  <2> QED
    BY <1>1, <2>1, <2>2
<1>11. CASE DirRegister \/ DirFull \/ DirStretch \/ ProbeHint \/ ChainNext \/ DirZero \/ MountVolume \/ MountNoInfo
  <2>1. CASE call'.pc \in {"expand", "regnext", "register", "probe", "chain", "follow"}
    BY <1>3, <2>1 DEF Idle
  <2>2. call' = NoCall \/ call'.pc \in {"expand", "regnext", "register", "probe", "chain", "follow"}
    BY <1>0, <1>11 DEF DirRegister, DirFull, DirStretch, ProbeHint, ChainNext, DirZero, MountVolume, MountNoInfo,
       MountWith, Return, Continue, Go, CallType, At
  <2> QED
    BY <1>1, <2>1, <2>2
<1>12. CASE TakeCluster \/ LinkCluster \/ DirClear \/ Flush \/ WriteInfo \/ WriteInfoFails \/ CloseEntry \/ DirRemove
  <2>1. PICK pc \in {"link", "clear", "zero", "info", "syncfs", "flush"} : call' = Go(pc)
    BY <1>12 DEF TakeCluster, LinkCluster, DirClear, Flush, WriteInfo, WriteInfoFails, InfoWith, CloseEntry, DirRemove,
       Continue
  <2> QED
    BY <1>4, <2>1 DEF Idle
<1>13. CASE ExpandStart \/ Search \/ Alloc
  <2>1. call'.pc \in {"search", "alloc", "close"}
    BY <1>0, <1>13 DEF ExpandStart, Search, Alloc, Continue, Go, CallType, At
  <2> QED
    BY <1>3, <2>1 DEF Idle
<1>14. CASE SyncFs \/ SyncFsFails
  <2>1. CASE call' = [call EXCEPT !.pc = "find", !.goal = "unlink", !.dcl = Root]
    BY <1>0, <1>3, <2>1 DEF CallType, Idle
  <2> QED
    BY <1>1, <1>14, <2>1 DEF SyncFs, SyncFsFails, AfterSync, Return, Continue
<1>15. CASE WriteFails \/ ReadFails \/ MountFails \/ DirZeroFails \/ FlushFails \/ AllocPastEnd
  BY <1>5, <1>15 DEF WriteFails, ReadFails, MountFails, DirZeroFails, FlushFails, AllocPastEnd
<1>16. CASE Kill \/ PowerLoss
  BY <1>1, <1>16 DEF Kill, PowerLoss, Restart
<1> QED
  BY <1>6, <1>7, <1>8, <1>9, <1>10, <1>11, <1>12, <1>13, <1>14, <1>15, <1>16 DEF Next, Works, Fails

LEMMA GoneStep ==
  ASSUME FilesInv, CalmInv, Gone, [Next]_vars
  PROVE  Gone'
<1> SUFFICES ASSUME Untroubled', call'.goal = "unlink", call'.pc \in {"flush", "info", "syncfs"}
             PROVE  (\A e \in FilesOf(fat, dir) : e.name # call.name)'
  BY DEF Gone
<1>0. VolumeInv /\ call \in CallType
  BY DEF FilesInv, VolumeInv, ClusterInv, CallInv
<1>1. Untroubled /\ losses = 0 /\ (dirty \/ dir = ddir)
  BY CalmTwice DEF CalmInv, CalmWindow, Untroubled
<1>2. ASSUME fat' = fat, dir' = dir, call'.name = call.name, call.goal = "unlink",
             call.pc \in {"flush", "info", "syncfs"}
      PROVE  (\A e \in FilesOf(fat, dir) : e.name # call.name)'
  BY <1>1, <1>2 DEF Gone
<1>3. CASE UNCHANGED vars
  BY <1>2, <1>3 DEF vars, window
<1>4. CASE MoveWindow /\ UNCHANGED call
  BY <1>0, <1>1, <1>2, <1>4, MovedSame
<1>5. CASE Flush /\ \E pc \in {"info", "syncfs"} : call' = Go(pc)
  <2>1. fat' = fat /\ dir' = dir /\ call.pc = "flush"
    BY <1>5 DEF Flush, At
  <2>2. call'.goal = call.goal /\ call'.name = call.name
    BY <1>0, <1>5, GoFields
  <2> QED
    BY <1>2, <2>1, <2>2
<1>6. CASE (WriteInfo \/ WriteInfoFails) /\ call' = Go("syncfs")
  <2>1. call.pc = "info"
    BY <1>6 DEF WriteInfo, WriteInfoFails, InfoWith, At
  <2>2. call'.goal = call.goal /\ call'.name = call.name
    BY <1>0, <1>6, GoFields
  <2> QED
    BY <1>0, <1>2, <1>6, <2>1, <2>2, InfoStays
<1>7. CASE (CloseEntry \/ DirRemove) /\ call' = Go("flush")
  <2>1. call'.goal = call.goal /\ call'.name = call.name
    BY <1>0, <1>7, GoFields
  <2>2. ~CloseEntry
    BY <1>0, <2>1 DEF VolumeInv, PlaceInv, Placed, Added, CloseEntry, At
  <2>3. Good(fat, dir) /\ OwnOnly(Finished, dir)
    BY <1>1 DEF FilesInv, GoodInv, CalmInv, NoRelics
  <2>4. Finished = fat
    BY <1>7, <2>2 DEF Finished, DirRemove, At
  <2> QED
    BY <1>0, <1>7, <2>1, <2>2, <2>3, <2>4, RemovedFiles
<1>8. CASE call'.pc = "flush"
  <2>1. ~(call' = [Go("alloc") EXCEPT !.clst = RunStart, !.left = call.len])
    BY <1>0, <1>8 DEF Go, CallType
  <2>2. ~Alloc
    BY <1>0, <1>8, AllocGoes
  <2> QED
    BY <1>0, <1>3, <1>4, <1>7, <1>8, <2>1, <2>2, MakingCalls
<1>9. CASE call'.pc \in {"info", "syncfs"}
  <2>1. \A pc \in {"link", "clear", "zero"} : call' # Go(pc)
    BY <1>0, <1>9 DEF Go, CallType
  <2> QED
    BY <1>0, <1>3, <1>4, <1>5, <1>6, <1>9, <2>1, LateCalls
<1> QED
  BY <1>8, <1>9

StoreInv == FilesInv /\ PromiseInv /\ Aimed /\ Gone /\ CalmInv
StoreStep == Store!StoreNext \/ UNCHANGED Store!storeVars

(* What a caller sees of the running call and of the disk.                 *)
FilesSame == Shown' = Shown
CallSame == call'.goal = call.goal /\ call'.name = call.name /\ call'.len = call.len
NoFault == mishaps' = mishaps /\ faulty' = faulty
NoAnswer == answer' = answer /\ promised' = promised
OneFault == faults' = faults + 1 /\ kills' = kills /\ losses' = losses
Running == call.goal # "none"
Named(n) == \E e \in Shown : e.name = n

(* A step inside a call that changes no file.                              *)
LEMMA Unseen ==
  ASSUME FilesSame, CallSame, NoFault, NoAnswer
  PROVE  StoreStep
<1>1. UNCHANGED Store!storeVars
  BY DEF Store!storeVars, FilesSame, CallSame, NoFault, NoAnswer, mishaps
<1> QED
  BY <1>1 DEF StoreStep

LEMMA Errs ==
  ASSUME Running, FilesSame, call'.name = call.name, call'.len = call.len, NoAnswer, OneFault, faulty' = TRUE,
         call'.goal = call.goal \/ (call.goal = "create" /\ call'.goal = "unlink")
  PROVE  StoreStep
<1>1. Store!Err
  BY DEF Store!Err, Store!Idling, Store!OneError, Store!SameCall, Running, FilesSame, NoAnswer, OneFault
<1> QED
  BY <1>1 DEF StoreStep, Store!StoreNext

LEMMA Reverts ==
  ASSUME KeptInv, KeptInv', promised' = promised
  PROVE  Store!Revert
<1>1. {e \in Shown' : \E g \in promised : g.name = e.name} = {e \in Shown : \E g \in promised : g.name = e.name}
  BY SettledStay
<1> QED
  BY <1>1 DEF Store!Revert, Store!Of

LEMMA FailedAnswer ==
  ASSUME Running, KeptInv, KeptInv', promised' = promised, call' = NoCall, answer'.what # "none", OneFault
  PROVE  StoreStep
<1>1. Store!Revert
  BY Reverts
<1>2. Store!Answer
  BY <1>1 DEF Store!Answer, Store!Idling, Store!OneError, Running, OneFault, NoCall
<1> QED
  BY <1>2 DEF StoreStep, Store!StoreNext

(* What is true of the files when a call returns.                          *)
Truth(a) ==
  \/ call.goal \in {"create", "exists", "free"} /\ a = "throws"
  \/ call.goal = "create" /\ a = "exists" /\ Named(call.name)
  \/ call.goal = "exists" /\ a = "true" /\ Named(call.name)
  \/ call.goal = "exists" /\ a = "false" /\ ~Named(call.name)
  \/ call.goal = "unlink" /\ a = "nospace" /\ (Named(call.name) => ~Untroubled)
  \/ call.goal = "free" /\ a = "free"

LEMMA TroubledStore ==
  ASSUME CalmInv
  PROVE  Store!Troubled <=> ~Untroubled
BY DEF CalmInv, Tallied, Untroubled, Store!Troubled

LEMMA NamedPresent ==
  ASSUME NEW n
  PROVE  Store!Present(n) <=> Named(n)
<1>1. ASSUME NEW e \in Shown, e.name = n
      PROVE  \E f \in {<<g.name, g.len>> : g \in Shown} : f[1] = n
  <2>1. <<e.name, e.len>> \in {<<g.name, g.len>> : g \in Shown} /\ <<e.name, e.len>>[1] = n
    BY <1>1
  <2> QED
    BY <2>1
<1> QED
  BY <1>1 DEF Store!Present, Named

LEMMA TrueAnswer ==
  ASSUME CalmInv, Running, FilesSame, NoFault, promised' = promised, call' = NoCall, NEW a, answer'.what = a, Truth(a)
  PROVE  StoreStep
<1>1. Store!True(a)
  <2>1. CASE call.goal = "create"
    BY <2>1, NamedPresent DEF Store!True, Truth
  <2>2. CASE call.goal = "unlink"
    BY <2>2, NamedPresent, TroubledStore DEF Store!True, Truth
  <2>3. CASE call.goal = "exists"
    BY <2>3, NamedPresent DEF Store!True, Truth
  <2>4. CASE call.goal = "free"
    BY <2>4 DEF Store!True, Truth
  <2> QED
    BY <2>1, <2>2, <2>3, <2>4 DEF Truth
<1>2. a \notin {"none", "ok"}
  BY DEF Truth
<1>3. Store!Answer
  BY <1>1, <1>2 DEF Store!Answer, Store!Idling, Store!NoError, Running, FilesSame, NoFault, NoCall, mishaps
<1> QED
  BY <1>3 DEF StoreStep, Store!StoreNext

(* A call that changes its file is not about a settled one.                *)
LEMMA NotPromised ==
  ASSUME PromiseInv, Changes(call)
  PROVE  \A e \in promised : e.name # call.name
BY DEF PromiseInv, Spared

LEMMA Appears ==
  ASSUME StoreInv, StoreInv', [Next]_vars, DirRegister, CallSame, NoFault, NoAnswer
  PROVE  StoreStep
<1>0. VolumeInv /\ VolumeInv' /\ KeptInv /\ KeptInv' /\ PromiseInv /\ GoodInv /\ CalmInv
  BY DEF StoreInv, FilesInv, KeptInv
<1>1. call.goal = "create" /\ call.pc = "register" /\ Changes(call)
  BY <1>0 DEF DirRegister, At, VolumeInv, PlaceInv, Placed, Adding, Changes, Adds
<1>2. /\ \A e \in Shown : e.name # call.name
      /\ Shown \cup {NewFile(call.name)} \subseteq Shown'
      /\ Good(fat, dir) /\ OwnOnly(fat, dir) => Shown' = Shown \cup {NewFile(call.name)}
  <2>1. Shown = FilesOf(fat, dir) /\ Shown' = FilesOf(fat', dir')
    BY <1>0, PlainSteps, PlainShown
  <2> QED
    BY <1>0, <2>1, RegisteredFiles
<1>3. \A e \in promised : e.name # call.name
  BY <1>0, <1>1, NotPromised
<1>4. NewFile(call.name).name = call.name /\ NewFile(call.name).len = 0
  BY DEF NewFile
<1>5. Store!Creating
  BY <1>1, <1>3 DEF Store!Creating, Store!SameCall, Store!NoError, CallSame, NoFault, NoAnswer, mishaps
<1>6. ~Store!Present(call.name)
  BY <1>2, NamedPresent DEF Named
<1>7. DEFINE seen == {<<e.name, e.len>> : e \in Shown} \cup {<<call.name, 0>>}
<1>8. CASE Untroubled
  <2>1. Good(fat, dir) /\ OwnOnly(fat, dir)
    BY <1>0, <1>1, <1>8 DEF GoodInv, Untroubled, CalmInv, NoRelics, Finished
  <2>2. {<<e.name, e.len>> : e \in Shown'} = seen
    BY <1>2, <1>4, <2>1
  <2> QED
    BY <1>1, <1>5, <1>6, <2>2 DEF Store!Appear, Store!Shows, StoreStep, Store!StoreNext, CallSame, NoFault
<1>9. CASE ~Untroubled
  <2>1. seen \subseteq {<<e.name, e.len>> : e \in Shown'}
    BY <1>2, <1>4
  <2>2. Store!Revert /\ Store!Troubled
    BY <1>0, <1>9, Reverts, TroubledStore DEF NoAnswer
  <2>3. Store!Of({e.name : e \in promised}, seen)
          = Store!Of({e.name : e \in promised}, {<<e.name, e.len>> : e \in Shown})
    BY <1>3 DEF Store!Of
  <2>4. Store!Shows(seen)
    BY <2>1, <2>2, <2>3 DEF Store!Shows, Store!Revert
  <2> QED
    BY <1>1, <1>5, <1>6, <2>4 DEF Store!Appear, Store!Shows, StoreStep, Store!StoreNext, CallSame, NoFault
<1> QED
  BY <1>8, <1>9

LEMMA Grows ==
  ASSUME StoreInv, StoreInv', [Next]_vars, CloseEntry, CallSame, NoFault, NoAnswer
  PROVE  StoreStep
<1>0. VolumeInv /\ VolumeInv' /\ PromiseInv /\ Shown = FilesOf(fat, dir) /\ Shown' = FilesOf(fat', dir')
  <2>1. VolumeInv /\ VolumeInv' /\ PromiseInv
    BY DEF StoreInv, FilesInv
  <2> QED
    BY <2>1, PlainSteps, PlainShown
<1>1. call.goal = "create" /\ call.pc = "close" /\ Changes(call)
  BY <1>0 DEF CloseEntry, At, VolumeInv, PlaceInv, Placed, Added, Changes, Adds
<1>2. CASE call.res = "ok"
  <2>1. NewFile(call.name) \in Shown /\ Shown' = (Shown \ {NewFile(call.name)}) \cup {EntryOf(call)}
    BY <1>0, <1>2, ClosedFiles
  <2>2. /\ NewFile(call.name).name = call.name /\ NewFile(call.name).len = 0
        /\ EntryOf(call).name = call.name /\ EntryOf(call).len = call.len
    BY DEF NewFile, EntryOf
  <2>3. \A e \in Shown : e.name = call.name => e = NewFile(call.name)
    BY <1>0, <2>1, <2>2, FileUnique
  <2>4. <<call.name, 0>> \in {<<e.name, e.len>> : e \in Shown}
    BY <2>1, <2>2
  <2>5. {<<e.name, e.len>> : e \in Shown'}
          = ({<<e.name, e.len>> : e \in Shown} \ {<<call.name, 0>>}) \cup {<<call.name, call.len>>}
    <3>1. \A e \in Shown : e # NewFile(call.name) => <<e.name, e.len>> # <<call.name, 0>>
      BY <2>3
    <3> QED
      BY <2>1, <2>2, <3>1
  <2>6. \A e \in promised : e.name # call.name
    BY <1>0, <1>1, NotPromised
  <2>7. Store!Creating
    BY <1>1, <2>6 DEF Store!Creating, Store!SameCall, Store!NoError, CallSame, NoFault, NoAnswer, mishaps
  <2> QED
    BY <1>1, <2>4, <2>5, <2>7 DEF Store!Grow, StoreStep, Store!StoreNext, CallSame, NoFault
<1>3. CASE call.res # "ok"
  <2>1. Shown' = (Shown \ {NewFile(call.name)}) \cup {NewFile(call.name)} /\ NewFile(call.name) \in Shown
    BY <1>0, <1>3, ClosedFiles
  <2> QED
    BY <2>1, Unseen DEF FilesSame
<1> QED
  BY <1>2, <1>3

LEMMA Vanishes ==
  ASSUME StoreInv, StoreInv', [Next]_vars, DirRemove, CallSame, NoFault, NoAnswer
  PROVE  StoreStep
<1>0. VolumeInv /\ KeptInv /\ KeptInv' /\ PromiseInv /\ GoodInv /\ CalmInv
  BY DEF StoreInv, FilesInv, KeptInv
<1>1. call.goal = "unlink" /\ call.pc = "remove" /\ Changes(call)
  BY <1>0 DEF DirRemove, At, VolumeInv, PlaceInv, Placed, Looking, Changes
<1>2. /\ \E e \in Shown : e.name = call.name /\ e.len = 0
      /\ \A e \in Shown : e.name = call.name => e.len = 0
      /\ \A e \in Shown : e.name # call.name => e \in Shown'
      /\ Good(fat, dir) /\ OwnOnly(fat, dir) => Shown' \subseteq Shown /\ \A e \in Shown' : e.name # call.name
  <2>1. Shown = FilesOf(fat, dir) /\ Shown' = FilesOf(fat', dir')
    BY <1>0, PlainSteps, PlainShown
  <2> QED
    BY <1>0, <2>1, RemovedFiles, FileUnique
<1>3. \A e \in promised : e.name # call.name
  BY <1>0, <1>1, NotPromised
<1>5. DEFINE seen == {<<e.name, e.len>> : e \in Shown} \ {<<call.name, 0>>}
<1>6. seen \subseteq {<<e.name, e.len>> : e \in Shown'}
  <2>1. \A e \in Shown : <<e.name, e.len>> # <<call.name, 0>> => e \in Shown'
    BY <1>2
  <2> QED
    BY <2>1
<1>7. Store!Shows(seen)
  <2>1. CASE Untroubled
    <3>1. Good(fat, dir) /\ OwnOnly(fat, dir)
      BY <1>0, <1>1, <2>1 DEF GoodInv, Untroubled, CalmInv, NoRelics, Finished
    <3>2. {<<e.name, e.len>> : e \in Shown'} \subseteq seen
      BY <1>2, <3>1
    <3> QED
      BY <1>6, <3>2 DEF Store!Shows
  <2>2. CASE ~Untroubled
    <3>1. Store!Revert /\ Store!Troubled
      BY <1>0, <2>2, Reverts, TroubledStore DEF NoAnswer
    <3>2. Store!Of({e.name : e \in promised}, seen)
            = Store!Of({e.name : e \in promised}, {<<e.name, e.len>> : e \in Shown})
      BY <1>3 DEF Store!Of
    <3> QED
      BY <1>6, <3>1, <3>2 DEF Store!Shows, Store!Revert
  <2> QED
    BY <2>1, <2>2
<1> QED
  BY <1>1, <1>3, <1>7 DEF Store!Vanish, Store!Shows, Store!SameCall, Store!NoError, StoreStep, Store!StoreNext,
     CallSame, NoFault, NoAnswer, mishaps

LEMMA GivesUp ==
  ASSUME StoreInv, FilesSame, NoFault, NoAnswer, call.goal = "create", Changes(call),
         call'.goal = "unlink", call'.name = call.name, call'.len = call.len
  PROVE  StoreStep
<1>1. \A e \in promised : e.name # call.name
  BY NotPromised DEF StoreInv
<1>2. Store!GiveUp
  BY <1>1 DEF Store!GiveUp, Store!Creating, Store!SameCall, Store!NoError, FilesSame, NoFault, NoAnswer, mishaps
<1> QED
  BY <1>2 DEF StoreStep, Store!StoreNext

LEMMA Rereads ==
  ASSUME StoreInv, StoreInv', Running, CallSame, NoAnswer,
         (NoFault /\ faults # 0) \/ (OneFault /\ faulty' = TRUE)
  PROVE  StoreStep
<1>1. Store!Revert
  BY Reverts DEF StoreInv, FilesInv, KeptInv, NoAnswer
<1>2. CASE NoFault /\ faults # 0
  <2>1. Store!Reread
    BY <1>1, <1>2 DEF Store!Reread, Store!Idling, Store!NoError, Running, CallSame, NoFault, NoAnswer, mishaps
  <2> QED
    BY <2>1 DEF StoreStep, Store!StoreNext
<1>3. CASE OneFault /\ faulty' = TRUE
  <2>1. faults' # 0
    BY <1>3 DEF OneFault, StoreInv, CalmInv, Tallied
  <2>2. Store!Reread
    BY <1>1, <1>3, <2>1 DEF Store!Reread, Store!Idling, Store!OneError, Running, CallSame, OneFault, NoAnswer
  <2> QED
    BY <2>2 DEF StoreStep, Store!StoreNext
<1> QED
  BY <1>2, <1>3

LEMMA Crashes ==
  ASSUME StoreInv, StoreInv', Kill \/ PowerLoss
  PROVE  StoreStep
<1>1. call' = NoCall /\ answer'.what = "none" /\ promised' = promised
  BY DEF Kill, PowerLoss, Restart
<1>2. faults' = faults /\ ((kills' = kills + 1 /\ losses' = losses) \/ (kills' = kills /\ losses' = losses + 1))
  BY DEF Kill, PowerLoss
<1>3. Store!Revert
  BY <1>1, Reverts DEF StoreInv, FilesInv, KeptInv
<1>4. Store!Crash
  BY <1>1, <1>2, <1>3 DEF Store!Crash, NoCall
<1> QED
  BY <1>4 DEF StoreStep, Store!StoreNext

LEMMA Runs ==
  ASSUME StoreInv, call.pc # Idle
  PROVE  Running
<1>1. call.pc \in Pcs
  BY DEF StoreInv, FilesInv, VolumeInv, ClusterInv, CallInv, CallType
<1>2. CASE call.pc = "count"
  BY <1>2 DEF StoreInv, Aimed, At, Running
<1>3. CASE call.pc # "count"
  BY <1>1, <1>3 DEF StoreInv, FilesInv, VolumeInv, PlaceInv, Placed, Looking, Adding, Added, Pcs, Running
<1> QED
  BY <1>2, <1>3

LEMMA StoreFacts ==
  ASSUME StoreInv
  PROVE  VolumeInv /\ KeptInv /\ CalmInv /\ call \in CallType
BY DEF StoreInv, FilesInv, KeptInv, VolumeInv, ClusterInv, CallInv

LEMMA PlainSame ==
  ASSUME StoreInv, [Next]_vars, ~Clearing, ~LinkCluster, fat' = fat, dir' = dir
  PROVE  FilesSame
BY StoreFacts, WindowSame DEF FilesSame

LEMMA InMemorySame ==
  ASSUME StoreInv, [Next]_vars, ~Clearing, ~LinkCluster, InMemory
  PROVE  FilesSame /\ NoFault
BY PlainSame DEF InMemory, window, calm, NoFault

LEMMA PlainSeen ==
  ASSUME StoreInv, [Next]_vars, ~Clearing, ~LinkCluster
  PROVE  Shown = FilesOf(fat, dir) /\ Shown' = FilesOf(fat', dir')
BY StoreFacts, PlainShown

(* A call that goes on.                                                    *)
LEMMA GoesOn ==
  ASSUME StoreInv, FilesSame, NoFault, NEW k, Continue(k), k.goal = call.goal, k.name = call.name, k.len = call.len
  PROVE  StoreStep
BY Unseen DEF Continue, CallSame, NoAnswer

LEMMA GoesTo ==
  ASSUME StoreInv, FilesSame, NoFault, NEW pc, Continue(Go(pc))
  PROVE  StoreStep
<1>1. call' = Go(pc)
  BY DEF Continue
<1> QED
  BY <1>1, StoreFacts, GoFields, GoesOn DEF Continue

LEMMA Returns ==
  ASSUME StoreInv, Running, FilesSame, NoFault, NEW a, Return(a), Truth(a)
  PROVE  StoreStep
BY StoreFacts, TrueAnswer DEF Return

-----------------------------------------------------------------------------
(* Failing accesses.                                                       *)
LEMMA FailsSeen ==
  ASSUME StoreInv, StoreInv', Running, FilesSame \/ call' = NoCall, Fail, Fault
  PROVE  StoreStep
<1>1. OneFault /\ faulty' = TRUE
  BY DEF Fault, OneFault
<1>2. call \in CallType /\ KeptInv
  BY StoreFacts
<1>3. KeptInv'
  BY StoreFacts, PTL
<1>4. ASSUME NEW a, a # "none", Return(a)
      PROVE  StoreStep
  BY <1>1, <1>2, <1>3, <1>4, FailedAnswer DEF Return
<1>5. CASE call.goal = "create" /\ Continue([call EXCEPT !.pc = "close", !.res = "nospace"])
  <2>1. call'.goal = "create" /\ call'.name = call.name /\ call'.len = call.len
    BY <1>2, <1>5 DEF Continue, CallType
  <2>2. call' # NoCall
    BY <1>2, <1>5 DEF Continue, CallType, NoCall, Idle
  <2> QED
    BY <1>1, <1>5, <2>1, <2>2, Errs DEF Continue, NoAnswer
<1>6. CASE call.goal = "create" /\ Continue([call EXCEPT !.pc = "find", !.goal = "unlink", !.dcl = Root])
  <2>1. call'.goal = "unlink" /\ call'.name = call.name /\ call'.len = call.len
    BY <1>2, <1>6 DEF Continue, CallType
  <2>2. call' # NoCall
    BY <2>1 DEF NoCall
  <2> QED
    BY <1>1, <1>6, <2>1, <2>2, Errs DEF Continue, NoAnswer
<1> QED
  BY <1>4, <1>5, <1>6 DEF Fail

LEMMA AccessFails ==
  ASSUME StoreInv, StoreInv', [Next]_vars, WriteFails \/ ReadFails \/ FlushFails \/ DirZeroFails
  PROVE  StoreStep
<1>0. VolumeInv /\ call \in CallType
  BY StoreFacts
<1>1. Fail /\ Fault
  BY DEF WriteFails, ReadFails, FlushFails, DirZeroFails
<1>2. call.pc # Idle
  BY DEF WriteFails, ReadFails, FlushFails, DirZeroFails, ZeroWith, Accessing, At, Idle
<1>3. CASE WriteFails
  <2>1. FilesSame
    BY <1>3, PlainSteps, PlainSame DEF WriteFails, window
  <2> QED
    BY <1>1, <1>2, <2>1, Runs, FailsSeen
<1>4. CASE ReadFails
  <2>1. CASE dirty \/ dir = ddir
    <3>1. FilesSame
      BY <1>0, <1>4, <2>1, PlainSteps, PlainSame, MovedSame
    <3> QED
      BY <1>1, <1>2, <3>1, Runs, FailsSeen
  <2>2. CASE ~(dirty \/ dir = ddir)
    <3>1. dirty = FALSE
      BY <1>0, <2>2 DEF VolumeInv, TypeInv, InfoTyped
    <3>2. Started
      BY <1>0, <2>2, <3>1, CleanView
    <3>3. call.pc = "count" \/ (call.pc = "find" /\ call.goal # "unlink")
      BY <1>4, <3>2 DEF Started, ReadFails, Accessing, At, Idle
    <3>4. call.goal # "unlink"
      BY <3>3 DEF StoreInv, Aimed, At
    <3>5. Return("throws")
      BY <1>1, <3>3, <3>4 DEF Fail
    <3> QED
      BY <1>1, <1>2, <3>5, Runs, FailsSeen DEF Return
  <2> QED
    BY <2>1, <2>2
<1>5. CASE FlushFails
  <2>1. CASE call.pc = "clear"
    <3>1. call.goal = "create"
      BY <1>0, <2>1 DEF VolumeInv, PlaceInv, Placed, Adding
    <3>2. Return("throws")
      BY <1>1, <2>1, <3>1 DEF Fail
    <3> QED
      BY <1>1, <1>2, <3>2, Runs, FailsSeen DEF Return
  <2>2. CASE call.pc = "flush"
    <3>1. FilesSame
      BY <1>5, <2>2, PlainSame DEF FlushFails, window, Clearing, LinkCluster, At
    <3> QED
      BY <1>1, <1>2, <3>1, Runs, FailsSeen
  <2> QED
    BY <1>5, <2>1, <2>2 DEF FlushFails
<1>6. CASE DirZeroFails
  <2>1. call' = NoCall
    BY <1>0, <1>1, <1>6, FailReturns DEF DirZeroFails, ZeroWith, At
  <2> QED
    BY <1>1, <1>2, <2>1, Runs, FailsSeen
<1> QED
  BY <1>3, <1>4, <1>5, <1>6

LEMMA MountFailsSeen ==
  ASSUME StoreInv, StoreInv', MountFails
  PROVE  StoreStep
<1>1. OneFault /\ Fail /\ call.pc = "mount"
  BY DEF MountFails, Fault, OneFault, At
<1>2. call' = NoCall /\ promised' = promised /\ answer'.what # "none"
  <2>1. call' = NoCall
    BY <1>1, StoreFacts, FailReturns
  <2>2. ~Continue([call EXCEPT !.pc = "close", !.res = "nospace"])
    BY <1>1, <2>1, StoreFacts DEF Continue, CallType, NoCall, Idle
  <2>3. ~Continue([call EXCEPT !.pc = "find", !.goal = "unlink", !.dcl = Root])
    BY <1>1, <2>1, StoreFacts DEF Continue, CallType, NoCall, Idle
  <2> QED
    BY <1>1, <2>1, <2>2, <2>3 DEF Fail, Return
<1>3. KeptInv' /\ Running
  <2>1. KeptInv'
    BY StoreFacts, PTL
  <2> QED
    BY <1>1, <2>1, Runs DEF Idle
<1> QED
  BY <1>1, <1>2, <1>3, StoreFacts, FailedAnswer

LEMMA MountsSeen ==
  ASSUME StoreInv, StoreInv', [Next]_vars, MountVolume \/ MountNoInfo
  PROVE  StoreStep
<1>1. call.pc = "mount" /\ Continue(Go("follow")) /\ ~Clearing /\ ~LinkCluster
  BY PlainSteps DEF MountVolume, MountNoInfo, MountWith, At
<1>2. CallSame /\ NoAnswer /\ Running
  BY <1>1, StoreFacts, GoFields, Runs DEF Continue, CallSame, NoAnswer, Idle
<1>3. CASE MountNoInfo
  BY <1>2, <1>3, Rereads DEF MountNoInfo, Fault, OneFault
<1>4. CASE MountVolume /\ faults # 0
  BY <1>2, <1>4, Rereads DEF MountVolume, calm, NoFault
<1>5. CASE MountVolume /\ faults = 0
  <2>1. FilesSame
    BY <1>1, <1>5, StoreFacts, CalmMount, PlainSame
  <2> QED
    BY <1>2, <1>5, <2>1, Unseen DEF MountVolume, calm, NoFault
<1> QED
  BY <1>3, <1>4, <1>5

LEMMA InfoSeen ==
  ASSUME StoreInv, StoreInv', [Next]_vars, WriteInfo \/ WriteInfoFails
  PROVE  StoreStep
<1>1. FilesSame /\ call.pc = "info" /\ Continue(Go("syncfs"))
  <2>1. FilesSame
    BY StoreFacts, PlainSteps, InfoStays, PlainSame
  <2> QED
    BY <2>1 DEF WriteInfo, WriteInfoFails, InfoWith, At
<1>2. CASE WriteInfo
  BY <1>1, <1>2, GoesTo DEF WriteInfo, calm, NoFault
<1>3. CASE WriteInfoFails
  <2>1. OneFault /\ faulty' = TRUE
    BY <1>3 DEF WriteInfoFails, Fault, OneFault
  <2>2. CallSame /\ NoAnswer
    BY <1>1, StoreFacts, GoFields DEF Continue, CallSame, NoAnswer
  <2> QED
    BY <1>1, <2>1, <2>2, Runs, Errs DEF CallSame, Idle
<1> QED
  BY <1>2, <1>3

-----------------------------------------------------------------------------
(* Calls begin, look for their name and return.                            *)
LEMMA BeginSeen ==
  ASSUME StoreInv, [Next]_vars, ~Clearing, ~LinkCluster,
         NEW goal \in {"create", "exists", "free"}, NEW n, NEW l, Begin(goal, n, l)
  PROVE  StoreStep
<1>1. call.goal = "none" /\ FilesSame /\ promised' = promised /\ mishaps' = mishaps /\ faulty' = FALSE
  BY PlainSame DEF StoreInv, Aimed, Begin, Return, window
<1>2. CASE vol = "none"
  <2>1. call' = NoCall /\ answer'.what = "throws"
    BY <1>2 DEF Begin, Return
  <2>2. Store!Refuse
    BY <1>1, <2>1 DEF Store!Refuse, Store!Idling, Store!NoError, FilesSame, NoCall, mishaps
  <2> QED
    BY <2>2 DEF StoreStep, Store!StoreNext
<1>3. CASE vol # "none"
  <2>1. answer'.what = "none"
    BY <1>3 DEF Begin
  <2>2. call'.goal = goal
    <3>1. PICK pc \in {"follow", "mount"} : call' = [NoCall EXCEPT !.pc = pc, !.goal = goal, !.name = n, !.len = l]
      BY <1>3 DEF Begin
    <3> QED
      BY <3>1 DEF NoCall
  <2>3. Store!Start
    BY <1>1, <2>1, <2>2 DEF Store!Start, Store!Idling, Store!NoError, FilesSame, mishaps
  <2> QED
    BY <2>3 DEF StoreStep, Store!StoreNext
<1> QED
  BY <1>2, <1>3

LEMMA CallsSeen ==
  ASSUME StoreInv, [Next]_vars, Calls
  PROVE  StoreStep
<1>0. ~Clearing /\ ~LinkCluster
  BY PlainSteps
<1>1. CASE FatMount \/ FatUmount
  <2>1. FilesSame
    BY <1>0, <1>1, PlainSame DEF FatMount, FatUmount, window
  <2> QED
    BY <1>1, <2>1, Unseen DEF FatMount, FatUmount, calm, CallSame, NoFault, NoAnswer
<1> QED
  BY <1>0, <1>1, BeginSeen DEF Calls, FatGetFreeSpace, FatFileExists, FatFileCreate

LEMMA FollowSeen ==
  ASSUME StoreInv, [Next]_vars, FollowPath
  PROVE  StoreStep
<1>1. FilesSame /\ NoFault /\ CalmInv
  BY PlainSteps, PlainSame, StoreFacts DEF FollowPath, window, calm, NoFault
<1>2. call.goal \in {"create", "exists", "free"} /\ Running
  BY StoreFacts, Runs DEF FollowPath, At, VolumeInv, PlaceInv, Placed, Looking, Idle
<1>3. CASE call.goal = "free" /\ ReturnFree(free)
  BY <1>1, <1>2, <1>3, TrueAnswer DEF ReturnFree, Truth
<1>4. CASE Continue([Go("count") EXCEPT !.clst = 2, !.ncl = 0])
  BY <1>1, <1>4, StoreFacts, GoesOn DEF Go, CallType
<1>5. CASE Return("throws")
  BY <1>1, <1>2, <1>5, Returns DEF Truth
<1>6. CASE Continue([Go("find") EXCEPT !.dcl = Root])
  BY <1>1, <1>6, StoreFacts, GoesOn DEF Go, CallType
<1> QED
  BY <1>3, <1>4, <1>5, <1>6 DEF FollowPath

LEMMA CountSeen ==
  ASSUME StoreInv, [Next]_vars, CountSector
  PROVE  StoreStep
<1>1. FilesSame /\ NoFault /\ CalmInv
  BY PlainSteps, PlainSame, StoreFacts DEF CountSector, window, calm, NoFault
<1>2. call.goal = "free" /\ Running
  BY DEF StoreInv, Aimed, CountSector, Running
<1>3. ASSUME NEW k, ReturnFree(k)
      PROVE  StoreStep
  BY <1>1, <1>2, <1>3, TrueAnswer DEF ReturnFree, Truth
<1>4. ASSUME NEW c, NEW k, Continue([call EXCEPT !.clst = c, !.ncl = k])
      PROVE  StoreStep
  BY <1>1, <1>4, StoreFacts, GoesOn DEF CallType
<1> QED
  BY <1>3, <1>4 DEF CountSector

LEMMA FoundNamed ==
  ASSUME Shown = FilesOf(fat, dir), NEW c \in Clusters, NEW s \in 1 .. Slots, FirstMatch(fat, dir, call.name, c, s)
  PROVE  Named(call.name)
BY FileFound DEF Named

LEMMA FindSeen ==
  ASSUME StoreInv, [Next]_vars, DirFind
  PROVE  StoreStep
<1>1. FilesSame /\ NoFault /\ Shown = FilesOf(fat, dir)
  BY PlainSteps, InMemorySame, PlainSeen DEF DirFind
<1>2. /\ call \in CallType /\ call.dcl \in Clusters /\ Reached(fat, dir, call.name, call.dcl)
      /\ call.goal \in {"create", "exists", "unlink"} /\ Running
  BY StoreFacts, Runs DEF DirFind, At, VolumeInv, PlaceInv, Placed, Looking, CallType, Idle
<1>3. PICK s \in 1 .. Slots :
        /\ Matches(s) /\ \A t \in 1 .. s - 1 : ~Matches(t)
        /\ CASE call.goal = "create" -> Return(IF dir[call.dcl][s].kind = "dir" THEN "throws" ELSE "exists")
             [] call.goal = "exists" -> Return("true")
             [] OTHER -> Continue([Go("remove") EXCEPT !.slot = s])
  BY DEF DirFind
<1>4. Named(call.name)
  <2>1. FirstMatch(fat, dir, call.name, call.dcl, s)
    BY <1>2, <1>3, SeenIs DEF FirstMatch
  <2> QED
    BY <1>1, <1>2, <2>1, FoundNamed
<1>5. CASE call.goal = "create"
  <2>1. PICK a \in {"throws", "exists"} : Return(a)
    BY <1>3, <1>5
  <2> QED
    BY <1>1, <1>2, <1>4, <1>5, <2>1, Returns DEF Truth
<1>6. CASE call.goal = "exists"
  BY <1>1, <1>2, <1>3, <1>4, <1>6, Returns DEF Truth
<1>7. CASE call.goal = "unlink"
  <2>1. Continue([Go("remove") EXCEPT !.slot = s])
    BY <1>3, <1>7
  <2> QED
    BY <1>1, <1>2, <2>1, GoesOn DEF Go, CallType
<1> QED
  BY <1>2, <1>5, <1>6, <1>7

LEMMA NotFoundSeen ==
  ASSUME StoreInv, NotFound, FilesSame, NoFault, Running, call.goal \in {"create", "exists", "unlink"},
         Shown = FilesOf(fat, dir), Absent(fat, dir, call.name)
  PROVE  StoreStep
<1>1. ~Named(call.name)
  BY FirstAbsent, FileFound DEF Named
<1>2. CASE call.goal = "create"
  BY <1>2, StoreFacts, GoesOn DEF NotFound, CallType
<1>3. CASE call.goal = "exists"
  BY <1>1, <1>3, Returns DEF NotFound, Truth
<1>4. CASE call.goal = "unlink"
  BY <1>1, <1>4, Returns DEF NotFound, Truth
<1> QED
  BY <1>2, <1>3, <1>4

LEMMA FindNotSeen ==
  ASSUME StoreInv, [Next]_vars, DirFindNot
  PROVE  StoreStep
<1>1. FilesSame /\ NoFault /\ Shown = FilesOf(fat, dir)
  BY PlainSteps, InMemorySame, PlainSeen DEF DirFindNot
<1>2. /\ call \in CallType /\ call.goal \in {"create", "exists", "unlink"} /\ Running
      /\ Reached(fat, dir, call.name, call.dcl)
  BY StoreFacts, Runs DEF DirFindNot, At, VolumeInv, PlaceInv, Placed, Looking, Idle
<1>3. Missing(dir[call.dcl], call.name)
  BY SeenIs DEF DirFindNot, Missing
<1>4. CASE (~Seen(Slots + 1) \/ call.dcl # Root) /\ NotFound
  <2>1. Missing(dir[Root], call.name)
    BY <1>2, <1>3 DEF Reached, Passed
  <2>2. Open(dir[Root], Slots + 1) => call.dcl # Root
    BY <1>4, SeenIs
  <2>3. Absent(fat, dir, call.name)
    BY <1>2, <1>3, <2>1, <2>2 DEF Absent, Reached
  <2> QED
    BY <1>1, <1>2, <1>4, <2>3, NotFoundSeen
<1>5. CASE Continue(Go("findnext"))
  BY <1>1, <1>5, GoesTo
<1> QED
  BY <1>4, <1>5 DEF DirFindNot

LEMMA NextSeen ==
  ASSUME StoreInv, [Next]_vars, DirNext
  PROVE  StoreStep
<1>1. FilesSame /\ NoFault /\ Shown = FilesOf(fat, dir)
  BY PlainSteps, InMemorySame, PlainSeen DEF DirNext
<1>2. /\ call \in CallType /\ call.goal \in {"create", "exists", "unlink"} /\ Running
      /\ call.dcl = Root /\ Passed(dir, call.name)
  BY StoreFacts, Runs DEF DirNext, At, VolumeInv, PlaceInv, Placed, Looking, Idle
<1>3. CASE fat[Root] \notin Clusters /\ NotFound
  <2>1. Absent(fat, dir, call.name)
    BY <1>2, <1>3 DEF Absent, Passed
  <2> QED
    BY <1>1, <1>2, <1>3, <2>1, NotFoundSeen
<1>4. CASE Continue([Go("find") EXCEPT !.dcl = fat[call.dcl]])
  BY <1>1, <1>2, <1>4, GoesOn DEF Go, CallType
<1> QED
  BY <1>2, <1>3, <1>4 DEF DirNext

-----------------------------------------------------------------------------
(* The directory is stretched and the area is looked for.                  *)
LEMMA StretchSeen ==
  ASSUME StoreInv, [Next]_vars, DirFull \/ DirStretch \/ ProbeHint \/ ChainNext
  PROVE  StoreStep
<1>1. FilesSame /\ NoFault /\ Shown = FilesOf(fat, dir)
  BY PlainSteps, InMemorySame, PlainSeen DEF DirFull, DirStretch, ProbeHint, ChainNext
<1>2. call \in CallType /\ call.goal = "create" /\ Running
  BY StoreFacts, Runs DEF DirFull, DirStretch, ProbeHint, ChainNext, At, VolumeInv, PlaceInv, Placed, Adding, Idle
<1>3. CASE Return("throws")
  BY <1>1, <1>2, <1>3, Returns DEF Truth
<1>4. ASSUME NEW pc, Continue(Go(pc))
      PROVE  StoreStep
  BY <1>1, <1>4, GoesTo
<1>5. ASSUME NEW pc, NEW c, Continue([Go(pc) EXCEPT !.dcl = c]) \/ Continue([Go(pc) EXCEPT !.ncl = c])
      PROVE  StoreStep
  BY <1>1, <1>2, <1>5, GoesOn DEF Go, CallType
<1>6. ASSUME NEW b, NEW c, Continue([Go("chain") EXCEPT !.scl = b, !.ncl = c])
      PROVE  StoreStep
  BY <1>1, <1>2, <1>6, GoesOn DEF Go, CallType
<1>7. ASSUME NEW c, Continue([call EXCEPT !.ncl = c])
      PROVE  StoreStep
  BY <1>1, <1>2, <1>7, GoesOn DEF CallType
<1> QED
  BY <1>3, <1>4, <1>5, <1>6, <1>7 DEF DirFull, DirStretch, ProbeHint, ChainNext

LEMMA SearchSeen ==
  ASSUME StoreInv, [Next]_vars, ExpandStart \/ Search \/ AllocPastEnd
  PROVE  StoreStep
<1>1. FilesSame /\ NoFault
  <2>1. FilesSame
    BY PlainSteps, PlainSame DEF ExpandStart, Search, AllocPastEnd, InMemory, window
  <2> QED
    BY <2>1 DEF ExpandStart, Search, AllocPastEnd, InMemory, calm, NoFault
<1>2. call \in CallType
  BY StoreFacts
<1>3. CASE ExpandStart
  <2>1. CASE Continue([Go("close") EXCEPT !.res = "nospace"])
    BY <1>1, <1>2, <2>1, GoesOn DEF Go, CallType
  <2>2. ASSUME NEW c, Continue([Go("search") EXCEPT !.start = c, !.clst = c, !.scl = c, !.ncl = 0])
        PROVE  StoreStep
    BY <1>1, <1>2, <2>2, GoesOn DEF Go, CallType
  <2> QED
    BY <1>3, <2>1, <2>2 DEF ExpandStart
<1>4. CASE Search
  <2>1. UNCHANGED <<answer, promised>>
    BY <1>4 DEF Search, Continue
  <2>2. CallSame
    BY <1>2, <1>4, SearchGoes DEF Go, CallType, CallSame
  <2> QED
    BY <1>1, <2>1, <2>2, Unseen DEF NoAnswer
<1>5. CASE AllocPastEnd
  <2>1. call.goal = "create" /\ call.pc = "alloc"
    BY <1>5, StoreFacts DEF AllocPastEnd, At, VolumeInv, PlaceInv, Placed, Added
  <2>2. Continue([call EXCEPT !.pc = "close", !.res = "nospace"])
    BY <1>5, <2>1 DEF AllocPastEnd, Fail
  <2> QED
    BY <1>1, <1>2, <2>2, GoesOn DEF CallType
<1> QED
  BY <1>3, <1>4, <1>5

LEMMA WindowSeen ==
  ASSUME StoreInv, StoreInv', [Next]_vars, MoveWindow \/ DirClear \/ Flush \/ DirZero
  PROVE  StoreStep
<1>0. VolumeInv /\ call \in CallType
  BY StoreFacts
<1>1. NoFault
  BY DEF MoveWindow, DirClear, Flush, DirZero, calm, NoFault
<1>2. CASE MoveWindow
  <2>1. CallSame /\ NoAnswer /\ call.pc # Idle
    BY <1>2 DEF MoveWindow, Accessing, At, Idle, CallSame, NoAnswer
  <2>2. CASE dirty \/ dir = ddir
    <3>1. FilesSame
      BY <1>0, <1>2, <2>2, PlainSteps, PlainSame, MovedSame
    <3> QED
      BY <1>1, <2>1, <3>1, Unseen
  <2>3. CASE ~(dirty \/ dir = ddir)
    <3>1. faults # 0
      BY <2>3 DEF StoreInv, CalmInv, CalmWindow
    <3> QED
      BY <1>1, <2>1, <3>1, Runs, Rereads
  <2> QED
    BY <2>2, <2>3
<1>3. CASE DirClear
  BY <1>0, <1>1, <1>3, ClearStays, GoesTo DEF DirClear, FilesSame
<1>4. CASE Flush
  <2>1. FilesSame
    BY <1>4, PlainSteps, PlainSame DEF Flush
  <2> QED
    BY <1>1, <1>4, <2>1, GoesTo DEF Flush
<1>5. CASE DirZero
  <2>1. FilesSame
    BY <1>0, <1>5, ZeroStays DEF FilesSame
  <2> QED
    BY <1>0, <1>1, <1>5, <2>1, GoesOn DEF DirZero, Go, CallType
<1> QED
  BY <1>2, <1>3, <1>4, <1>5

LEMMA PutSeen ==
  ASSUME StoreInv, [Next]_vars, TakeCluster \/ LinkCluster \/ Alloc
  PROVE  StoreStep
<1>0. NoFault
  BY DEF TakeCluster, LinkCluster, Alloc, calm, NoFault
<1>1. FilesSame
  <2>1. CASE LinkCluster
    BY <2>1, StoreFacts, LinkStays DEF FilesSame
  <2>2. CASE ~LinkCluster
    <3>1. Putting
      BY DEF TakeCluster, LinkCluster, Alloc, Putting
    <3>2. Linked(fat') = Linked(fat) /\ dir' = dir
      BY <2>2, <3>1, StoreFacts, PutLinks
    <3>3. FilesOf(fat', dir') = FilesOf(fat, dir)
      BY <3>2, LinkedFilesOf
    <3> QED
      BY <2>2, <3>3, PlainSteps, PlainSeen DEF FilesSame
  <2> QED
    BY <2>1, <2>2
<1>2. FilesSame /\ NoFault
  BY <1>0, <1>1
<1>3. CASE TakeCluster \/ LinkCluster
  BY <1>2, <1>3, GoesTo DEF TakeCluster, LinkCluster
<1>4. CASE Alloc
  <2>1. CASE Continue(Go("close"))
    BY <1>2, <2>1, GoesTo
  <2>2. ASSUME NEW c, NEW l, Continue([call EXCEPT !.clst = c, !.left = l])
        PROVE  StoreStep
    BY <1>2, <2>2, StoreFacts, GoesOn DEF CallType
  <2> QED
    BY <1>4, <2>1, <2>2 DEF Alloc
<1> QED
  BY <1>3, <1>4

-----------------------------------------------------------------------------
(* Entries are made, filled in and removed, and the call is synced.        *)
LEMMA EntriesSeen ==
  ASSUME StoreInv, StoreInv', [Next]_vars, DirRegister \/ CloseEntry \/ DirRemove
  PROVE  StoreStep
<1>1. NoFault
  BY DEF DirRegister, CloseEntry, DirRemove, calm, NoFault
<1>2. CASE DirRegister
  <2>1. PICK s : Continue([Go("expand") EXCEPT !.slot = s])
    BY <1>2 DEF DirRegister
  <2>2. CallSame /\ NoAnswer
    BY <2>1, StoreFacts DEF Continue, Go, CallType, CallSame, NoAnswer
  <2> QED
    BY <1>1, <1>2, <2>2, Appears
<1>3. CASE CloseEntry \/ DirRemove
  <2>1. CallSame /\ NoAnswer
    BY <1>3, StoreFacts, GoFields DEF CloseEntry, DirRemove, Continue, CallSame, NoAnswer
  <2> QED
    BY <1>1, <1>3, <2>1, Grows, Vanishes
<1> QED
  BY <1>2, <1>3

LEMMA SyncSeen ==
  ASSUME StoreInv, StoreInv', [Next]_vars, SyncFs \/ SyncFsFails
  PROVE  StoreStep
<1>1. /\ FilesSame /\ call.pc = "syncfs" /\ call \in CallType /\ Running /\ call.goal \in {"create", "unlink"}
      /\ KeptInv /\ CalmInv /\ Changes(call) /\ Shown = FilesOf(fat, dir)
  <2>1. FilesSame /\ call.pc = "syncfs" /\ Shown = FilesOf(fat, dir)
    BY PlainSteps, PlainSame, PlainSeen DEF SyncFs, SyncFsFails, window, At
  <2> QED
    BY <2>1, StoreFacts, Runs DEF VolumeInv, PlaceInv, Placed, Added, Changes, Adds, Idle
<1>2. KeptInv'
  BY StoreFacts, PTL
<1>3. CASE SyncFs
  <2>1. NoFault /\ AfterSync(~faulty)
    BY <1>3 DEF SyncFs, calm, NoFault
  <2>2. CASE call.goal = "create" /\ call.res = "ok"
    <3>1. /\ call' = NoCall /\ answer'.what = "ok"
          /\ promised' = IF ~faulty THEN promised \cup {NewEntry} ELSE promised
      BY <2>1, <2>2 DEF AfterSync
    <3>2. NewEntry \in Shown /\ NewEntry.name = call.name /\ NewEntry.len = call.len
      <4>1. /\ FirstMatch(fat, dir, call.name, call.dcl, call.slot) /\ dir[call.dcl][call.slot] = EntryOf(call)
            /\ call.dcl \in Clusters /\ call.slot \in 1 .. Slots
        BY <1>1, <2>2 DEF KeptInv, VolumeInv, PlaceInv, Placed, Added, CallType
      <4>2. NewEntry = EntryOf(call) /\ NewEntry.name = call.name /\ NewEntry.len = call.len
        BY NewEntryIs DEF EntryOf
      <4> QED
        BY <1>1, <4>1, <4>2, FilesAre
    <3>3. Store!True("ok")
      BY <2>2, <3>2 DEF Store!True
    <3>4. {e.name : e \in promised'} = IF ~faulty THEN {e.name : e \in promised} \cup {call.name}
                                       ELSE {e.name : e \in promised}
      BY <3>1, <3>2
    <3>5. Store!Answer
      BY <1>1, <2>1, <2>2, <3>1, <3>3, <3>4 DEF Store!Answer, Store!Idling, Store!NoError, FilesSame, NoFault, NoCall, mishaps
    <3> QED
      BY <3>5 DEF StoreStep, Store!StoreNext
  <2>3. CASE call.goal = "create" /\ call.res = "nospace"
    <3>1. Continue([call EXCEPT !.pc = "find", !.goal = "unlink", !.dcl = Root])
      BY <2>1, <2>3 DEF AfterSync
    <3>2. call'.goal = "unlink" /\ call'.name = call.name /\ call'.len = call.len /\ NoAnswer
      BY <1>1, <3>1 DEF Continue, CallType, NoAnswer
    <3> QED
      BY <1>1, <2>1, <2>3, <3>2, GivesUp
  <2>4. CASE call.goal = "unlink"
    <3>1. Return("nospace")
      BY <2>1, <2>4 DEF AfterSync
    <3>2. Named(call.name) => ~Untroubled
      BY <1>1, <2>4 DEF StoreInv, Gone, Named
    <3> QED
      BY <1>1, <2>1, <2>4, <3>1, <3>2, Returns DEF Truth
  <2> QED
    BY <1>1, <2>2, <2>3, <2>4 DEF CallType
<1>4. CASE SyncFsFails
  <2>1. OneFault /\ faulty' = TRUE /\ AfterSync(FALSE)
    BY <1>4 DEF SyncFsFails, Fault, OneFault
  <2>2. CASE call' = NoCall
    <3>1. promised' = promised /\ answer'.what # "none"
      <4>1. ~Continue([call EXCEPT !.pc = "find", !.goal = "unlink", !.dcl = Root])
        BY <1>1, <2>2 DEF Continue, CallType, NoCall, Idle
      <4> QED
        BY <2>1, <4>1 DEF AfterSync, Return
    <3> QED
      BY <1>1, <1>2, <2>1, <2>2, <3>1, FailedAnswer
  <2>3. CASE call.goal = "create" /\ Continue([call EXCEPT !.pc = "find", !.goal = "unlink", !.dcl = Root])
    <3>1. call'.goal = "unlink" /\ call'.name = call.name /\ call'.len = call.len /\ NoAnswer
      BY <1>1, <2>3 DEF Continue, CallType, NoAnswer
    <3> QED
      BY <1>1, <2>1, <2>3, <3>1, Errs
  <2> QED
    BY <1>1, <2>1, <2>2, <2>3 DEF AfterSync, Return
<1> QED
  BY <1>3, <1>4

-----------------------------------------------------------------------------
LEMMA StoreSeen ==
  ASSUME StoreInv, StoreInv', [Next]_vars
  PROVE  StoreStep
<1>1. CASE UNCHANGED vars
  <2>1. FilesSame
    BY <1>1 DEF vars, window, FilesSame, Shown, Finished
  <2> QED
    BY <1>1, <2>1, Unseen DEF vars, CallSame, NoFault, NoAnswer
<1>2. CASE Works
  BY <1>2, WindowSeen, MountsSeen, FollowSeen, FindSeen, FindNotSeen, NextSeen, EntriesSeen, StretchSeen, PutSeen,
     SearchSeen, InfoSeen, SyncSeen, CountSeen DEF Works
<1>3. CASE Fails
  BY <1>3, AccessFails, MountsSeen, MountFailsSeen, InfoSeen, SyncSeen DEF Fails
<1> QED
  BY <1>1, <1>2, <1>3, CallsSeen, Crashes DEF Next

LEMMA StoreInvInit == Init => StoreInv
<1> SUFFICES ASSUME Init
             PROVE  StoreInv
  OBVIOUS
<1>1. FilesInv /\ KeptInv
  BY FilesInit, KeptInit
<1>2. call = NoCall
  BY DEF Init
<1> QED
  BY <1>1, <1>2, CalmInit DEF StoreInv, KeptInv, Aimed, Gone, At, NoCall, Idle

LEMMA StoreInvStep ==
  ASSUME StoreInv, [Next]_vars
  PROVE  StoreInv'
<1>1. FilesInv'
  BY FilesStep DEF StoreInv
<1>2. PromiseInv'
  BY StoreFacts, KeptStep DEF KeptInv
<1>3. Aimed'
  BY StoreFacts, AimedStep DEF StoreInv
<1>4. Gone'
  BY GoneStep DEF StoreInv
<1>5. CalmInv'
  BY StoreFacts, CalmStep
<1> QED
  BY <1>1, <1>2, <1>3, <1>4, <1>5 DEF StoreInv

LEMMA StoreStarts == Init => Store!StoreInit
<1> SUFFICES ASSUME Init
             PROVE  Store!StoreInit
  OBVIOUS
<1>1. KeptInv /\ CalmInv
  BY KeptInit, CalmInit
<1>2. PICK v \in Volumes :
        /\ fat = v.fat /\ v.fat[Root] = EOC /\ ddir = [v.old EXCEPT ![Root] = v.dir] /\ dir = ddir
        /\ v.old \in [Clusters -> Sector]
        /\ promised = {v.dir[s] : s \in {t \in 1 .. Slots : IsFile(v.dir[t])}}
  BY RootStart
<1>3. Shown = FilesOf(fat, dir) /\ dir[Root] = v.dir
  BY <1>2, Bounds DEF Init, NoCall, Idle, Shown, Finished
<1>4. ASSUME NEW e \in Shown
      PROVE  e \in promised
  <2>1. PICK p \in Linked(fat) \X (1 .. Slots) : IsFile(dir[p[1]][p[2]]) /\ e = dir[p[1]][p[2]]
    BY <1>3 DEF FilesOf, Listed
  <2>2. p[1] = Root /\ p[2] \in 1 .. Slots
    BY <1>2, <2>1, Bounds DEF Linked
  <2> QED
    BY <1>2, <1>3, <2>1, <2>2
<1>5. Shown = promised
  BY <1>1, <1>4, PromisedShown
<1>6. {e.name : e \in promised} = {f[1] : f \in {<<e.name, e.len>> : e \in Shown}}
  <2>1. \A e \in promised : <<e.name, e.len>> \in {<<g.name, g.len>> : g \in promised} /\ <<e.name, e.len>>[1] = e.name
    OBVIOUS
  <2>2. \A f \in {<<g.name, g.len>> : g \in promised} : \E e \in promised : f[1] = e.name
    OBVIOUS
  <2>3. {e.name : e \in promised} \subseteq {f[1] : f \in {<<g.name, g.len>> : g \in promised}}
    BY <2>1
  <2>4. {f[1] : f \in {<<g.name, g.len>> : g \in promised}} \subseteq {e.name : e \in promised}
    BY <2>2
  <2> QED
    BY <1>5, <2>3, <2>4
<1>7. call = NoCall /\ answer.what = "none" /\ Untroubled
  BY DEF Init, Untroubled
<1>8. ~Store!Troubled
  BY <1>1, <1>7, TroubledStore
<1> QED
  BY <1>6, <1>7, <1>8 DEF Store!StoreInit, Store!Idling, NoCall

(* Seen by a caller, the library is a store of whole files with settled    *)
(* names: each step of a call, a failing access, a kill and a power loss   *)
(* between two of them included, is a step of FileStore or none, for       *)
(* volumes and sectors of any size and any number of mishaps.              *)
THEOREM StoreImplemented == Spec => Implements
<1>1. Init => Store!StoreInit /\ StoreInv
  BY StoreStarts, StoreInvInit
<1>2. StoreInv /\ [Next]_vars => StoreInv'
  BY StoreInvStep
<1>3. StoreInv /\ StoreInv' /\ [Next]_vars => [Store!StoreNext]_Store!storeVars
  BY StoreSeen DEF StoreStep
<1> QED
  BY <1>1, <1>2, <1>3, PTL DEF Spec, Implements, Store!StoreSpec

-----------------------------------------------------------------------------
(* Part 6: the free count.  While no allocation has been left unfinished,  *)
(* the count the library keeps is that of the FAT, less what the running   *)
(* call has taken and not yet subtracted, and so is the one in FSInfo      *)
(* unless the call is bound to write it.                                   *)
FreeNow == Cardinality(FreeClusters(fat))
TakingPcs == {"link", "alloc"}
Before(s) == {c \in FreeClusters(fat) : c \div PerSector < s}

CleanWindow == call.pc \notin Writing => ~dirty
MountedCall == call.pc \notin {Idle, "mount"} => vol = "mounted"
NoCount ==
  vol = "mounted" /\ dinfo.there => fsi # "off" /\ (free > N - 2 => dinfo.free > N - 2)
FreeRight ==
  vol = "mounted" /\ free <= N - 2 =>
    /\ At("link") => free = FreeNow + 1
    /\ At("alloc") => free + call.left = FreeNow + call.len
    /\ call.pc \notin TakingPcs => free = FreeNow
InfoDue ==
  \/ call.pc \in TakingPcs
  \/ fsi = "set" /\ call.pc \in {"clear", "zero", "expand", "search", "close", "flush", "info"}
  \/ fsi = "set" /\ At("register") /\ win = DirSec(call.dcl) /\ dir[call.dcl][1].kind = "end"
InfoRight == dinfo.there => dinfo.free = FreeNow \/ dinfo.free > N - 2 \/ InfoDue
InfoSet == At("info") => fsi = "set"
PartRight == At("count") => call.ncl = Cardinality(Before(call.clst \div PerSector))
Answered == At(Idle) /\ answer.what = "free" => answer.free = FreeNow
CountRight ==
  /\ CleanWindow /\ MountedCall /\ NoCount /\ FreeRight
  /\ InfoRight /\ InfoSet /\ PartRight /\ Answered
CountInv == torn \in BOOLEAN /\ (~torn => CountRight)

LEMMA FreeFinite ==
  ASSUME NEW f, NEW S \in SUBSET FreeClusters(f)
  PROVE  IsFiniteSet(S) /\ Cardinality(S) \in Nat /\ Cardinality(S) <= N - 2
<1>1. IsFiniteSet(Clusters) /\ Cardinality(Clusters) = N - 2
  <2>1. 2 \in Int /\ N - 1 \in Int /\ ~(2 > N - 1)
    BY Bounds
  <2> QED
    BY <2>1, Bounds, FS_Interval DEF Clusters
<1>2. S \subseteq Clusters
  BY DEF FreeClusters
<1> QED
  BY <1>1, <1>2, FS_Subset, FS_CardinalityType

LEMMA FreeTyped == FreeNow \in Nat /\ FreeNow <= N - 2
BY FreeFinite DEF FreeNow

(* One of the free clusters is taken.                                      *)
LEMMA OneTaken ==
  ASSUME VolumeInv, NEW c \in Clusters, NEW v, v # 0, PutFat(c, v), fat[c] = 0
  PROVE  FreeNow = FreeNow' + 1
<1>1. fat \in [Clusters -> 0 .. N + 1] /\ fat' = [fat EXCEPT ![c] = v]
  BY DEF PutFat, VolumeInv, TypeInv, FatTyped
<1>2. FreeClusters(fat') = FreeClusters(fat) \ {c} /\ c \in FreeClusters(fat)
  BY <1>1 DEF FreeClusters
<1>3. IsFiniteSet(FreeClusters(fat)) /\ FreeNow \in Nat
  BY FreeFinite DEF FreeNow
<1>4. Cardinality(FreeClusters(fat')) = Cardinality(FreeClusters(fat)) - 1
  BY <1>2, <1>3, FS_RemoveElement
<1> QED
  BY <1>3, <1>4 DEF FreeNow

LEMMA NoneTaken == ASSUME fat' = fat PROVE FreeNow' = FreeNow
BY DEF FreeNow

(* A step that leaves the FAT, the count and FSInfo alone.                 *)
LEMMA Steady ==
  ASSUME VolumeInv, CountRight, fat' = fat, UNCHANGED <<dinfo, free, fsi, vol>>,
         call.pc \notin TakingPcs, call'.pc # "link",
         call'.pc = "alloc" => call'.left = call'.len,
         call'.pc = "info" => fsi = "set",
         call'.pc \notin Writing => ~dirty',
         call'.pc \notin {Idle, "mount"} => vol = "mounted",
         InfoDue => InfoDue',
         PartRight', Answered'
  PROVE  CountRight'
<1>1. FreeNow' = FreeNow
  BY NoneTaken
<1>2. CleanWindow' /\ MountedCall' /\ NoCount' /\ InfoSet'
  BY DEF CountRight, CleanWindow, MountedCall, NoCount, InfoSet, At
<1>3. FreeRight'
  BY <1>1 DEF CountRight, FreeRight, At
<1>4. InfoRight'
  BY <1>1 DEF CountRight, InfoRight
<1> QED
  BY <1>2, <1>3, <1>4 DEF CountRight

(* The call goes on where nothing of this is its business, or it returns.  *)
Elsewhere == {Idle, "mount", "follow", "find", "findnext", "register", "regnext", "probe", "chain",
              "remove", "syncfs"}

LEMMA PartUnasked == ASSUME call'.pc # "count" PROVE PartRight'
BY DEF PartRight, At

LEMMA Unanswered == ASSUME call'.pc # Idle \/ answer'.what # "free" PROVE Answered'
BY DEF Answered, At

LEMMA Answering ==
  ASSUME NEW result \in {"ok", "throws", "exists", "true", "false", "nospace"}, Return(result)
  PROVE  call'.pc = Idle /\ answer'.what # "free"
BY NoCallType DEF Return

LEMMA MemoryCounts ==
  ASSUME VolumeInv, CountRight, InMemory, call.pc \in Elsewhere \ {Idle, "mount"}, call'.pc \in Elsewhere,
         ~InfoDue, call'.pc # Idle \/ answer'.what # "free"
  PROVE  CountRight'
<1> PartRight' /\ Answered'
  BY PartUnasked, Unanswered DEF Elsewhere, Idle
<1>1. UNCHANGED <<fat, dinfo, free, fsi, vol, dirty>>
  BY DEF InMemory, disk, window, info
<1>2. call.pc \notin Writing /\ call.pc \notin TakingPcs
  BY DEF Elsewhere, Writing, TakingPcs, Idle
<1>3. ~dirty' /\ vol = "mounted"
  BY <1>1, <1>2 DEF CountRight, CleanWindow, MountedCall
<1>4. call'.pc \notin {"link", "alloc", "info"}
  BY DEF Elsewhere, Idle
<1> QED
  BY <1>1, <1>2, <1>3, <1>4, Steady

(* A later cluster is not in an earlier sector of the FAT.                 *)
LEMMA DivisionGrows ==
  ASSUME NEW x \in Nat, NEW y \in Nat, NEW z \in Nat \ {0}, x <= y
  PROVE  x \div z <= y \div z
OBVIOUS

(* What the steps do to the call.                                          *)
LEMMA MoveWindowCounts ==
  ASSUME VolumeInv, CountRight, MoveWindow
  PROVE  CountRight'
<1>1. /\ fat' = fat /\ ~dirty' /\ UNCHANGED <<dinfo, free, fsi, vol, call, answer>>
      /\ ~InWindow /\ Accessing
  BY FreshKeeps DEF MoveWindow, Fresh, SyncWindow, WriteBack, disk, info, VolumeInv, ClusterInv
<1>2. FreeNow' = FreeNow /\ \A s : Before(s)' = Before(s)
  BY <1>1, NoneTaken DEF Before
<1>3. At("register") => win # DirSec(call.dcl)
  BY <1>1 DEF InWindow, Target, At
<1>4. InfoDue => InfoDue'
  BY <1>1, <1>3 DEF InfoDue, At
<1>5. CleanWindow' /\ MountedCall' /\ NoCount' /\ InfoSet'
  BY <1>1 DEF CountRight, CleanWindow, MountedCall, NoCount, InfoSet, At
<1>6. FreeRight' /\ InfoRight' /\ Answered'
  BY <1>1, <1>2, <1>4 DEF CountRight, FreeRight, InfoRight, Answered, At
<1>7. PartRight'
  BY <1>1 DEF CountRight, PartRight, Before, At
<1> QED
  BY <1>5, <1>6, <1>7 DEF CountRight

LEMMA LookCounts ==
  ASSUME VolumeInv, CountRight, DirFind \/ DirFindNot \/ DirNext
  PROVE  CountRight'
<1>1. call \in CallType /\ call.pc \in {"find", "findnext"} /\ InMemory
  BY DEF VolumeInv, ClusterInv, CallInv, DirFind, DirFindNot, DirNext, At
<1>2. ~InfoDue
  BY <1>1 DEF InfoDue, TakingPcs, At
<1>3. \/ \E result \in {"throws", "exists", "true", "false", "nospace"} : Return(result)
      \/ \E s : call' = [Go("remove") EXCEPT !.slot = s]
      \/ call' = Go("findnext")
      \/ \E c : call' = [Go("find") EXCEPT !.dcl = c]
      \/ call' = [call EXCEPT !.pc = "register", !.dcl = Root]
  BY DEF DirFind, DirFindNot, DirNext, NotFound, Continue
<1>4. call'.pc \in Elsewhere /\ (call'.pc # Idle \/ answer'.what # "free")
  BY <1>1, <1>3, Answering DEF Go, CallType, Elsewhere, Idle
<1> QED
  BY <1>1, <1>2, <1>4, MemoryCounts DEF Elsewhere, Idle

LEMMA FullCounts ==
  ASSUME VolumeInv, CountRight, DirFull \/ DirStretch
  PROVE  CountRight'
<1>1. call \in CallType /\ call.pc \in {"register", "regnext"} /\ InMemory
  BY DEF VolumeInv, ClusterInv, CallInv, DirFull, DirStretch, At
<1>2. ~InfoDue
  <2>1. DirFull => dir[call.dcl][1].kind # "end"
    BY Bounds DEF DirFull, FreeEntry
  <2>2. DirStretch => call.pc = "regnext"
    BY DEF DirStretch, At
  <2> QED
    BY <1>1, <2>1, <2>2 DEF InfoDue, TakingPcs, At
<1>3. \/ Return("throws") \/ call' = Go("regnext")
      \/ \E c : call' = [Go("register") EXCEPT !.dcl = c]
      \/ \E c : call' = [Go("probe") EXCEPT !.ncl = c]
  BY DEF DirFull, DirStretch, Continue
<1>4. call'.pc \in Elsewhere /\ (call'.pc # Idle \/ answer'.what # "free")
  BY <1>1, <1>3, Answering DEF Go, CallType, Elsewhere, Idle
<1> QED
  BY <1>1, <1>2, <1>4, MemoryCounts DEF Elsewhere, Idle

LEMMA ChainCounts ==
  ASSUME VolumeInv, CountRight, ProbeHint \/ ChainNext
  PROVE  CountRight'
<1>1. call \in CallType /\ call.pc \in {"probe", "chain"} /\ InMemory
  BY DEF VolumeInv, ClusterInv, CallInv, ProbeHint, ChainNext, At
<1>2. ~InfoDue
  BY <1>1 DEF InfoDue, TakingPcs, At
<1>3. \/ Return("throws")
      \/ \E c, d : call' = [Go("chain") EXCEPT !.scl = c, !.ncl = d]
      \/ call.pc = "chain" /\ \E c : call' = [call EXCEPT !.ncl = c]
  BY DEF ProbeHint, ChainNext, Continue, At
<1>4. call'.pc \in Elsewhere /\ (call'.pc # Idle \/ answer'.what # "free")
  BY <1>1, <1>3, Answering DEF Go, CallType, Elsewhere, Idle
<1> QED
  BY <1>1, <1>2, <1>4, MemoryCounts DEF Elsewhere, Idle

LEMMA FollowCounts ==
  ASSUME VolumeInv, CountRight, FollowPath
  PROVE  CountRight'
<1>1. call \in CallType /\ call.pc = "follow" /\ UNCHANGED <<fat, dinfo, free, fsi, vol, dirty>>
  BY DEF VolumeInv, ClusterInv, CallInv, FollowPath, At, disk, window, info
<1>2. ~InfoDue /\ vol = "mounted" /\ ~dirty
  BY <1>1 DEF InfoDue, TakingPcs, At, CountRight, CleanWindow, MountedCall, Writing, Idle
<1>3. CASE call' = [Go("find") EXCEPT !.dcl = Root] \/ Return("throws")
  <2>1. call'.pc \in {"find", Idle} /\ (call'.pc # Idle \/ answer'.what # "free")
    BY <1>1, <1>3, Answering DEF Go, CallType, Idle
  <2>2. PartRight' /\ Answered'
    BY <2>1, PartUnasked, Unanswered DEF Idle
  <2> QED
    BY <1>1, <1>2, <2>1, <2>2, Steady DEF TakingPcs, Idle
<1>4. CASE free <= N - 2 /\ ReturnFree(free)
  <2>1. call'.pc = Idle /\ answer'.free = free
    BY <1>4, NoCallType DEF ReturnFree
  <2>2. free = FreeNow /\ FreeNow' = FreeNow
    BY <1>1, <1>2, <1>4, NoneTaken DEF CountRight, FreeRight, TakingPcs
  <2>3. PartRight' /\ Answered'
    BY <2>1, <2>2, PartUnasked DEF Idle, Answered
  <2> QED
    BY <1>1, <1>2, <2>1, <2>3, Steady DEF TakingPcs, Idle
<1>5. CASE call' = [Go("count") EXCEPT !.clst = 2, !.ncl = 0]
  <2>1. call'.pc = "count" /\ call'.clst = 2 /\ call'.ncl = 0
    BY <1>1, <1>5, Bounds DEF Go, CallType
  <2>2. Before(2 \div PerSector) = {}
    <3>1. SUFFICES ASSUME NEW c \in Clusters, c \div PerSector < 2 \div PerSector
                   PROVE  FALSE
      BY DEF Before, FreeClusters
    <3>2. c \in Nat /\ c >= 2 /\ PerSector \in Nat \ {0}
      BY Bounds, VolumeAssumption DEF VolumeAssumption, Clusters
    <3>3. c \div PerSector >= 2 \div PerSector
      BY <3>2, DivisionGrows
    <3>4. c \div PerSector \in Nat /\ 2 \div PerSector \in Nat
      BY <3>2, Division
    <3> QED
      BY <3>1, <3>3, <3>4
  <2>3. Before(2 \div PerSector)' = {}
    BY <1>1, <2>2 DEF Before
  <2>4. PartRight'
    BY <2>1, <2>3, FS_EmptySet DEF PartRight, Before
  <2>5. Answered'
    BY <2>1, Unanswered DEF Idle
  <2> QED
    BY <1>1, <1>2, <2>1, <2>4, <2>5, Steady DEF TakingPcs, Idle
<1> QED
  BY <1>3, <1>4, <1>5 DEF FollowPath, Continue

LEMMA ExpandCounts ==
  ASSUME VolumeInv, CountRight, ExpandStart \/ Search
  PROVE  CountRight'
<1>1. /\ call \in CallType /\ call.pc \in {"expand", "search"}
      /\ UNCHANGED <<fat, dinfo, free, fsi, vol, dirty>>
  BY DEF VolumeInv, ClusterInv, CallInv, ExpandStart, Search, At, InMemory, disk, window, info
<1>2. ASSUME ExpandStart
      PROVE  call'.pc \in {"close", "search"}
  <2>1. \/ call' = [Go("close") EXCEPT !.res = "nospace"]
        \/ \E c : call' = [Go("search") EXCEPT !.start = c, !.clst = c, !.scl = c, !.ncl = 0]
    BY <1>2 DEF ExpandStart, Continue
  <2> QED
    BY <1>1, <2>1 DEF Go, CallType
<1>3. call'.pc \in {"close", "search", "alloc"} /\ (call'.pc = "alloc" => call'.left = call'.len)
  <2>1. CASE Search
    BY <1>1, <2>1, SearchGoes DEF Go, CallType
  <2> QED
    BY <1>2, <2>1
<1>4. InfoDue => InfoDue'
  BY <1>1, <1>3 DEF InfoDue, TakingPcs, At
<1>5. PartRight' /\ Answered'
  BY <1>3, PartUnasked, Unanswered DEF Idle
<1>6. vol = "mounted"
  BY <1>1 DEF CountRight, MountedCall, Idle
<1> QED
  BY <1>1, <1>3, <1>4, <1>5, <1>6, Steady DEF TakingPcs, Idle, Writing

LEMMA EntryCounts ==
  ASSUME VolumeInv, CountRight, DirRegister \/ CloseEntry \/ DirRemove
  PROVE  CountRight'
<1>1. /\ call \in CallType /\ call.pc \in {"register", "close", "remove"}
      /\ UNCHANGED <<fat, dinfo, free, fsi, vol>>
  BY DEF VolumeInv, ClusterInv, CallInv, DirRegister, CloseEntry, DirRemove, PutEntry, At, disk, info
<1>2. \/ call.pc = "register" /\ \E s : call' = [Go("expand") EXCEPT !.slot = s]
      \/ call.pc # "register" /\ call' = Go("flush")
  BY DEF DirRegister, CloseEntry, DirRemove, Continue, At
<1>3. IF call.pc = "register" THEN call'.pc = "expand" ELSE call'.pc = "flush"
  BY <1>1, <1>2 DEF Go, CallType
<1>4. InfoDue => InfoDue'
  BY <1>1, <1>3 DEF InfoDue, TakingPcs, At
<1>5. PartRight' /\ Answered'
  BY <1>3, PartUnasked, Unanswered DEF Idle
<1>6. vol = "mounted"
  BY <1>1 DEF CountRight, MountedCall, Idle
<1> QED
  BY <1>1, <1>3, <1>4, <1>5, <1>6, Steady DEF TakingPcs, Idle, Writing

LEMMA ClearCounts ==
  ASSUME VolumeInv, CountRight, DirClear \/ DirZero
  PROVE  CountRight'
<1>1. /\ call \in CallType /\ call.pc \in {"clear", "zero"} /\ call.ncl \in Clusters
      /\ UNCHANGED <<dinfo, free, fsi, vol>>
  BY DEF VolumeInv, ClusterInv, CallInv, Stretching, DirClear, DirZero, ZeroWith, SyncWindow, WriteBack,
     At, disk, info
<1>2. vol = "mounted"
  BY <1>1 DEF CountRight, MountedCall, Idle
<1>3. CASE DirClear
  <2>1. call.pc = "clear" /\ call'.pc = "zero" /\ fat' = fat /\ ~dirty'
    BY <1>1, <1>3 DEF DirClear, Continue, Go, CallType, At
  <2>2. InfoDue => InfoDue'
    BY <1>1, <2>1 DEF InfoDue, TakingPcs, At
  <2>3. PartRight' /\ Answered'
    BY <2>1, PartUnasked, Unanswered DEF Idle
  <2> QED
    BY <1>1, <1>2, <2>1, <2>2, <2>3, Steady DEF TakingPcs, Idle
<1>4. CASE DirZero
  <2>1. /\ call.pc = "zero" /\ call'.pc = "register" /\ call'.dcl = call.ncl /\ ~dirty'
        /\ win' = DirSec(call.ncl) /\ fat' = dfat
    BY <1>1, <1>4 DEF DirZero, ZeroWith, Continue, Go, CallType, At
  <2>2. fat' = fat
    <3>1. dirty = FALSE
      BY <2>1 DEF CountRight, CleanWindow, Writing, VolumeInv, TypeInv, InfoTyped
    <3> QED
      BY <2>1, <3>1, CleanView
  <2>3. dir'[call.ncl] = Cleared
    BY <1>1, <1>4 DEF DirZero, ZeroWith, VolumeInv, TypeInv, DirTyped
  <2>4. dir'[call'.dcl][1].kind = "end"
    BY <2>1, <2>3, Bounds DEF Cleared, Blank
  <2>5. InfoDue => InfoDue'
    BY <1>1, <2>1, <2>4 DEF InfoDue, TakingPcs, At
  <2>6. PartRight' /\ Answered'
    BY <2>1, PartUnasked, Unanswered DEF Idle
  <2> QED
    BY <1>1, <1>2, <2>1, <2>2, <2>5, <2>6, Steady DEF TakingPcs, Idle
<1> QED
  BY <1>3, <1>4

LEMMA FlushCounts ==
  ASSUME VolumeInv, CountRight, Flush \/ SyncFs
  PROVE  CountRight'
<1>1. /\ call \in CallType /\ call.pc \in {"flush", "syncfs"} /\ fat' = fat
      /\ UNCHANGED <<dinfo, free, fsi, vol>>
  BY DEF VolumeInv, ClusterInv, CallInv, Flush, SyncFs, SyncWindow, WriteBack, At, disk, info, window
<1>2. vol = "mounted"
  BY <1>1 DEF CountRight, MountedCall, Idle
<1>3. CASE Flush
  <2>1. /\ call.pc = "flush" /\ ~dirty'
        /\ call'.pc = IF fsi = "set" THEN "info" ELSE "syncfs"
    BY <1>1, <1>3 DEF Flush, Continue, Go, CallType, At
  <2>2. InfoDue => InfoDue'
    BY <1>1, <2>1 DEF InfoDue, TakingPcs, At
  <2>3. PartRight' /\ Answered'
    BY <2>1, PartUnasked, Unanswered DEF Idle
  <2> QED
    BY <1>1, <1>2, <2>1, <2>2, <2>3, Steady DEF TakingPcs, Idle
<1>4. CASE SyncFs
  <2>1. /\ call.pc = "syncfs" /\ dirty' = dirty
        /\ \/ call' = NoCall /\ answer' = [what |-> "ok", free |-> 0]
           \/ call' = [call EXCEPT !.pc = "find", !.goal = "unlink", !.dcl = Root]
           \/ Return("nospace")
    BY <1>4 DEF SyncFs, AfterSync, Continue, At, window
  <2>2. call'.pc \in {"find", Idle} /\ (call'.pc # Idle \/ answer'.what # "free")
    <3>1. CASE call' = NoCall /\ answer' = [what |-> "ok", free |-> 0]
      BY <3>1, NoCallType
    <3>2. CASE call' = [call EXCEPT !.pc = "find", !.goal = "unlink", !.dcl = Root]
      BY <1>1, <3>2 DEF CallType, Idle
    <3>3. CASE Return("nospace")
      BY <3>3, Answering
    <3> QED
      BY <2>1, <3>1, <3>2, <3>3
  <2>3. ~InfoDue /\ ~dirty
    BY <2>1 DEF InfoDue, TakingPcs, At, CountRight, CleanWindow, Writing
  <2>4. PartRight' /\ Answered'
    BY <2>2, PartUnasked, Unanswered DEF Idle
  <2> QED
    BY <1>1, <1>2, <2>1, <2>2, <2>3, <2>4, Steady DEF TakingPcs, Idle
<1> QED
  BY <1>3, <1>4

(* The volume is mounted, or let go of, between two calls.                 *)
LEMMA MountCounts ==
  ASSUME VolumeInv, CountRight, MountVolume
  PROVE  CountRight'
<1>1. /\ call \in CallType /\ call.pc = "mount" /\ call'.pc = "follow" /\ vol' = "mounted" /\ ~dirty'
      /\ fat' = dfat /\ dinfo' = dinfo
      /\ IF dinfo.there THEN free' = dinfo.free /\ fsi' = "clean" ELSE free' = Unknown /\ fsi' = "off"
  BY DEF VolumeInv, ClusterInv, CallInv, MountVolume, MountWith, Continue, Go, CallType, At, disk
<1>2. FreeNow' = FreeNow
  <2>1. dirty = FALSE
    BY <1>1 DEF CountRight, CleanWindow, Writing, VolumeInv, TypeInv, InfoTyped
  <2> QED
    BY <1>1, <2>1, CleanView, NoneTaken
<1>3. dinfo.there => dinfo.free = FreeNow \/ dinfo.free > N - 2
  BY <1>1 DEF CountRight, InfoRight, InfoDue, TakingPcs, At
<1>4. Unknown > N - 2
  BY Bounds DEF Unknown
<1>5. CleanWindow' /\ MountedCall' /\ NoCount' /\ InfoSet'
  BY <1>1 DEF CleanWindow, MountedCall, NoCount, InfoSet, At
<1>6. free' = FreeNow' \/ free' > N - 2
  BY <1>1, <1>2, <1>3, <1>4
<1>7. FreeRight'
  <2>1. free' \in Nat /\ N - 2 \in Nat
    BY <1>1, Bounds DEF Unknown, VolumeInv, TypeInv, InfoTyped, Infos
  <2>2. free' <= N - 2 => free' = FreeNow'
    BY <1>6, <2>1
  <2> QED
    BY <1>1, <2>2 DEF FreeRight, At, TakingPcs
<1>8. InfoRight'
  BY <1>1, <1>2, <1>3 DEF InfoRight
<1>9. PartRight' /\ Answered'
  BY <1>1, PartUnasked, Unanswered DEF Idle
<1> QED
  BY <1>5, <1>7, <1>8, <1>9 DEF CountRight

LEMMA CallsCount ==
  ASSUME VolumeInv, CountRight, Calls
  PROVE  CountRight'
<1>1. /\ call.pc = Idle /\ UNCHANGED <<fat, dinfo, free, fsi, dirty>>
      /\ \/ FatMount \/ FatUmount \/ \E goal, n, l : Begin(goal, n, l)
  BY DEF Calls, FatMount, FatUmount, FatGetFreeSpace, FatFileExists, FatFileCreate, Begin, disk, window,
     info, At
<1>2. FreeNow' = FreeNow
  BY <1>1, NoneTaken
<1>3. ~InfoDue /\ ~dirty
  BY <1>1 DEF InfoDue, TakingPcs, At, Idle, CountRight, CleanWindow, Writing
<1>4. CASE FatMount \/ FatUmount
  <2>1. call' = call /\ answer' = answer /\ vol' # "mounted"
    BY <1>4 DEF FatMount, FatUmount
  <2>2. CleanWindow' /\ MountedCall' /\ NoCount' /\ FreeRight' /\ InfoSet'
    BY <1>1, <1>3, <2>1 DEF CleanWindow, MountedCall, NoCount, FreeRight, InfoSet, At, Idle
  <2>3. InfoRight'
    BY <1>1, <1>2, <1>3 DEF CountRight, InfoRight
  <2>4. PartRight'
    BY <1>1, <2>1, PartUnasked DEF Idle
  <2>5. Answered'
    BY <1>2, <2>1 DEF CountRight, Answered, At
  <2> QED
    BY <2>2, <2>3, <2>4, <2>5 DEF CountRight
<1>5. ASSUME NEW goal, NEW n, NEW l, Begin(goal, n, l)
      PROVE  CountRight'
  <2>1. vol' = vol
    BY <1>5 DEF Begin
  <2>2. /\ call'.pc \in {Idle, "follow", "mount"} /\ (call'.pc = "follow" => vol = "mounted")
        /\ answer'.what # "free"
    <3>1. CASE vol = "none"
      <4>1. Return("throws")
        BY <1>5, <3>1 DEF Begin
      <4> QED
        BY <4>1, Answering DEF Idle
    <3>2. CASE vol # "none"
      <4>1. answer' = [what |-> "none", free |-> 0]
        BY <1>5, <3>2 DEF Begin
      <4>2. PICK pc \in {"follow", "mount"} :
              /\ call' = [NoCall EXCEPT !.pc = pc, !.goal = goal, !.name = n, !.len = l]
              /\ pc = "follow" => vol = "mounted"
        BY <1>5, <3>2 DEF Begin
      <4>3. call'.pc = pc
        BY <4>2 DEF NoCall
      <4> QED
        BY <4>1, <4>2, <4>3
    <3> QED
      BY <3>1, <3>2
  <2>3. PartRight' /\ Answered'
    BY <2>2, PartUnasked, Unanswered DEF Idle
  <2> QED
    BY <1>1, <1>3, <2>1, <2>2, <2>3, Steady DEF TakingPcs, Idle
<1> QED
  BY <1>1, <1>4, <1>5

(* A free cluster is taken, and it is subtracted later.                    *)
LEMMA TakeCounts ==
  ASSUME VolumeInv, CountRight, TakeCluster
  PROVE  CountRight'
<1>1. /\ call \in CallType /\ call.ncl \in Clusters /\ PutFat(call.ncl, EOC) /\ fat[call.ncl] = 0
      /\ UNCHANGED <<dinfo, free, fsi, vol>> /\ call'.pc = "link" /\ call.pc \in {"probe", "chain"}
  BY DEF VolumeInv, ClusterInv, CallInv, Stretching, TakeCluster, Continue, Go, CallType, disk, info
<1>2. FreeNow = FreeNow' + 1
  BY <1>1, OneTaken, Bounds
<1>3. vol = "mounted" /\ (free <= N - 2 => free = FreeNow)
  BY <1>1 DEF CountRight, MountedCall, FreeRight, TakingPcs, At, Idle
<1>4. FreeRight'
  BY <1>1, <1>2, <1>3 DEF FreeRight, At, TakingPcs
<1>5. CleanWindow' /\ MountedCall' /\ NoCount' /\ InfoSet'
  BY <1>1, <1>3 DEF CountRight, CleanWindow, MountedCall, NoCount, InfoSet, At, Writing
<1>6. InfoRight'
  BY <1>1 DEF InfoRight, InfoDue, TakingPcs
<1>7. PartRight' /\ Answered'
  BY <1>1, PartUnasked, Unanswered DEF Idle
<1> QED
  BY <1>4, <1>5, <1>6, <1>7 DEF CountRight

LEMMA MinusExact ==
  ASSUME NEW k \in Nat, NEW m \in Nat
  PROVE  Minus(k + m, m) = k
BY DEF Minus

(* FSInfo is written with the count once it has changed.                   *)
LEMMA MarkSets ==
  ASSUME NoCount, vol = "mounted", dinfo.there
  PROVE  Mark = "set"
BY DEF NoCount, Mark

LEMMA LinkCounts ==
  ASSUME VolumeInv, CountRight, LinkCluster
  PROVE  CountRight'
<1>1. /\ call \in CallType /\ call.ncl \in Clusters /\ call.dcl = Root /\ fat[Root] = EOC
      /\ fat' = [fat EXCEPT ![Root] = call.ncl]
      /\ dinfo' = dinfo /\ vol' = vol /\ fsi' = Mark
      /\ free' = (IF free <= N - 2 THEN Minus(free, 1) ELSE free)
      /\ call'.pc = "clear" /\ call.pc = "link"
  BY DEF VolumeInv, ClusterInv, CallInv, Stretching, LinkCluster, PutFat, Continue, Go, CallType, At, disk
<1>2. FreeNow' = FreeNow /\ FreeNow \in Nat
  <2>1. fat \in [Clusters -> 0 .. N + 1]
    BY DEF VolumeInv, TypeInv, FatTyped
  <2>2. FreeClusters(fat') = FreeClusters(fat)
    BY <1>1, <2>1, Bounds DEF FreeClusters
  <2> QED
    BY <2>2, FreeTyped DEF FreeNow
<1>3. vol = "mounted" /\ (free <= N - 2 => free = FreeNow + 1)
  BY <1>1 DEF CountRight, MountedCall, FreeRight, At, Idle
<1>4. free \in Nat /\ N - 2 \in Nat
  BY Bounds DEF VolumeInv, TypeInv, InfoTyped
<1>5. IF free <= N - 2 THEN free' = FreeNow' ELSE free' = free
  BY <1>1, <1>2, <1>3, MinusExact
<1>6. FreeRight'
  BY <1>1, <1>2, <1>3, <1>4, <1>5 DEF FreeRight, At, TakingPcs
<1>7. dinfo.there => fsi' = "set"
  BY <1>1, <1>3, MarkSets DEF CountRight
<1>8. FreeNow <= N - 2
  BY FreeTyped
<1>9. NoCount'
  BY <1>1, <1>2, <1>3, <1>4, <1>5, <1>7, <1>8 DEF CountRight, NoCount
<1>10. InfoRight'
  BY <1>1, <1>7 DEF InfoRight, InfoDue
<1>11. CleanWindow' /\ MountedCall' /\ InfoSet'
  BY <1>1, <1>3 DEF CleanWindow, MountedCall, InfoSet, At, Writing
<1>12. PartRight' /\ Answered'
  BY <1>1, PartUnasked, Unanswered DEF Idle
<1> QED
  BY <1>6, <1>9, <1>10, <1>11, <1>12 DEF CountRight

LEMMA AllocCounts ==
  ASSUME VolumeInv, CountRight, Alloc
  PROVE  CountRight'
<1>1. /\ call \in CallType /\ call.clst \in Clusters /\ call.pc = "alloc" /\ vol' = vol /\ dinfo' = dinfo
      /\ call.left # 0 /\ FreeFrom(call.clst, call.clst + call.left)
  BY Bounds DEF VolumeInv, ClusterInv, CallInv, CallType, Allocating, Alloc, At, Clusters, disk
<1>2. call.clst \in Nat /\ call.left \in Nat /\ call.len \in Nat
  BY <1>1 DEF CallType
<1>3. fat[call.clst] = 0
  BY <1>1, <1>2 DEF FreeFrom
<1>4. PICK v : v # 0 /\ PutFat(call.clst, v)
  <2>1. EOC # 0 /\ call.clst + 1 # 0
    BY <1>2, Bounds
  <2> QED
    BY <2>1 DEF Alloc
<1>5. FreeNow = FreeNow' + 1 /\ FreeNow' \in Nat
  <2>1. FreeNow = FreeNow' + 1
    BY <1>1, <1>3, <1>4, OneTaken
  <2>2. Cardinality(FreeClusters(fat')) \in Nat
    BY FreeFinite
  <2> QED
    BY <2>1, <2>2 DEF FreeNow
<1>6. vol = "mounted" /\ (free <= N - 2 => free + call.left = FreeNow + call.len)
  BY <1>1 DEF CountRight, MountedCall, FreeRight, At, Idle
<1>7. free \in Nat /\ N - 2 \in Nat
  BY Bounds DEF VolumeInv, TypeInv, InfoTyped
<1>8. dinfo.there => Mark = "set" /\ (free > N - 2 => dinfo.free > N - 2)
  BY <1>6, MarkSets DEF CountRight, NoCount
<1>9. CASE call.left # 1
  <2>1. /\ free' = free /\ fsi' = fsi /\ call'.pc = "alloc" /\ call'.left = call.left - 1
        /\ call'.len = call.len
    BY <1>1, <1>9 DEF Alloc, Continue, CallType, info
  <2>2. free <= N - 2 => free + (call.left - 1) = FreeNow' + call.len
    BY <1>2, <1>5, <1>6, <1>7
  <2>3. FreeRight'
    BY <2>1, <2>2 DEF FreeRight, At, TakingPcs
  <2>4. CleanWindow' /\ MountedCall' /\ InfoSet' /\ NoCount' /\ InfoRight'
    BY <1>1, <1>6, <2>1 DEF CountRight, CleanWindow, MountedCall, InfoSet, NoCount, InfoRight, InfoDue, At,
       Writing, TakingPcs
  <2>5. PartRight' /\ Answered'
    BY <2>1, PartUnasked, Unanswered DEF Idle
  <2> QED
    BY <2>3, <2>4, <2>5 DEF CountRight
<1>10. CASE call.left = 1
  <2>1. /\ call'.pc = "close"
        /\ IF free <= N - 2 THEN free' = Minus(free, call.len) /\ fsi' = Mark ELSE free' = free /\ fsi' = fsi
    BY <1>1, <1>10 DEF Alloc, Continue, Go, CallType
  <2>2. free <= N - 2 => free' = FreeNow'
    <3>1. free <= N - 2 => free = FreeNow' + call.len
      BY <1>2, <1>5, <1>6, <1>7, <1>10
    <3> QED
      BY <1>2, <1>5, <2>1, <3>1, MinusExact
  <2>3. FreeRight'
    BY <1>7, <2>1, <2>2 DEF FreeRight, At, TakingPcs
  <2>4. InfoRight'
    <3>1. CASE free <= N - 2
      BY <1>1, <1>8, <2>1, <3>1 DEF InfoRight, InfoDue
    <3>2. CASE ~(free <= N - 2)
      BY <1>1, <1>7, <1>8, <3>2 DEF InfoRight
    <3> QED
      BY <3>1, <3>2
  <2>5. FreeNow' <= N - 2
    BY FreeFinite DEF FreeNow
  <2>6. NoCount'
    <3>1. CASE free <= N - 2
      BY <1>1, <1>5, <1>7, <1>8, <2>1, <2>2, <2>5, <3>1 DEF NoCount
    <3>2. CASE ~(free <= N - 2)
      BY <1>1, <2>1, <3>2 DEF CountRight, NoCount
    <3> QED
      BY <3>1, <3>2
  <2>7. CleanWindow' /\ MountedCall' /\ InfoSet'
    BY <1>1, <1>6, <2>1 DEF CleanWindow, MountedCall, InfoSet, At, Writing
  <2>8. PartRight' /\ Answered'
    BY <2>1, PartUnasked, Unanswered DEF Idle
  <2> QED
    BY <2>3, <2>4, <2>6, <2>7, <2>8 DEF CountRight
<1> QED
  BY <1>9, <1>10

LEMMA InfoCounts ==
  ASSUME VolumeInv, CountRight, WriteInfo
  PROVE  CountRight'
<1>1. /\ call \in CallType /\ call.pc = "info" /\ call'.pc = "syncfs" /\ ~dirty' /\ fat' = dfat
      /\ dinfo' = [there |-> TRUE, free |-> free, next |-> last]
      /\ fsi' = "clean" /\ free' = free /\ vol' = vol
  BY DEF VolumeInv, ClusterInv, CallInv, WriteInfo, InfoWith, Fresh, Continue, Go, CallType, At
<1>2. FreeNow' = FreeNow
  <2>1. dirty = FALSE
    BY <1>1 DEF CountRight, CleanWindow, Writing, VolumeInv, TypeInv, InfoTyped
  <2> QED
    BY <1>1, <2>1, CleanView, NoneTaken
<1>3. vol = "mounted" /\ (free <= N - 2 => free = FreeNow)
  BY <1>1 DEF CountRight, MountedCall, FreeRight, TakingPcs, At, Idle
<1>4. free \in Nat /\ N - 2 \in Nat
  BY Bounds DEF VolumeInv, TypeInv, InfoTyped
<1>5. FreeRight'
  BY <1>1, <1>2, <1>3 DEF FreeRight, At, TakingPcs
<1>6. dinfo'.there /\ dinfo'.free = free
  BY <1>1
<1>7. NoCount'
  BY <1>1, <1>4, <1>6 DEF NoCount
<1>8. InfoRight'
  BY <1>2, <1>3, <1>4, <1>6 DEF InfoRight
<1>9. CleanWindow' /\ MountedCall' /\ InfoSet'
  BY <1>1, <1>3 DEF CleanWindow, MountedCall, InfoSet, At
<1>10. PartRight' /\ Answered'
  BY <1>1, PartUnasked, Unanswered DEF Idle
<1> QED
  BY <1>5, <1>7, <1>8, <1>9, <1>10 DEF CountRight

LEMMA ProductGrows ==
  ASSUME NEW x \in Nat, NEW y \in Nat, NEW z \in Nat, x >= y
  PROVE  x * z >= y * z
OBVIOUS

(* f_getfree comes to the next sector of the FAT, or past the last one.    *)
LEMMA SectorCounted ==
  ASSUME VolumeInv, NEW x \in Clusters, win = FatSec(x)
  PROVE  /\ Cardinality(Before(x \div PerSector + 1)) =
              Cardinality(Before(x \div PerSector)) + Cardinality(CountedHere)
         /\ Cardinality(Before(x \div PerSector)) \in Nat /\ Cardinality(CountedHere) \in Nat
         /\ (x \div PerSector + 1) * PerSector >= N =>
              Cardinality(Before(x \div PerSector + 1)) = FreeNow
<1> DEFINE s == x \div PerSector
<1>1. x \in Nat /\ PerSector \in Nat \ {0} /\ \A c \in Clusters : c \in Nat /\ c < N
  BY Bounds, VolumeAssumption DEF VolumeAssumption, Clusters
<1>2. s \in Nat /\ \A c \in Clusters : c \div PerSector \in Nat
  BY <1>1, Division
<1>3. \A c \in Clusters : FatSec(c) = win <=> c \div PerSector = s
  BY DEF FatSec
<1> HIDE DEF s
<1>4. /\ Before(s) \subseteq FreeClusters(fat) /\ CountedHere \subseteq FreeClusters(fat)
      /\ FreeClusters(fat) \subseteq Clusters
  BY DEF Before, CountedHere, FreeClusters
<1>5. Before(s + 1) = Before(s) \cup CountedHere
  <2>1. ASSUME NEW c \in FreeClusters(fat)
        PROVE  c \div PerSector < s + 1 <=> c \div PerSector < s \/ FatSec(c) = win
    <3>1. c \div PerSector \in Nat /\ (FatSec(c) = win <=> c \div PerSector = s)
      BY <1>2, <1>3, <1>4
    <3> QED
      BY <1>2, <3>1
  <2> QED
    BY <2>1 DEF Before, CountedHere
<1>6. Before(s) \cap CountedHere = {}
  <2>1. SUFFICES ASSUME NEW c \in FreeClusters(fat), c \div PerSector < s, FatSec(c) = win
                 PROVE  FALSE
    BY DEF Before, CountedHere
  <2>2. c \div PerSector = s
    BY <1>3, <1>4, <2>1
  <2> QED
    BY <1>2, <2>1, <2>2
<1>7. /\ IsFiniteSet(Before(s)) /\ Cardinality(Before(s)) \in Nat
      /\ IsFiniteSet(CountedHere) /\ Cardinality(CountedHere) \in Nat
  BY <1>4, FreeFinite
<1>8. Cardinality(Before(s + 1)) = Cardinality(Before(s)) + Cardinality(CountedHere)
  BY <1>5, <1>6, <1>7, FS_Union, FS_EmptySet
<1>9. ASSUME (s + 1) * PerSector >= N
      PROVE  Before(s + 1) = FreeClusters(fat)
  <2>1. ASSUME NEW c \in FreeClusters(fat)
        PROVE  c \div PerSector < s + 1
    <3>1. c \in Nat /\ c < N /\ x \in Nat
      BY <1>1, <1>4
    <3>2. PICK k \in Nat : k = c \div PerSector
      BY <1>1, <3>1, Division
    <3>3. k * PerSector \in Nat /\ k * PerSector <= c
      BY <1>1, <3>1, <3>2, Division
    <3>4. ~(k >= s + 1)
      <4>1. SUFFICES ASSUME k >= s + 1
                     PROVE  k * PerSector >= (s + 1) * PerSector
        BY <1>1, <1>2, <1>9, <3>1, <3>3, Bounds
      <4> QED
        BY <1>1, <1>2, <4>1, ProductGrows
    <3> QED
      BY <1>2, <3>2, <3>4
  <2> QED
    BY <2>1 DEF Before
<1> QED
  BY <1>7, <1>8, <1>9 DEF s, FreeNow

LEMMA CountCounts ==
  ASSUME VolumeInv, CountRight, CountSector
  PROVE  CountRight'
<1> DEFINE here == Cardinality(CountedHere)
<1>1. /\ call \in CallType /\ call.pc = "count" /\ call.clst \in Clusters /\ win = FatSec(call.clst)
      /\ UNCHANGED <<fat, dinfo, vol, dirty>>
      /\ call.ncl = Cardinality(Before(call.clst \div PerSector))
  BY DEF VolumeInv, ClusterInv, CallInv, TypeInv, Counting, CountRight, PartRight, CountSector, InWindow,
     Target, At, disk, window
<1>2. PICK k \in Nat : k = call.clst \div PerSector
  <2>1. call.clst \in Nat /\ PerSector \in Nat \ {0}
    BY <1>1, Bounds, VolumeAssumption DEF VolumeAssumption
  <2> QED
    BY <2>1, Division
<1>3. /\ call.ncl + here = Cardinality(Before(k + 1))
      /\ NextSector >= N => call.ncl + here = FreeNow
  BY <1>1, <1>2, SectorCounted DEF NextSector
<1>4. FreeNow' = FreeNow /\ FreeNow \in Nat /\ FreeNow <= N - 2
  BY <1>1, NoneTaken, FreeTyped
<1>5. vol = "mounted" /\ ~dirty
  BY <1>1 DEF CountRight, MountedCall, CleanWindow, Writing, Idle
<1>6. InfoRight /\ ~InfoDue
  BY <1>1 DEF CountRight, InfoDue, TakingPcs, At
<1>7. InfoRight'
  BY <1>1, <1>4, <1>6 DEF InfoRight
<1>8. CASE NextSector >= N
  <2>1. free' = FreeNow /\ fsi' = Mark /\ call'.pc = Idle /\ answer'.free = FreeNow
    BY <1>1, <1>3, <1>8, NoCallType DEF CountSector, CountedHere, NextSector, ReturnFree
  <2>2. NoCount'
    <3>1. ~(free' > N - 2)
      BY <1>4, <2>1, Bounds
    <3>2. dinfo.there => fsi' = "set"
      BY <1>5, <2>1, MarkSets DEF CountRight
    <3> QED
      BY <1>1, <3>1, <3>2 DEF NoCount
  <2>3. FreeRight' /\ Answered'
    BY <1>4, <2>1 DEF FreeRight, Answered, At, TakingPcs, Idle
  <2>4. PartRight'
    BY <2>1, PartUnasked DEF Idle
  <2>5. CleanWindow' /\ MountedCall' /\ InfoSet'
    BY <1>1, <1>5, <2>1 DEF CleanWindow, MountedCall, InfoSet, At, Idle
  <2> QED
    BY <1>7, <2>2, <2>3, <2>4, <2>5 DEF CountRight
<1>9. CASE ~(NextSector >= N)
  <2>1. /\ call'.pc = "count" /\ call'.clst = NextSector /\ call'.ncl = call.ncl + here
        /\ UNCHANGED <<free, fsi>>
    BY <1>1, <1>9 DEF CountSector, CountedHere, NextSector, Continue, CallType, info
  <2>2. NextSector \div PerSector = k + 1
    <3>1. call.clst \in Nat /\ PerSector \in Nat \ {0}
      BY <1>1, Bounds, VolumeAssumption DEF VolumeAssumption
    <3> QED
      BY <1>2, <3>1, Division DEF NextSector
  <2>3. Before(k + 1)' = Before(k + 1)
    BY <1>1 DEF Before
  <2>4. PartRight'
    BY <1>3, <2>1, <2>2, <2>3 DEF PartRight, Before
  <2>5. Answered'
    BY <2>1, Unanswered DEF Idle
  <2> QED
    BY <1>1, <1>5, <1>6, <2>1, <2>4, <2>5, Steady DEF TakingPcs, Idle
<1> QED
  BY <1>8, <1>9

-----------------------------------------------------------------------------
(* A step in which nothing goes wrong, or the count is not spoken for.     *)
LEMMA CalmSteps ==
  ASSUME [Next]_vars, torn \in BOOLEAN
  PROVE  torn' \/ (torn' = torn /\ (UNCHANGED vars \/ Calls \/ (Works /\ ~AllocPastEnd)))
<1>1. CASE UNCHANGED vars
  BY <1>1 DEF vars, calm
<1>2. CASE Calls
  BY <1>2 DEF Calls, FatMount, FatUmount, FatGetFreeSpace, FatFileExists, FatFileCreate, Begin, calm
<1>3. CASE Works
  <2>1. CASE MoveWindow \/ MountVolume \/ FollowPath \/ DirFind \/ DirFindNot \/ DirNext \/ DirRegister \/ DirFull
    BY <1>3, <2>1 DEF MoveWindow, MountVolume, FollowPath, DirFind, DirFindNot, DirNext, DirRegister, DirFull,
       InMemory, calm, AllocPastEnd
  <2>2. CASE DirStretch \/ TakeCluster \/ ProbeHint \/ ChainNext \/ LinkCluster \/ DirClear \/ DirZero
    BY <1>3, <2>2 DEF DirStretch, TakeCluster, ProbeHint, ChainNext, LinkCluster, DirClear, DirZero, InMemory,
       calm, AllocPastEnd
  <2>3. CASE ExpandStart \/ Search \/ Alloc \/ CloseEntry \/ DirRemove
    BY <1>3, <2>3 DEF ExpandStart, Search, Alloc, CloseEntry, DirRemove, InMemory, calm, AllocPastEnd
  <2>4. CASE Flush \/ WriteInfo \/ SyncFs \/ CountSector
    BY <1>3, <2>4 DEF Flush, WriteInfo, SyncFs, CountSector, calm, AllocPastEnd
  <2>5. CASE AllocPastEnd
    BY <2>5 DEF AllocPastEnd
  <2> QED
    BY <1>3, <2>1, <2>2, <2>3, <2>4, <2>5 DEF Works
<1>4. CASE Fails
  BY <1>4 DEF Fails, WriteFails, ReadFails, MountNoInfo, MountFails, DirZeroFails, FlushFails,
     WriteInfoFails, SyncFsFails, Fault
<1>5. CASE Kill \/ PowerLoss
  BY <1>5 DEF Kill, PowerLoss, Restart
<1> QED
  BY <1>1, <1>2, <1>3, <1>4, <1>5 DEF Next

LEMMA StillCounts ==
  ASSUME CountRight, UNCHANGED vars
  PROVE  CountRight'
<1>1. /\ UNCHANGED <<fat, dir, win, dirty, free, fsi, vol, call, answer>> /\ dinfo' = dinfo
  BY DEF vars, window, info, disk
<1>2. FreeNow' = FreeNow
  BY <1>1, NoneTaken
<1>3. InfoDue' <=> InfoDue
  BY <1>1 DEF InfoDue, At
<1>4. CleanWindow' /\ MountedCall' /\ NoCount' /\ InfoSet'
  BY <1>1 DEF CountRight, CleanWindow, MountedCall, NoCount, InfoSet, At
<1>5. FreeRight' /\ InfoRight' /\ Answered'
  BY <1>1, <1>2, <1>3 DEF CountRight, FreeRight, InfoRight, Answered, At
<1>6. PartRight'
  BY <1>1 DEF CountRight, PartRight, Before, At
<1> QED
  BY <1>4, <1>5, <1>6 DEF CountRight

LEMMA CountStep ==
  ASSUME VolumeInv, CountInv, [Next]_vars
  PROVE  CountInv'
<1>1. CASE torn'
  BY <1>1 DEF CountInv
<1>2. CASE ~torn'
  <2>1. CountRight /\ torn' \in BOOLEAN
    BY <1>2, CalmSteps DEF CountInv
  <2>2. UNCHANGED vars \/ Calls \/ (Works /\ ~AllocPastEnd)
    BY <1>2, CalmSteps DEF CountInv
  <2>3. ASSUME Works, ~AllocPastEnd
        PROVE  CountRight'
    BY <2>1, <2>3, MoveWindowCounts, MountCounts, FollowCounts, LookCounts, FullCounts, ChainCounts,
       TakeCounts, LinkCounts, ClearCounts, ExpandCounts, AllocCounts, EntryCounts, FlushCounts,
       InfoCounts, CountCounts DEF Works
  <2>4. CountRight'
    BY <2>1, <2>2, <2>3, CallsCount, StillCounts
  <2> QED
    BY <2>1, <2>4 DEF CountInv
<1> QED
  BY <1>1, <1>2

LEMMA CountInit == Init => CountInv
<1> SUFFICES ASSUME Init
             PROVE  CountInv
  OBVIOUS
<1>1. PICK v \in Volumes :
        /\ dfat = v.fat /\ dinfo = v.info
        /\ torn = (v.info.there /\ v.info.free \notin {Cardinality(FreeClusters(v.fat)), Unknown})
  BY DEF Init
<1>2. call = NoCall /\ fat = dfat /\ dirty = FALSE /\ vol = "none" /\ answer.what = "none"
  BY DEF Init
<1>3. torn \in BOOLEAN
  BY <1>1
<1>4. Unknown > N - 2
  BY Bounds DEF Unknown
<1>5. ~torn => InfoRight
  BY <1>1, <1>2, <1>4 DEF InfoRight, FreeNow
<1>6. CleanWindow /\ MountedCall /\ NoCount /\ FreeRight /\ InfoSet
  BY <1>2, NoCallType DEF CleanWindow, MountedCall, NoCount, FreeRight, InfoSet, At, Idle
<1>7. PartRight /\ Answered
  BY <1>2, NoCallType DEF PartRight, Answered, At, Idle
<1> QED
  BY <1>3, <1>5, <1>6, <1>7 DEF CountInv, CountRight

(* FreeCountExact: between calls the count the library keeps and the one   *)
(* fat_get_free_space reports are those of the FAT, for volumes, sectors   *)
(* of the FAT and directories of any size and any calls, as long as FSInfo *)
(* was right and no allocation has been left unfinished.                   *)
THEOREM FreeCountRight == Spec => []FreeCountExact
<1>1. Init => VolumeInv /\ CountInv
  BY VolumeInit, CountInit
<1>2. VolumeInv /\ CountInv /\ [Next]_vars => VolumeInv' /\ CountInv'
  BY VolumeStep, CountStep
<1>3. CountInv => FreeCountExact
  BY DEF CountInv, CountRight, FreeRight, Answered, FreeNow, FreeCountExact, TakingPcs, At, Idle
<1> QED
  BY <1>1, <1>2, <1>3, PTL DEF Spec
=============================================================================
