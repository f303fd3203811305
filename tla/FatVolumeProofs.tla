-------------------------- MODULE FatVolumeProofs --------------------------
(***************************************************************************)
(* Proofs about FatVolume, for volumes and sectors of any size, any        *)
(* requests and any number of failing accesses, kills and power losses.    *)
(***************************************************************************)
EXTENDS FatVolume, FiniteSetTheorems, TLAPS

(* Part 1: clusters in use.  The FAT: what the library sees differs from   *)
(* the disk in the window at most, and there only where the disk has a     *)
(* free cluster or the end of the directory.                               *)
RootEntries == Clusters \cup {EOC}
Kept(c) == fat[c] = dfat[c] \/ (c = Root /\ dfat[c] = EOC)

Tables ==
  /\ dfat = [c \in Clusters |-> dfat[c]] /\ fat = [c \in Clusters |-> fat[c]]
  /\ dfat[Root] \in RootEntries /\ fat[Root] \in RootEntries
  /\ \A f \in vfat[FatSec(Root)] : f[Root] \in RootEntries
Window == \A c \in Clusters : FatSec(c) # win \/ ~dirty => fat[c] = dfat[c]
UsedKept == \A c \in Clusters : dfat[c] # 0 => Kept(c)
FatInv == Tables /\ Window /\ UsedKept

(* The locals of the running call.                                         *)
Pcs ==
  {Idle, "mount", "follow", "find", "findnext", "register", "regnext", "probe", "chain", "link",
   "clear", "zero", "expand", "search", "alloc", "close", "remove", "flush", "info", "syncfs",
   "count"}
CallType ==
  [pc : Pcs, goal : {"none", "create", "exists", "free", "unlink"}, name : Names \cup {BadName},
   len : Nat, res : {"ok", "nospace"}, dcl : Clusters, slot : 1 .. Slots, start : Clusters,
   clst : Nat, scl : Nat, ncl : Nat, left : Nat]

FreeFrom(a, b) == \A c \in Clusters : a <= c /\ c < b => fat[c] = 0

(* The search: the run of free clusters ends before the cluster that is    *)
(* looked at, or has gone past the end of the volume.                      *)
Searching ==
  At("search") =>
    /\ call.clst \in Clusters /\ call.scl >= 2 /\ call.len # 0
    /\ call.clst = call.scl + call.ncl \/ call.scl + call.ncl >= N
    /\ FreeFrom(call.scl, call.scl + call.ncl)
Allocating ==
  At("alloc") => call.clst >= 2 /\ call.left # 0 /\ FreeFrom(call.clst, call.clst + call.left)
Stretching ==
  /\ call.pc \in {"regnext", "probe", "chain", "link"} => call.dcl = Root
  /\ call.pc \in {"probe", "chain", "link"} => call.ncl \in Clusters /\ fat[Root] = EOC
  /\ At("chain") => call.scl \in Clusters
  /\ call.pc \in {"clear", "zero"} => call.ncl \in Clusters
CallInv == call \in CallType /\ Searching /\ Allocating /\ Stretching

ClusterInv == FatInv /\ CallInv

Plain == Pcs \ {"search", "alloc", "regnext", "probe", "chain", "link", "clear", "zero"}

-----------------------------------------------------------------------------
LEMMA Bounds ==
  /\ N \in Nat /\ N > 3 /\ Root \in Clusters /\ Clusters \subseteq Nat
  /\ 2 \in Clusters /\ 0 \notin Clusters /\ EOC \notin Clusters /\ EOC # 0
  /\ Slots \in Nat /\ Slots # 0 /\ 1 \in 1 .. Slots
BY VolumeAssumption DEF VolumeAssumption, Clusters, EOC

LEMMA NextInRange ==
  ASSUME NEW c \in Clusters
  PROVE  /\ Next1(c) \in Clusters
         /\ Next1(c) = c + 1 \/ (Next1(c) = 2 /\ c + 1 >= N)
BY Bounds DEF Next1, Clusters

LEMMA NoCallType ==
  NoCall \in CallType /\ NoCall.pc = Idle
BY Bounds DEF NoCall, CallType, Pcs

(* A call that is nowhere near the FAT has nothing to keep.                *)
LEMMA PlainCall ==
  ASSUME call' \in CallType, call'.pc \in Plain
  PROVE  CallInv'
BY DEF CallInv, Searching, Allocating, Stretching, At, Plain

LEMMA Returned ==
  ASSUME NEW what, Return(what)
  PROVE  call' \in CallType /\ call'.pc \in Plain
BY NoCallType DEF Return, Plain, Pcs, Idle

LEMMA Failed ==
  ASSUME call \in CallType, Fail
  PROVE  call' \in CallType /\ call'.pc \in Plain
<1>1. CASE call' = [call EXCEPT !.pc = "close", !.res = "nospace"]
  BY <1>1 DEF CallType, Pcs, Plain, Idle
<1>2. CASE call' = [call EXCEPT !.pc = "find", !.goal = "unlink", !.dcl = Root]
  BY <1>2, Bounds DEF CallType, Pcs, Plain, Idle
<1>3. CASE \E what : Return(what)
  BY <1>3, Returned
<1> QED
  BY <1>1, <1>2, <1>3 DEF Fail, Continue

(* What leaves the FAT and the window alone keeps the FAT.                 *)
LEMMA FatUntouched ==
  ASSUME FatInv, UNCHANGED <<dfat, vfat, fat, win, dirty>>
  PROVE  FatInv'
BY DEF FatInv, Tables, Window, UsedKept, Kept

(* SyncWindow: the disk is what the library sees.                          *)
LEMMA Synced ==
  ASSUME FatInv, SyncWindow
  PROVE  /\ dfat' = fat
         /\ \A f \in vfat'[FatSec(Root)] : f[Root] \in RootEntries
<1>1. FatSec(Root) \in FatSecs
  BY Bounds DEF FatSecs
<1>2. CASE dirty
  <2>1. WriteBack
    BY <1>2 DEF SyncWindow
  <2>2. dfat' = [c \in Clusters |-> fat[c]]
    BY <2>1 DEF WriteBack, FatInv, Window
  <2>3. ASSUME NEW f \in vfat'[FatSec(Root)]
        PROVE  f[Root] \in RootEntries
    <3>1. f \in vfat[FatSec(Root)] \/ f = [c \in Clusters |-> IF FatSec(c) = FatSec(Root) THEN fat[c] ELSE 0]
      BY <2>1, <1>1 DEF WriteBack
    <3> QED
      BY <3>1, Bounds DEF FatInv, Tables
  <2> QED
    BY <2>2, <2>3 DEF FatInv, Tables
<1>3. CASE ~dirty
  <2>1. dfat' = dfat /\ vfat' = vfat
    BY <1>3 DEF SyncWindow, disk, versions
  <2>2. dfat = fat
    BY <1>3 DEF FatInv, Tables, Window
  <2> QED
    BY <2>1, <2>2 DEF FatInv, Tables
<1> QED
  BY <1>2, <1>3

(* After it, whatever is in the window is clean.                           *)
LEMMA SyncedKeeps ==
  ASSUME FatInv, SyncWindow, fat' = fat
  PROVE  FatInv'
<1>1. dfat' = fat /\ \A f \in vfat'[FatSec(Root)] : f[Root] \in RootEntries
  BY Synced
<1> QED
  BY <1>1 DEF FatInv, Tables, Window, UsedKept, Kept

LEMMA FreshKeeps ==
  ASSUME FatInv, SyncWindow, NEW s, Fresh(s)
  PROVE  fat' = fat /\ FatInv'
<1>1. fat' = fat
  BY Synced DEF Fresh
<1> QED
  BY <1>1, SyncedKeeps

(* An entry of the FAT in the window that was free is set.                 *)
LEMMA PutKeeps ==
  ASSUME FatInv, NEW c \in Clusters, NEW v, PutFat(c, v), fat[c] = 0, win = FatSec(c),
         UNCHANGED <<dfat, vfat>>
  PROVE  FatInv'
<1>1. /\ fat' = [fat EXCEPT ![c] = v] /\ dirty' /\ win' = win
      /\ \A x \in Clusters : x # c => fat'[x] = fat[x]
  BY DEF PutFat, FatInv, Tables
<1>2. c # Root /\ dfat[c] = 0
  BY Bounds DEF FatInv, Tables, UsedKept, Kept, RootEntries
<1>3. Tables'
  BY <1>1, <1>2, Bounds DEF FatInv, Tables
<1>4. Window'
  BY <1>1 DEF FatInv, Window
<1>5. UsedKept'
  BY <1>1, <1>2 DEF FatInv, UsedKept, Kept
<1> QED
  BY <1>3, <1>4, <1>5 DEF FatInv

LEMMA EntryKeeps ==
  ASSUME FatInv, NEW k, NEW e, PutEntry(k, e), UNCHANGED <<dfat, vfat>>
  PROVE  FatInv'
BY DEF PutEntry, FatInv, Tables, Window, UsedKept, Kept

(* The library reads the volume anew.                                      *)
LEMMA Reread ==
  ASSUME fat' = dfat', dfat' = [c \in Clusters |-> dfat'[c]], dfat'[Root] \in RootEntries,
         \A f \in vfat'[FatSec(Root)] : f[Root] \in RootEntries
  PROVE  FatInv'
BY DEF FatInv, Tables, Window, UsedKept, Kept

LEMMA FreeKept ==
  ASSUME CallInv, fat' = fat, UNCHANGED call
  PROVE  CallInv'
BY DEF CallInv, Searching, Allocating, Stretching, FreeFrom, At

-----------------------------------------------------------------------------
(* One lemma for each kind of step.                                        *)
LEMMA MoveWindowKeeps ==
  ASSUME ClusterInv, MoveWindow
  PROVE  ClusterInv'
<1>1. FatInv' /\ fat' = fat
  BY FreshKeeps DEF ClusterInv, MoveWindow
<1>2. CallInv'
  BY <1>1, FreeKept DEF ClusterInv, MoveWindow, Continue
<1> QED
  BY <1>1, <1>2 DEF ClusterInv

LEMMA FailKeeps ==
  ASSUME ClusterInv, WriteFails \/ ReadFails \/ FlushFails \/ MountFails \/ DirZeroFails
  PROVE  ClusterInv'
<1>1. Fail
  BY DEF WriteFails, ReadFails, FlushFails, MountFails, DirZeroFails
<1>2. CallInv'
  BY <1>1, Failed, PlainCall DEF ClusterInv, CallInv
<1>3. CASE WriteFails \/ FlushFails
  BY <1>2, <1>3, FatUntouched DEF ClusterInv, WriteFails, FlushFails, disk, versions, window
<1>4. CASE ReadFails
  BY <1>2, <1>4, FreshKeeps DEF ClusterInv, ReadFails
<1>5. CASE MountFails
  <2>1. fat' = dfat' /\ dfat' = dfat /\ vfat' = vfat
    BY <1>5 DEF MountFails, disk, versions
  <2> QED
    BY <1>2, <2>1, Reread DEF ClusterInv, FatInv, Tables
<1>6. CASE DirZeroFails
  <2>1. fat' = dfat' /\ dfat' = dfat /\ vfat' = vfat
    BY <1>6 DEF DirZeroFails, ZeroWith
  <2> QED
    BY <1>2, <2>1, Reread DEF ClusterInv, FatInv, Tables
<1> QED
  BY <1>3, <1>4, <1>5, <1>6

LEMMA BeginKeeps ==
  ASSUME ClusterInv, NEW goal \in {"create", "exists", "free"}, NEW n \in Names \cup {BadName},
         NEW l \in Nat, Begin(goal, n, l)
  PROVE  ClusterInv'
<1>1. FatInv'
  BY FatUntouched DEF ClusterInv, Begin, disk, versions, window
<1>2. call' \in CallType /\ call'.pc \in Plain
  <2>1. CASE vol = "none"
    BY <2>1, Returned DEF Begin
  <2>2. CASE vol # "none"
    <3>1. PICK pc \in {"follow", "mount"} :
            call' = [NoCall EXCEPT !.pc = pc, !.goal = goal, !.name = n, !.len = l]
      BY <2>2 DEF Begin
    <3> QED
      BY <3>1, NoCallType DEF CallType, Pcs, Plain, Idle
  <2> QED
    BY <2>1, <2>2
<1> QED
  BY <1>1, <1>2, PlainCall DEF ClusterInv

LEMMA CallsKeep ==
  ASSUME ClusterInv, Calls
  PROVE  ClusterInv'
<1>1. CASE FatMount \/ FatUmount
  <2>1. FatInv'
    BY <1>1, FatUntouched DEF ClusterInv, FatMount, FatUmount, disk, versions, window
  <2>2. fat' = fat /\ call' = call
    BY <1>1 DEF FatMount, FatUmount, window
  <2> QED
    BY <2>1, <2>2, FreeKept DEF ClusterInv
<1>2. CASE FatGetFreeSpace
  BY <1>2, BeginKeeps DEF FatGetFreeSpace
<1>3. ASSUME NEW n \in Names \cup {BadName}, FatFileExists(n)
      PROVE  ClusterInv'
  BY <1>3, BeginKeeps DEF FatFileExists
<1>4. ASSUME NEW r \in Requests, FatFileCreate(r[1], r[2])
      PROVE  ClusterInv'
  <2>1. r[1] \in Names \cup {BadName} /\ r[2] \in Nat
    BY VolumeAssumption DEF VolumeAssumption
  <2> QED
    BY <1>4, <2>1, BeginKeeps DEF FatFileCreate
<1> QED
  BY <1>1, <1>2, <1>3, <1>4 DEF Calls

LEMMA MountKeeps ==
  ASSUME ClusterInv, NEW readable, MountWith(readable)
  PROVE  ClusterInv'
<1>1. FatInv'
  <2>1. fat' = dfat' /\ dfat' = dfat /\ vfat' = vfat
    BY DEF MountWith, disk, versions
  <2> QED
    BY <2>1, Reread DEF ClusterInv, FatInv, Tables
<1>2. call' \in CallType /\ call'.pc \in Plain
  <2>1. call' = [call EXCEPT !.pc = "follow"]
    BY DEF MountWith, Continue, Go
  <2> QED
    BY <2>1 DEF ClusterInv, CallInv, CallType, Pcs, Plain, Idle
<1> QED
  BY <1>1, <1>2, PlainCall DEF ClusterInv

LEMMA FollowPathKeeps ==
  ASSUME ClusterInv, FollowPath
  PROVE  ClusterInv'
<1>1. FatInv'
  BY FatUntouched DEF ClusterInv, FollowPath, disk, versions, window
<1>2. call' \in CallType /\ call'.pc \in Plain
  <2>1. CASE ReturnFree(free) \/ Return("throws")
    BY <2>1, NoCallType DEF Return, ReturnFree, Plain, Pcs, Idle
  <2>2. CASE call' = [Go("count") EXCEPT !.clst = 2, !.ncl = 0]
    BY <2>2 DEF ClusterInv, CallInv, CallType, Go, Pcs, Plain, Idle
  <2>3. CASE call' = [Go("find") EXCEPT !.dcl = Root]
    BY <2>3, Bounds DEF ClusterInv, CallInv, CallType, Go, Pcs, Plain, Idle
  <2> QED
    BY <2>1, <2>2, <2>3 DEF FollowPath, Continue
<1> QED
  BY <1>1, <1>2, PlainCall DEF ClusterInv

LEMMA LookingKeeps ==
  ASSUME ClusterInv, DirFind \/ DirFindNot \/ DirNext \/ CountSector \/ ExpandStart
                       \/ AllocPastEnd \/ SyncFsFails
  PROVE  FatInv'
BY FatUntouched DEF ClusterInv, DirFind, DirFindNot, DirNext, CountSector, ExpandStart, AllocPastEnd,
     SyncFsFails, InMemory, disk, versions, window

LEMMA FindKeeps ==
  ASSUME ClusterInv, DirFind \/ DirFindNot \/ DirNext
  PROVE  ClusterInv'
<1>1. call \in CallType
  BY DEF ClusterInv, CallInv
<1>2. CASE \E what : Return(what)
  BY <1>2, LookingKeeps, Returned, PlainCall DEF ClusterInv
<1>3. ASSUME NEW s \in 1 .. Slots, call' = [Go("remove") EXCEPT !.slot = s]
      PROVE  ClusterInv'
  <2>1. call' \in CallType /\ call'.pc \in Plain
    BY <1>1, <1>3 DEF CallType, Go, Pcs, Plain, Idle
  <2> QED
    BY <2>1, LookingKeeps, PlainCall DEF ClusterInv
<1>4. CASE call' = Go("findnext")
  <2>1. call' \in CallType /\ call'.pc \in Plain
    BY <1>1, <1>4 DEF CallType, Go, Pcs, Plain, Idle
  <2> QED
    BY <2>1, LookingKeeps, PlainCall DEF ClusterInv
<1>5. ASSUME NEW c \in Clusters, call' = [Go("find") EXCEPT !.dcl = c]
      PROVE  ClusterInv'
  <2>1. call' \in CallType /\ call'.pc \in Plain
    BY <1>1, <1>5 DEF CallType, Go, Pcs, Plain, Idle
  <2> QED
    BY <2>1, LookingKeeps, PlainCall DEF ClusterInv
<1>6. CASE call' = [call EXCEPT !.pc = "register", !.dcl = Root]
  <2>1. call' \in CallType /\ call'.pc \in Plain
    BY <1>1, <1>6, Bounds DEF CallType, Pcs, Plain, Idle
  <2> QED
    BY <2>1, LookingKeeps, PlainCall DEF ClusterInv
<1>7. CASE DirFind
  BY <1>2, <1>3, <1>7 DEF DirFind, Continue
<1>8. CASE DirFindNot \/ DirNext
  BY <1>2, <1>4, <1>5, <1>6, <1>8 DEF DirFindNot, DirNext, NotFound, Continue
<1> QED
  BY <1>7, <1>8

LEMMA EntriesKeep ==
  ASSUME ClusterInv, DirRegister \/ CloseEntry \/ DirRemove
  PROVE  ClusterInv'
<1>1. call \in CallType
  BY DEF ClusterInv, CallInv
<1>2. CASE DirRegister
  <2>1. PICK s \in 1 .. Slots : PutEntry(s, NewFile(call.name))
                              /\ call' = [Go("expand") EXCEPT !.slot = s]
    BY <1>2 DEF DirRegister, Continue
  <2>2. FatInv'
    BY <1>2, <2>1, EntryKeeps DEF ClusterInv, DirRegister, disk, versions
  <2>3. call' \in CallType /\ call'.pc \in Plain
    BY <1>1, <2>1 DEF CallType, Go, Pcs, Plain, Idle
  <2> QED
    BY <2>2, <2>3, PlainCall DEF ClusterInv
<1>3. CASE CloseEntry \/ DirRemove
  <2>1. \E s, e : PutEntry(s, e)
    BY <1>3 DEF CloseEntry, DirRemove
  <2>2. FatInv'
    BY <1>3, <2>1, EntryKeeps DEF ClusterInv, CloseEntry, DirRemove, disk, versions
  <2>3. call' = [call EXCEPT !.pc = "flush"]
    BY <1>3 DEF CloseEntry, DirRemove, Continue, Go
  <2>4. call' \in CallType /\ call'.pc \in Plain
    BY <1>1, <2>3 DEF CallType, Pcs, Plain, Idle
  <2> QED
    BY <2>2, <2>4, PlainCall DEF ClusterInv
<1> QED
  BY <1>2, <1>3

(* From here on the call may stay in a phase that has something to keep.   *)
LEMMA DirFullKeeps ==
  ASSUME ClusterInv, DirFull
  PROVE  ClusterInv'
<1>1. FatInv' /\ fat' = fat
  BY FatUntouched DEF ClusterInv, DirFull, InMemory, disk, versions, window
<1>2. CASE Return("throws")
  BY <1>1, <1>2, Returned, PlainCall DEF ClusterInv
<1>3. CASE call.dcl = Root /\ call' = [call EXCEPT !.pc = "regnext"]
  <2>1. call' \in CallType /\ call'.pc = "regnext" /\ call'.dcl = Root
    BY <1>3 DEF ClusterInv, CallInv, CallType, Pcs
  <2> QED
    BY <1>1, <2>1 DEF ClusterInv, CallInv, Searching, Allocating, Stretching, At
<1> QED
  BY <1>2, <1>3 DEF DirFull, Continue, Go

LEMMA DirStretchKeeps ==
  ASSUME ClusterInv, DirStretch
  PROVE  ClusterInv'
<1>1. FatInv' /\ fat' = fat
  BY FatUntouched DEF ClusterInv, DirStretch, InMemory, disk, versions, window
<1>2. call \in CallType /\ call.dcl = Root
  BY DEF ClusterInv, CallInv, Stretching, DirStretch, At
<1>3. CASE Return("throws")
  BY <1>1, <1>3, Returned, PlainCall DEF ClusterInv
<1>4. CASE fat[Root] \in Clusters /\ call' = [Go("register") EXCEPT !.dcl = fat[Root]]
  <2>1. call' \in CallType /\ call'.pc \in Plain
    BY <1>2, <1>4 DEF CallType, Go, Pcs, Plain, Idle
  <2> QED
    BY <1>1, <2>1, PlainCall DEF ClusterInv
<1>5. CASE fat[Root] \notin Clusters /\ call' = [Go("probe") EXCEPT !.ncl = Next1(Root)]
  <2>1. Next1(Root) \in Clusters
    BY Bounds, NextInRange
  <2>2. call' \in CallType /\ call'.pc = "probe" /\ call'.dcl = Root /\ call'.ncl \in Clusters
    BY <1>2, <1>5, <2>1, Bounds DEF CallType, Go, Pcs
  <2>3. fat'[Root] = EOC
    BY <1>1, <1>5 DEF ClusterInv, FatInv, Tables, RootEntries
  <2> QED
    BY <1>1, <2>2, <2>3 DEF ClusterInv, CallInv, Searching, Allocating, Stretching, At
<1> QED
  BY <1>2, <1>3, <1>4, <1>5 DEF DirStretch, Continue

LEMMA ChainKeeps ==
  ASSUME ClusterInv, ProbeHint \/ ChainNext
  PROVE  ClusterInv'
<1>1. FatInv' /\ fat' = fat
  BY FatUntouched DEF ClusterInv, ProbeHint, ChainNext, InMemory, disk, versions, window
<1>2. /\ call \in CallType /\ call.dcl = Root /\ call.ncl \in Clusters /\ fat[Root] = EOC
      /\ At("chain") => call.scl \in Clusters
  BY DEF ClusterInv, CallInv, Stretching, ProbeHint, ChainNext, At
<1>3. CASE Return("throws")
  BY <1>1, <1>3, Returned, PlainCall DEF ClusterInv
<1>4. CASE ProbeHint
  <2>1. PICK scl \in Clusters : call' = [Go("chain") EXCEPT !.scl = scl, !.ncl = Next1(scl)]
    BY <1>2, <1>4, Bounds DEF ProbeHint, Continue
  <2>2. Next1(scl) \in Clusters
    BY NextInRange
  <2>3. /\ call' \in CallType /\ call'.pc = "chain" /\ call'.dcl = Root
        /\ call'.ncl \in Clusters /\ call'.scl \in Clusters
    BY <1>2, <2>1, <2>2, Bounds DEF CallType, Go, Pcs
  <2> QED
    BY <1>1, <1>2, <2>3 DEF ClusterInv, CallInv, Searching, Allocating, Stretching, At
<1>5. CASE ChainNext /\ call' = [call EXCEPT !.ncl = Next1(@)]
  <2>1. Next1(call.ncl) \in Clusters
    BY <1>2, NextInRange
  <2>2. /\ call' \in CallType /\ call'.pc = "chain" /\ call'.dcl = Root
        /\ call'.ncl \in Clusters /\ call'.scl \in Clusters
    BY <1>2, <1>5, <2>1, Bounds DEF CallType, ChainNext, At
  <2> QED
    BY <1>1, <1>2, <2>2 DEF ClusterInv, CallInv, Searching, Allocating, Stretching, At
<1> QED
  BY <1>3, <1>4, <1>5 DEF ChainNext, Continue

LEMMA TakeClusterKeeps ==
  ASSUME ClusterInv, TakeCluster
  PROVE  ClusterInv'
<1>1. /\ call \in CallType /\ call.dcl = Root /\ call.ncl \in Clusters /\ fat[Root] = EOC
      /\ win = FatSec(call.ncl) /\ fat[call.ncl] = 0 /\ PutFat(call.ncl, EOC)
  BY DEF ClusterInv, CallInv, Stretching, TakeCluster, InWindow, Target, At
<1>2. FatInv'
  BY <1>1, PutKeeps DEF ClusterInv, TakeCluster, disk, versions
<1>3. fat'[Root] = EOC
  BY <1>1, Bounds DEF ClusterInv, FatInv, Tables, PutFat
<1>4. call' \in CallType /\ call'.pc = "link" /\ call'.dcl = Root /\ call'.ncl \in Clusters
  BY <1>1, Bounds DEF TakeCluster, Continue, Go, CallType, Pcs
<1> QED
  BY <1>2, <1>3, <1>4 DEF ClusterInv, CallInv, Searching, Allocating, Stretching, At

(* The end of the directory is replaced: on the disk it is still the end.  *)
LEMMA LinkClusterKeeps ==
  ASSUME ClusterInv, LinkCluster
  PROVE  ClusterInv'
<1>1. /\ call \in CallType /\ call.dcl = Root /\ call.ncl \in Clusters /\ fat[Root] = EOC
      /\ win = FatSec(Root)
  BY DEF ClusterInv, CallInv, Stretching, LinkCluster, InWindow, Target, At
<1>2. /\ fat' = [fat EXCEPT ![Root] = call.ncl] /\ dirty' /\ win' = win
      /\ dfat' = dfat /\ vfat' = vfat
  BY <1>1 DEF LinkCluster, PutFat, disk, versions
<1>3. dfat[Root] = EOC
  BY <1>1, Bounds DEF ClusterInv, FatInv, Tables, UsedKept, Kept, RootEntries
<1>4. Tables' /\ Window'
  BY <1>1, <1>2, Bounds DEF ClusterInv, FatInv, Tables, Window, RootEntries
<1>5. UsedKept'
  BY <1>1, <1>2, <1>3, Bounds DEF ClusterInv, FatInv, Tables, UsedKept, Kept
<1>6. call' \in CallType /\ call'.pc = "clear" /\ call'.ncl \in Clusters
  BY <1>1 DEF LinkCluster, Continue, Go, CallType, Pcs
<1> QED
  BY <1>4, <1>5, <1>6 DEF ClusterInv, FatInv, CallInv, Searching, Allocating, Stretching, At

LEMMA ClearKeeps ==
  ASSUME ClusterInv, DirClear \/ DirZero
  PROVE  ClusterInv'
<1>1. call \in CallType /\ call.ncl \in Clusters
  BY DEF ClusterInv, CallInv, Stretching, DirClear, DirZero, ZeroWith, At
<1>2. CASE DirClear
  <2>1. FatInv'
    BY <1>2, SyncedKeeps DEF ClusterInv, DirClear
  <2>2. call' \in CallType /\ call'.pc = "zero" /\ call'.ncl \in Clusters
    BY <1>1, <1>2 DEF DirClear, Continue, Go, CallType, Pcs
  <2> QED
    BY <2>1, <2>2 DEF ClusterInv, CallInv, Searching, Allocating, Stretching, At
<1>3. CASE DirZero
  <2>1. fat' = dfat' /\ dfat' = dfat /\ vfat' = vfat
    BY <1>3 DEF DirZero, ZeroWith
  <2>2. FatInv'
    BY <2>1, Reread DEF ClusterInv, FatInv, Tables
  <2>3. call' \in CallType /\ call'.pc \in Plain
    BY <1>1, <1>3 DEF DirZero, Continue, Go, CallType, Pcs, Plain, Idle
  <2> QED
    BY <2>2, <2>3, PlainCall DEF ClusterInv
<1> QED
  BY <1>2, <1>3

LEMMA ExpandStartKeeps ==
  ASSUME ClusterInv, ExpandStart
  PROVE  ClusterInv'
<1>1. FatInv' /\ call \in CallType
  BY LookingKeeps DEF ClusterInv, CallInv
<1>2. CASE call' = [Go("close") EXCEPT !.res = "nospace"]
  <2>1. call' \in CallType /\ call'.pc \in Plain
    BY <1>1, <1>2 DEF Go, CallType, Pcs, Plain, Idle
  <2> QED
    BY <1>1, <2>1, PlainCall DEF ClusterInv
<1>3. ASSUME NEW c \in Clusters, call.len # 0,
             call' = [Go("search") EXCEPT !.start = c, !.clst = c, !.scl = c, !.ncl = 0]
      PROVE  ClusterInv'
  <2>1. /\ call' \in CallType /\ call'.pc = "search" /\ call'.clst = c /\ call'.scl = c
        /\ call'.ncl = 0 /\ call'.len # 0
    BY <1>1, <1>3, Bounds DEF Go, CallType, Pcs
  <2>2. c = c + 0 /\ c >= 2 /\ \A x \in Clusters : ~(c <= x /\ x < c + 0)
    BY Bounds DEF Clusters
  <2> QED
    BY <1>1, <2>1, <2>2 DEF ClusterInv, CallInv, Searching, Allocating, Stretching, FreeFrom, At
<1> QED
  BY <1>2, <1>3, Bounds DEF ExpandStart, Continue

(* The run grows by the cluster after it, or by one past the end.          *)
LEMMA SearchKeeps ==
  ASSUME ClusterInv, Search
  PROVE  ClusterInv'
<1> DEFINE isFree == fat[call.clst] = 0
           next == Next1(call.clst)
           scl == IF isFree THEN call.scl ELSE next
           ncl == IF isFree THEN call.ncl + 1 ELSE 0
<1>1. /\ call \in CallType /\ call.clst \in Clusters /\ call.scl >= 2 /\ call.len # 0
      /\ call.clst = call.scl + call.ncl \/ call.scl + call.ncl >= N
      /\ FreeFrom(call.scl, call.scl + call.ncl)
  BY DEF ClusterInv, CallInv, Searching, Search, At
<1>2. /\ next \in Clusters /\ next \in Nat
      /\ next = call.clst + 1 \/ (next = 2 /\ call.clst + 1 >= N)
  BY <1>1, NextInRange, Bounds
<1>3. call.scl \in Nat /\ call.ncl \in Nat /\ call.clst \in Nat /\ call.len \in Nat
  BY <1>1 DEF CallType
<1>4. scl \in Nat /\ ncl \in Nat /\ scl >= 2
  BY <1>1, <1>2, <1>3, Bounds DEF Clusters
<1>5. next = scl + ncl \/ scl + ncl >= N
  BY <1>1, <1>2, <1>3, Bounds DEF Clusters
<1>6. FreeFrom(scl, scl + ncl)
  BY <1>1, <1>2, <1>3, Bounds DEF FreeFrom, Clusters
<1>7. FatInv' /\ fat' = fat
  BY FatUntouched DEF ClusterInv, Search, InMemory, disk, versions, window
<1>8. CASE ncl = call.len /\ call' = [Go("alloc") EXCEPT !.clst = scl, !.left = call.len]
  <2>1. /\ call' \in CallType /\ call'.pc = "alloc" /\ call'.clst = scl /\ call'.left = call.len
    BY <1>1, <1>3, <1>4, <1>8 DEF Go, CallType, Pcs
  <2> HIDE DEF scl, ncl
  <2> QED
    BY <1>1, <1>4, <1>6, <1>7, <1>8, <2>1
       DEF ClusterInv, CallInv, Searching, Allocating, Stretching, FreeFrom, At
<1>9. CASE call' = [Go("close") EXCEPT !.res = "nospace"]
  <2>1. call' \in CallType /\ call'.pc \in Plain
    BY <1>1, <1>9 DEF Go, CallType, Pcs, Plain, Idle
  <2> QED
    BY <1>7, <2>1, PlainCall DEF ClusterInv
<1>10. CASE call' = [call EXCEPT !.clst = next, !.scl = scl, !.ncl = ncl]
  <2>1. /\ call' \in CallType /\ call'.pc = "search" /\ call'.clst = next /\ call'.scl = scl
        /\ call'.ncl = ncl /\ call'.len # 0
    BY <1>1, <1>2, <1>4, <1>10 DEF CallType, Search, At
  <2> HIDE DEF scl, ncl, next
  <2> QED
    BY <1>2, <1>4, <1>5, <1>6, <1>7, <2>1
       DEF ClusterInv, CallInv, Searching, Allocating, Stretching, FreeFrom, At
<1> QED
  BY <1>8, <1>9, <1>10 DEF Search, Continue

LEMMA AllocKeeps ==
  ASSUME ClusterInv, Alloc
  PROVE  ClusterInv'
<1>1. /\ call \in CallType /\ call.clst \in Clusters /\ call.left # 0
      /\ FreeFrom(call.clst, call.clst + call.left) /\ win = FatSec(call.clst)
  BY Bounds DEF ClusterInv, CallInv, CallType, Allocating, Alloc, InWindow, Target, At, Clusters
<1>2. call.clst \in Nat /\ call.left \in Nat
  BY <1>1 DEF CallType
<1>3. fat[call.clst] = 0
  BY <1>1, <1>2 DEF FreeFrom
<1>4. PICK v : PutFat(call.clst, v)
  BY DEF Alloc
<1>5. FatInv'
  BY <1>1, <1>3, <1>4, PutKeeps DEF ClusterInv, Alloc, disk, versions
<1>6. CASE call.left = 1
  <2>1. call' = [call EXCEPT !.pc = "close"]
    BY <1>6 DEF Alloc, Continue, Go
  <2>2. call' \in CallType /\ call'.pc \in Plain
    BY <1>1, <2>1 DEF CallType, Pcs, Plain, Idle
  <2> QED
    BY <1>5, <2>2, PlainCall DEF ClusterInv
<1>7. CASE call.left # 1
  <2>1. call' = [call EXCEPT !.clst = @ + 1, !.left = @ - 1] /\ call.pc = "alloc"
    BY <1>7 DEF Alloc, Continue, At
  <2>2. call.left - 1 \in Nat /\ call.left - 1 # 0 /\ call.clst + 1 \in Nat
    BY <1>1, <1>2, <1>7
  <2>3. /\ call' \in CallType /\ call'.pc = "alloc" /\ call'.clst = call.clst + 1
        /\ call'.left = call.left - 1
    BY <1>1, <2>1, <2>2 DEF CallType
  <2>4. \A c \in Clusters : c # call.clst => fat'[c] = fat[c]
    BY <1>4 DEF PutFat, ClusterInv, FatInv, Tables
  <2>5. ASSUME NEW c \in Clusters, call.clst + 1 <= c, c < call.clst + 1 + (call.left - 1)
        PROVE  fat'[c] = 0
    <3>1. c \in Nat
      BY Bounds
    <3> QED
      BY <1>1, <1>2, <2>4, <2>5, <3>1 DEF FreeFrom
  <2>6. Allocating'
    BY <1>1, <1>2, <2>2, <2>3, <2>5, Bounds DEF Allocating, FreeFrom, At, Clusters
  <2> QED
    BY <1>5, <2>3, <2>6 DEF ClusterInv, CallInv, Searching, Stretching, At
<1> QED
  BY <1>6, <1>7

LEMMA FlushKeeps ==
  ASSUME ClusterInv, Flush
  PROVE  ClusterInv'
<1>1. FatInv'
  BY SyncedKeeps DEF ClusterInv, Flush
<1>2. PICK pc \in {"info", "syncfs"} : call' = [call EXCEPT !.pc = pc]
  BY DEF Flush, Continue, Go
<1>3. call' \in CallType /\ call'.pc \in Plain
  BY <1>2 DEF ClusterInv, CallInv, CallType, Pcs, Plain, Idle
<1> QED
  BY <1>1, <1>3, PlainCall DEF ClusterInv

LEMMA InfoKeeps ==
  ASSUME ClusterInv, NEW i, InfoWith(i)
  PROVE  ClusterInv'
<1>1. fat' = dfat' /\ dfat' = dfat /\ vfat' = vfat
  BY DEF InfoWith, Fresh
<1>2. FatInv'
  BY <1>1, Reread DEF ClusterInv, FatInv, Tables
<1>3. call' = [call EXCEPT !.pc = "syncfs"]
  BY DEF InfoWith, Continue, Go
<1>4. call' \in CallType /\ call'.pc \in Plain
  BY <1>3 DEF ClusterInv, CallInv, CallType, Pcs, Plain, Idle
<1> QED
  BY <1>2, <1>4, PlainCall DEF ClusterInv

LEMMA AfterSyncCall ==
  ASSUME ClusterInv, NEW good, AfterSync(good)
  PROVE  CallInv'
<1>1. CASE call' = [call EXCEPT !.pc = "find", !.goal = "unlink", !.dcl = Root]
  <2>1. call' \in CallType /\ call'.pc \in Plain
    BY <1>1, Bounds DEF ClusterInv, CallInv, CallType, Pcs, Plain, Idle
  <2> QED
    BY <2>1, PlainCall
<1>2. CASE call' = NoCall
  BY <1>2, NoCallType, PlainCall DEF Plain, Pcs, Idle
<1> QED
  BY <1>1, <1>2 DEF AfterSync, Continue, Return

LEMMA SyncFsKeeps ==
  ASSUME ClusterInv, SyncFs \/ SyncFsFails
  PROVE  ClusterInv'
<1>1. CallInv'
  BY AfterSyncCall DEF SyncFs, SyncFsFails
<1>2. CASE SyncFsFails
  BY <1>1, <1>2, LookingKeeps DEF ClusterInv
<1>3. CASE SyncFs
  <2>1. /\ vfat' = [s \in FatSecs |-> {[c \in Clusters |-> IF FatSec(c) = s THEN dfat[c] ELSE 0]}]
        /\ UNCHANGED <<dfat, fat, win, dirty>>
    BY <1>3 DEF SyncFs, Settle, disk, window
  <2>2. FatSec(Root) \in FatSecs
    BY Bounds DEF FatSecs
  <2>3. \A f \in vfat'[FatSec(Root)] : f[Root] \in RootEntries
    BY <2>1, <2>2, Bounds DEF ClusterInv, FatInv, Tables
  <2> QED
    BY <1>1, <2>1, <2>3 DEF ClusterInv, FatInv, Tables, Window, UsedKept, Kept
<1> QED
  BY <1>2, <1>3

LEMMA CountKeeps ==
  ASSUME ClusterInv, CountSector
  PROVE  ClusterInv'
<1> DEFINE counted == {c \in FreeClusters(fat) : FatSec(c) = win}
<1>1. FatInv' /\ call \in CallType
  BY LookingKeeps DEF ClusterInv, CallInv
<1>2. Cardinality(counted) \in Nat
  <2>1. IsFiniteSet(Clusters)
    BY Bounds, FS_Interval DEF Clusters
  <2>2. counted \subseteq Clusters
    BY DEF FreeClusters
  <2> QED
    BY <2>1, <2>2, FS_Subset, FS_CardinalityType
<1>3. ASSUME NEW k, ReturnFree(k)
      PROVE  ClusterInv'
  <2>1. call' \in CallType /\ call'.pc \in Plain
    BY <1>3, NoCallType DEF ReturnFree, Plain, Pcs, Idle
  <2> QED
    BY <1>1, <2>1, PlainCall DEF ClusterInv
<1>4. ASSUME NEW next \in Nat,
             call' = [call EXCEPT !.clst = next, !.ncl = call.ncl + Cardinality(counted)]
      PROVE  ClusterInv'
  <2>1. call.ncl + Cardinality(counted) \in Nat
    BY <1>1, <1>2 DEF CallType
  <2> HIDE DEF counted
  <2>2. call' \in CallType /\ call'.pc = "count"
    BY <1>1, <1>4, <2>1 DEF CallType, CountSector, At
  <2>3. call'.pc \in Plain
    BY <2>2 DEF Plain, Pcs
  <2> QED
    BY <1>1, <2>2, <2>3, PlainCall DEF ClusterInv
<1>5. (call.clst \div PerSector + 1) * PerSector \in Nat
  BY <1>1, VolumeAssumption DEF VolumeAssumption, CallType
<1> QED
  BY <1>3, <1>4, <1>5 DEF CountSector, Continue

LEMMA AllocPastEndKeeps ==
  ASSUME ClusterInv, AllocPastEnd
  PROVE  ClusterInv'
BY LookingKeeps, Failed, PlainCall DEF ClusterInv, CallInv, AllocPastEnd

LEMMA RestartKeeps ==
  ASSUME ClusterInv, Kill \/ PowerLoss
  PROVE  ClusterInv'
<1>1. CallInv'
  BY NoCallType, PlainCall DEF Kill, PowerLoss, Restart, Plain, Pcs, Idle
<1>2. fat' = dfat'
  BY DEF Kill, PowerLoss, Restart, Fresh
<1>3. CASE Kill
  BY <1>1, <1>2, <1>3, Reread DEF ClusterInv, FatInv, Tables, Kill, disk, versions
<1>4. CASE PowerLoss
  <2>1. FatSec(Root) \in FatSecs
    BY Bounds DEF FatSecs
  <2>2. PICK cf \in [FatSecs -> UNION {vfat[s] : s \in FatSecs}] :
          /\ \A s \in FatSecs : cf[s] \in vfat[s]
          /\ dfat' = [c \in Clusters |-> cf[FatSec(c)][c]]
    BY <1>4 DEF PowerLoss
  <2>3. dfat'[Root] \in RootEntries
    BY <2>1, <2>2, Bounds DEF ClusterInv, FatInv, Tables
  <2>4. vfat' = [s \in FatSecs |-> {[c \in Clusters |-> IF FatSec(c) = s THEN dfat'[c] ELSE 0]}]
    BY <1>4 DEF PowerLoss
  <2>5. \A f \in vfat'[FatSec(Root)] : f[Root] \in RootEntries
    BY <2>1, <2>3, <2>4, Bounds
  <2> QED
    BY <1>1, <1>2, <2>2, <2>3, <2>5, Reread DEF ClusterInv
<1> QED
  BY <1>3, <1>4

LEMMA ClusterInit == Init => ClusterInv
<1> SUFFICES ASSUME Init PROVE ClusterInv
  OBVIOUS
<1>1. PICK v \in Volumes : dfat = v.fat
  BY DEF Init
<1>2. dfat \in [Clusters -> 0 .. N + 1] /\ dfat[Root] = EOC
  BY <1>1, VolumeAssumption DEF VolumeAssumption, Sound
<1>3. FatSec(Root) \in FatSecs
  BY Bounds DEF FatSecs
<1>4. \A f \in vfat[FatSec(Root)] : f[Root] = EOC
  BY <1>2, <1>3, Bounds DEF Init
<1>5. FatInv
  BY <1>2, <1>4 DEF Init, FatInv, Tables, Window, UsedKept, Kept, RootEntries
<1>6. CallInv
  BY NoCallType DEF Init, CallInv, Searching, Allocating, Stretching, At, Idle
<1> QED
  BY <1>5, <1>6 DEF ClusterInv

LEMMA ClusterStep == ClusterInv /\ [Next]_vars => ClusterInv'
<1> SUFFICES ASSUME ClusterInv, [Next]_vars PROVE ClusterInv'
  OBVIOUS
<1>1. CASE UNCHANGED vars
  BY <1>1, FatUntouched, FreeKept DEF ClusterInv, vars, disk, versions, window
<1>2. CASE Calls
  BY <1>2, CallsKeep
<1>3. CASE Works
  BY <1>3, MoveWindowKeeps, MountKeeps, FollowPathKeeps, FindKeeps, EntriesKeep, DirFullKeeps,
     DirStretchKeeps, ChainKeeps, TakeClusterKeeps, LinkClusterKeeps, ClearKeeps, ExpandStartKeeps,
     SearchKeeps, AllocKeeps, AllocPastEndKeeps, FlushKeeps, InfoKeeps, SyncFsKeeps, CountKeeps
     DEF Works, MountVolume, WriteInfo
<1>4. CASE Fails
  BY <1>4, FailKeeps, MountKeeps, InfoKeeps, SyncFsKeeps DEF Fails, MountNoInfo, WriteInfoFails
<1>5. CASE Kill \/ PowerLoss
  BY <1>5, RestartKeeps
<1> QED
  BY <1>1, <1>2, <1>3, <1>4, <1>5 DEF Next

LEMMA ClustersAlways == Spec => []ClusterInv
<1> QED
  BY ClusterInit, ClusterStep, PTL DEF Spec

(* Power losses are counted, and nothing else counts as one.               *)
Counted == losses \in Nat

LEMMA LossesGrow ==
  ASSUME [Next]_vars
  PROVE  losses' = losses \/ losses' = losses + 1
<1>1. CASE UNCHANGED vars
  BY <1>1 DEF vars, mishaps
<1>2. CASE Calls
  BY <1>2 DEF Calls, FatMount, FatUmount, FatGetFreeSpace, FatFileExists, FatFileCreate, Begin,
     calm, mishaps
<1>3. CASE Works
  <2>1. CASE MoveWindow \/ MountVolume \/ FollowPath \/ DirFind \/ DirFindNot \/ DirNext \/ DirRegister \/ DirFull
    BY <2>1 DEF MoveWindow, MountVolume, FollowPath, DirFind, DirFindNot, DirNext, DirRegister, DirFull,
       InMemory, calm, mishaps
  <2>2. CASE DirStretch \/ TakeCluster \/ ProbeHint \/ ChainNext \/ LinkCluster \/ DirClear \/ DirZero
    BY <2>2 DEF DirStretch, TakeCluster, ProbeHint, ChainNext, LinkCluster, DirClear, DirZero, InMemory,
       calm, mishaps
  <2>3. CASE ExpandStart \/ Search \/ Alloc \/ AllocPastEnd \/ CloseEntry \/ DirRemove
    BY <2>3 DEF ExpandStart, Search, Alloc, AllocPastEnd, CloseEntry, DirRemove, InMemory, calm, mishaps
  <2>4. CASE Flush \/ WriteInfo \/ SyncFs \/ CountSector
    BY <2>4 DEF Flush, WriteInfo, SyncFs, CountSector, calm, mishaps
  <2> QED
    BY <1>3, <2>1, <2>2, <2>3, <2>4 DEF Works
<1>4. CASE Fails
  BY <1>4 DEF Fails, WriteFails, ReadFails, MountNoInfo, MountFails, DirZeroFails, FlushFails,
     WriteInfoFails, SyncFsFails, Fault
<1>5. CASE Kill \/ PowerLoss
  BY <1>5 DEF Kill, PowerLoss
<1> QED
  BY <1>1, <1>2, <1>3, <1>4, <1>5 DEF Next

LEMMA LossesStep == Counted /\ [Next]_vars => Counted'
BY LossesGrow DEF Counted

LEMMA LossesCounted == Spec => []Counted
<1>1. Init => Counted
  BY DEF Init, Counted
<1> QED
  BY <1>1, LossesStep, PTL DEF Spec

(* The disk is written from the window, or the power goes.                 *)
LEMMA DiskWritten ==
  ASSUME ClusterInv, Counted, [Next]_vars, losses' = losses
  PROVE  dfat' = dfat \/ dfat' = fat
<1>1. CASE SyncWindow
  BY <1>1, Synced DEF ClusterInv
<1>2. CASE UNCHANGED vars
  BY <1>2 DEF vars, disk
<1>3. CASE Calls
  BY <1>3 DEF Calls, FatMount, FatUmount, FatGetFreeSpace, FatFileExists, FatFileCreate, Begin, disk
<1>4. CASE Works
  <2>1. CASE MoveWindow \/ DirClear \/ Flush
    BY <1>1, <2>1 DEF MoveWindow, DirClear, Flush
  <2>2. CASE MountVolume \/ FollowPath \/ DirFind \/ DirFindNot \/ DirNext \/ DirRegister \/ DirFull
              \/ DirStretch \/ TakeCluster \/ ProbeHint \/ ChainNext \/ LinkCluster
    BY <2>2 DEF MountVolume, MountWith, FollowPath, DirFind, DirFindNot, DirNext, DirRegister, DirFull,
         DirStretch, TakeCluster, ProbeHint, ChainNext, LinkCluster, InMemory, disk
  <2>3. CASE DirZero \/ ExpandStart \/ Search \/ Alloc \/ AllocPastEnd \/ CloseEntry \/ DirRemove
              \/ WriteInfo \/ SyncFs \/ CountSector
    BY <2>3 DEF DirZero, ZeroWith, ExpandStart, Search, Alloc, AllocPastEnd, CloseEntry, DirRemove,
         WriteInfo, InfoWith, SyncFs, CountSector, InMemory, disk
  <2> QED
    BY <1>4, <2>1, <2>2, <2>3 DEF Works
<1>5. CASE Fails
  <2>1. CASE ReadFails
    BY <1>1, <2>1 DEF ReadFails
  <2>2. CASE WriteFails \/ FlushFails \/ SyncFsFails
    BY <2>2 DEF WriteFails, FlushFails, SyncFsFails, disk
  <2>3. CASE MountNoInfo \/ MountFails
    BY <2>3 DEF MountNoInfo, MountFails, MountWith, disk
  <2>4. CASE DirZeroFails \/ WriteInfoFails
    BY <2>4 DEF DirZeroFails, ZeroWith, WriteInfoFails, InfoWith, disk
  <2> QED
    BY <1>5, <2>1, <2>2, <2>3, <2>4 DEF Fails
<1>6. CASE Kill
  BY <1>6 DEF Kill, disk
<1>7. CASE PowerLoss
  BY <1>7 DEF PowerLoss, Counted
<1> QED
  BY <1>2, <1>3, <1>4, <1>5, <1>6, <1>7 DEF Next

(* UsedClustersStay: no call, and none that fails or is killed half-way,   *)
(* writes over an entry of the FAT that is in use on the disk, save for    *)
(* the end of the directory; the free count and the hint, however wrong,   *)
(* and the search that goes round the end never lead it there.             *)
THEOREM ClustersStay == Spec => UsedClustersStay
<1> DEFINE Stays == losses' = losses => \A c \in Clusters : dfat[c] # 0 => \/ dfat'[c] = dfat[c] \/ (c = Root /\ dfat[c] = EOC)
<1>1. ASSUME ClusterInv, Counted, [Next]_vars
      PROVE  [Stays]_vars
  BY <1>1, DiskWritten DEF ClusterInv, FatInv, UsedKept, Kept
<1>2. Spec => [][Stays]_vars
  BY <1>1, ClustersAlways, LossesCounted, PTL DEF Spec
<1> QED
  BY <1>2 DEF UsedClustersStay
=============================================================================
