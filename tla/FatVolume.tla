----------------------------- MODULE FatVolume -----------------------------
(***************************************************************************)
(* The FAT library of obsoleted/initlib/fat.cpp as its interface fat.h     *)
(* uses it: fat_mount, fat_umount, fat_file_exists, fat_get_free_space and *)
(* fat_file_create, which makes a file of a given size out of one          *)
(* contiguous area.  The library sees the volume through a window of one   *)
(* sector: an access to another sector writes the window back when it is   *)
(* dirty and reads the other one.  One step here is what the code does     *)
(* between two accesses to the disk, so the program can be killed, a read  *)
(* or a write can fail, and the power can go between any two of them.      *)
(*                                                                         *)
(* The volume is FAT32 with one sector per cluster; its root directory     *)
(* starts in cluster Root and can be stretched once (DirectoryLimit).      *)
(* fat and dir are the volume as the library sees it: what the disk holds, *)
(* the sector in the window replaced by the window.  The second copy of    *)
(* the FAT is written and never read by the code; it is not modelled.      *)
(***************************************************************************)
EXTENDS Naturals, FiniteSets

CONSTANTS
  N,                \* n_fatent: the clusters are 2 .. N-1
  PerSector,        \* entries of the FAT in a sector
  Slots,            \* entries of the directory in a sector
  Root,             \* first cluster of the root directory
  Names,            \* names in the 8.3 form of create_name
  BadName,          \* a name without 8.3 form
  Requests,         \* names and sizes in clusters that callers ask to create
  Volumes,          \* volumes to start from: [fat, dir, info, old]
  MaxMishaps        \* bound on failing accesses, kills and power losses together

Clusters == 2 .. N - 1
EOC == N + 1        \* end of a chain: any value from N on is one
Unknown == N        \* a free count or hint that is out of range, as 0xFFFFFFFF
Idle == "idle"

FatSec(c) == <<"fat", c \div PerSector>>
DirSec(c) == <<"dir", c>>
InfoSec == <<"info", 0>>
NoSec == <<"none", 0>>
FatSecs == {FatSec(c) : c \in Clusters}
Sectors == FatSecs \cup {DirSec(c) : c \in Clusters} \cup {InfoSec, NoSec}

(* old is not on the disk: it marks what an earlier use of a cluster left   *)
(* there, which the code reads as entries when it has not been cleared.    *)
Blank(kind) == [kind |-> kind, name |-> BadName, clust |-> 0, len |-> 0, old |-> FALSE]
NewFile(n) == [kind |-> "file", name |-> n, clust |-> 0, len |-> 0, old |-> FALSE]
Entries == [kind : {"end", "deleted", "file", "dir"},
            name : Names \cup {BadName}, clust : 0 .. N - 1, len : Nat, old : BOOLEAN]
Cleared == [s \in 1 .. Slots |-> Blank("end")]

----------------------------------------------------------------------------
(* Files of a volume.                                                      *)

Linked(f) == {Root} \cup ({f[Root]} \cap Clusters)
IsFile(e) == e.kind \in {"file", "dir"}
Own(e) == IsFile(e) /\ ~e.old
Area(e) == {c \in Clusters : e.clust # 0 /\ e.clust <= c /\ c < e.clust + e.len}
Chained(f, e) == \A c \in Area(e) : f[c] = IF c + 1 = e.clust + e.len THEN EOC ELSE c + 1
Listed(f, d) == {p \in Linked(f) \X (1 .. Slots) : IsFile(d[p[1]][p[2]])}
(* A search for the name n comes to slot s of the sector g: no end mark    *)
(* and no entry of that name is before it.  The files are the entries that *)
(* a search for their name comes to.                                       *)
Passes(g, n, s) == \A t \in 1 .. s - 1 : g[t].kind # "end" /\ ~(IsFile(g[t]) /\ g[t].name = n)
Comes(d, n, c, s) == Passes(d[c], n, s) /\ (c # Root => Passes(d[Root], n, Slots + 1))
FilesOf(f, d) == {d[p[1]][p[2]] : p \in {q \in Listed(f, d) : Comes(d, d[q[1]][q[2]].name, q[1], q[2])}}
FreeClusters(f) == {c \in Clusters : f[c] = 0}

(* Mutants of Minus: the wrap-around, the whole subtraction forgotten.      *)
MinusPlain(x, y) == x - y
MinusNothing(x, y) == x

(* 32-bit subtraction: below zero it is a count out of range.              *)
Minus(x, y) == IF y > x THEN Unknown ELSE x - y

(* A volume in order: the directory is one cluster, the files have areas   *)
(* of their own, and no entry in use lies behind an end mark.  Clusters in *)
(* use that no file has belong to what is in subdirectories.  The clusters *)
(* outside of the directory hold anything, what reads as files included.   *)
Sound(v) ==
  /\ v.fat \in [Clusters -> 0 .. N + 1] /\ v.fat[Root] = EOC
  /\ v.dir \in [1 .. Slots -> Entries]
  /\ v.info \in [there : BOOLEAN, free : 0 .. N, next : 0 .. N]
  /\ v.old \in [Clusters -> [1 .. Slots -> Entries]]
  /\ \A c \in Clusters, s \in 1 .. Slots : ~Own(v.old[c][s])
  /\ \A s \in 1 .. Slots : IsFile(v.dir[s]) =>
       /\ v.dir[s].name \in Names /\ ~v.dir[s].old
       /\ \A t \in 1 .. s - 1 : v.dir[t].kind # "end"
       /\ Root \notin Area(v.dir[s])
       /\ Chained(v.fat, v.dir[s])
       /\ \A t \in 1 .. Slots \ {s} : IsFile(v.dir[t]) =>
            /\ v.dir[t].name # v.dir[s].name
            /\ Area(v.dir[t]) \cap Area(v.dir[s]) = {}

ASSUME VolumeAssumption ==
  /\ N \in Nat /\ N > 3
  /\ PerSector \in Nat \ {0}
  /\ Slots \in Nat \ {0}
  /\ Root \in Clusters
  /\ BadName \notin Names
  /\ Requests \subseteq (Names \cup {BadName}) \X Nat
  /\ \A v \in Volumes : Sound(v)
  /\ MaxMishaps \in Nat

VARIABLES
  dfat, ddir, dinfo,   \* the disk as the kernel shows it
  vfat, vdir, vinfo,   \* the contents of each sector that a power loss can leave
  fat, dir,            \* the volume as the library sees it
  win, dirty,          \* winsect, wflag
  free, last, fsi,     \* free_clst, last_clst, fsi_flag
  vol,                 \* FatFs[0] and fs_type
  call,                \* the running call and its locals
  answer,              \* what the last call returned
  promised,            \* files whose creation was answered OK without a fault
  faulty,              \* the running call has seen a disk error
  torn,                \* an allocation may have been left unfinished
  faults, kills, losses

disk == <<dfat, ddir, dinfo>>
versions == <<vfat, vdir, vinfo>>
window == <<fat, dir, win, dirty>>
info == <<free, last, fsi>>

mishaps == <<faults, kills, losses>>
vars == <<disk, versions, window, info, vol, call, answer, promised, faulty, torn, mishaps>>
calm == <<faulty, torn, mishaps>>      \* nothing goes wrong in the step

----------------------------------------------------------------------------
(* Where the running call stands.                                          *)

NoCall == [pc |-> Idle, goal |-> "none", name |-> BadName, len |-> 0, res |-> "ok",
           dcl |-> Root, slot |-> 1, start |-> 2, clst |-> 2, scl |-> 2, ncl |-> 0, left |-> 0]
At(pc) == call.pc = pc
Go(pc) == [call EXCEPT !.pc = pc]

(* The sector the next step works on: the argument of its move_window.     *)
Target ==
  CASE call.pc \in {"find", "register", "close", "remove"} -> DirSec(call.dcl)
    [] call.pc \in {"findnext", "regnext", "link"} -> FatSec(call.dcl)
    [] call.pc \in {"probe", "chain"} -> FatSec(call.ncl)
    [] call.pc \in {"search", "alloc", "count"} -> FatSec(call.clst)
    [] OTHER -> win
InWindow == win = Target

Return(what) == call' = NoCall /\ answer' = [what |-> what, free |-> 0] /\ UNCHANGED promised
ReturnFree(k) == call' = NoCall /\ answer' = [what |-> "free", free |-> k] /\ UNCHANGED promised
Continue(c) == call' = c /\ UNCHANGED <<answer, promised>>

(* What an error does: f_open, f_stat and f_getfree throw, f_expand goes   *)
(* on to close and unlink the new file, f_close and f_unlink are ignored.  *)
Fail ==
  CASE call.goal = "unlink" -> Return("nospace")
    [] call.goal = "create" /\ call.pc \in {"search", "alloc"} ->
         Continue([call EXCEPT !.pc = "close", !.res = "nospace"])
    [] call.goal = "create" /\ call.pc \in {"close", "flush"} ->
         IF call.res = "ok" THEN Return("ok")
         ELSE Continue([call EXCEPT !.pc = "find", !.goal = "unlink", !.dcl = Root])
    [] OTHER -> Return("throws")

----------------------------------------------------------------------------
(* The disk.                                                               *)

(* disk_write of the window: the kernel has it, the medium may have it.    *)
WriteBack ==
  /\ dfat' = [c \in Clusters |-> IF FatSec(c) = win THEN fat[c] ELSE dfat[c]]
  /\ ddir' = [c \in Clusters |-> IF DirSec(c) = win THEN dir[c] ELSE ddir[c]]
  /\ vfat' = [s \in FatSecs |-> IF s = win THEN vfat[s] \cup {[c \in Clusters |-> IF FatSec(c) = s THEN fat[c] ELSE 0]}
                                ELSE vfat[s]]
  /\ vdir' = [c \in Clusters |-> IF DirSec(c) = win THEN vdir[c] \cup {dir[c]} ELSE vdir[c]]
  /\ UNCHANGED <<dinfo, vinfo>>
SyncWindow == IF dirty THEN WriteBack ELSE UNCHANGED <<disk, versions>>

(* A sector is read: the window is what the disk holds.                    *)
Fresh(s) == win' = s /\ dirty' = FALSE /\ fat' = dfat' /\ dir' = ddir'

Accessing == \/ call.pc \in {"find", "findnext", "register", "regnext", "probe", "chain", "link",
                             "search", "close", "remove", "count"}
             \/ At("alloc") /\ call.clst < N

MoveWindow ==
  /\ Accessing /\ ~InWindow
  /\ SyncWindow
  /\ Fresh(Target)
  /\ UNCHANGED <<info, vol, call, answer, promised, calm>>

Mishap == faults + kills + losses < MaxMishaps
Fault == Mishap /\ faults' = faults + 1 /\ faulty' = TRUE /\ torn' = TRUE
         /\ UNCHANGED <<kills, losses>>

Mark == IF fsi = "off" THEN "off" ELSE "set"

(* f_getfree takes the part it has counted for the free count when it      *)
(* cannot go on.                                                           *)
KeepPart ==
  IF At("count") THEN free' = call.ncl /\ fsi' = Mark /\ UNCHANGED last ELSE UNCHANGED info

(* The window cannot be written back: it stays, dirty.                     *)
WriteFails ==
  /\ Accessing /\ ~InWindow /\ dirty
  /\ Fault /\ Fail
  /\ KeepPart
  /\ UNCHANGED <<disk, versions, window, vol>>

(* The other sector cannot be read: the window is marked as empty.         *)
ReadFails ==
  /\ Accessing /\ ~InWindow
  /\ Fault /\ Fail
  /\ KeepPart
  /\ SyncWindow
  /\ Fresh(NoSec)
  /\ UNCHANGED vol

----------------------------------------------------------------------------
(* Calls.                                                                  *)

FatMount ==
  /\ At(Idle) /\ vol # "registered"
  /\ vol' = "registered"
  /\ UNCHANGED <<disk, versions, window, info, call, answer, promised, calm>>

FatUmount ==
  /\ At(Idle) /\ vol # "none"
  /\ vol' = "none"
  /\ UNCHANGED <<disk, versions, window, info, call, answer, promised, calm>>

Begin(goal, n, l) ==
  /\ At(Idle)
  /\ IF vol = "none" THEN Return("throws")
     ELSE /\ answer' = [what |-> "none", free |-> 0]
          /\ call' = [NoCall EXCEPT !.pc = IF vol = "mounted" THEN "follow" ELSE "mount",
                                    !.goal = goal, !.name = n, !.len = l]
          /\ UNCHANGED promised
  /\ faulty' = FALSE
  /\ UNCHANGED <<disk, versions, window, info, vol, torn, mishaps>>

FatFileCreate(n, l) == Begin("create", n, l)
FatFileExists(n) == Begin("exists", n, 0)
FatGetFreeSpace == Begin("free", BadName, 0)

(* mount_volume: what was in the window is dropped, dirty or not; the free *)
(* count and the hint come from FSInfo when there is one to read.          *)
MountWith(readable) ==
  /\ At("mount")
  /\ vol' = "mounted"
  /\ IF dinfo.there /\ readable
     THEN free' = dinfo.free /\ last' = dinfo.next /\ fsi' = "clean" /\ win' = InfoSec
     ELSE free' = Unknown /\ last' = Unknown /\ fsi' = "off" /\ win' = NoSec
  /\ dirty' = FALSE /\ fat' = dfat /\ dir' = ddir
  /\ Continue(Go("follow"))
  /\ UNCHANGED <<disk, versions>>
MountVolume == MountWith(TRUE) /\ UNCHANGED calm
MountNoInfo == dinfo.there /\ MountWith(FALSE) /\ Fault
MountFails ==
  /\ At("mount")
  /\ Fault /\ Fail
  /\ win' = NoSec /\ dirty' = FALSE /\ fat' = dfat /\ dir' = ddir
  /\ UNCHANGED <<disk, versions, info, vol>>

(* create_name brings the name into its 8.3 form or refuses it.            *)
Legal(n) == n \in Names

(* What follows mount_volume in f_open, f_stat and f_getfree.              *)
FollowPath ==
  /\ At("follow")
  /\ IF call.goal = "free"
     THEN IF free <= N - 2 THEN ReturnFree(free) ELSE Continue([Go("count") EXCEPT !.clst = 2, !.ncl = 0])
     ELSE IF ~Legal(call.name) THEN Return("throws") ELSE Continue([Go("find") EXCEPT !.dcl = Root])
  /\ UNCHANGED <<disk, versions, window, info, vol, calm>>

----------------------------------------------------------------------------
(* Looking for a name.                                                     *)

Seen(s) == \A t \in 1 .. s - 1 : dir[call.dcl][t].kind # "end"
Matches(s) == Seen(s) /\ IsFile(dir[call.dcl][s]) /\ dir[call.dcl][s].name = call.name
InMemory == UNCHANGED <<disk, versions, window, info, vol, calm>>

NotFound ==
  CASE call.goal = "create" -> Continue([call EXCEPT !.pc = "register", !.dcl = Root])
    [] call.goal = "exists" -> Return("false")
    [] OTHER -> Return("nospace")

DirFind ==
  /\ At("find") /\ InWindow
  /\ \E s \in 1 .. Slots :
       /\ Matches(s)
       /\ \A t \in 1 .. s - 1 : ~Matches(t)
       /\ CASE call.goal = "create" -> Return(IF dir[call.dcl][s].kind = "dir" THEN "throws" ELSE "exists")
            [] call.goal = "exists" -> Return("true")
            [] OTHER -> Continue([Go("remove") EXCEPT !.slot = s])
  /\ InMemory

(* No entry here: past the end mark or the limit there is none, else       *)
(* dir_next reads the FAT for the next cluster of the directory.           *)
DirFindNot ==
  /\ At("find") /\ InWindow
  /\ \A s \in 1 .. Slots : ~Matches(s)
  /\ IF ~Seen(Slots + 1) \/ call.dcl # Root THEN NotFound ELSE Continue(Go("findnext"))
  /\ InMemory

DirNext ==
  /\ At("findnext") /\ InWindow
  /\ IF fat[call.dcl] \in Clusters THEN Continue([Go("find") EXCEPT !.dcl = fat[call.dcl]]) ELSE NotFound
  /\ InMemory

----------------------------------------------------------------------------
(* A new entry; the directory is stretched when it has no free one.        *)

FreeEntry(s) == dir[call.dcl][s].kind \in {"end", "deleted"}
(* Mutant of PutFat: wflag is not set.                                     *)
PutFatClean(c, v) == fat' = [fat EXCEPT ![c] = v] /\ UNCHANGED <<dirty, dir, win>>

PutFat(c, v) == fat' = [fat EXCEPT ![c] = v] /\ dirty' = TRUE /\ UNCHANGED <<dir, win>>

PutEntry(s, e) == dir' = [dir EXCEPT ![call.dcl][s] = e] /\ dirty' = TRUE /\ UNCHANGED <<fat, win>>
Next1(c) == IF c + 1 >= N THEN 2 ELSE c + 1

DirRegister ==
  /\ At("register") /\ InWindow
  /\ \E s \in 1 .. Slots :
       /\ FreeEntry(s)
       /\ \A t \in 1 .. s - 1 : ~FreeEntry(t)
       /\ PutEntry(s, NewFile(call.name))
       /\ Continue([Go("expand") EXCEPT !.slot = s])
  /\ UNCHANGED <<disk, versions, info, vol, calm>>

DirFull ==
  /\ At("register") /\ InWindow
  /\ \A s \in 1 .. Slots : ~FreeEntry(s)
  /\ IF call.dcl # Root THEN Return("throws") ELSE Continue(Go("regnext"))
  /\ InMemory

(* dir_next with stretch, and the guards of create_chain.                  *)
DirStretch ==
  /\ At("regnext") /\ InWindow
  /\ IF fat[call.dcl] \in Clusters THEN Continue([Go("register") EXCEPT !.dcl = fat[call.dcl]])
     ELSE IF free = 0 THEN Return("throws")
     ELSE Continue([Go("probe") EXCEPT !.ncl = Next1(call.dcl)])
  /\ InMemory

(* Mutant of TakeCluster: the next cluster is taken without a look at it.  *)
TakeAnyCluster ==
  /\ call.pc \in {"probe", "chain"} /\ InWindow
  /\ PutFat(call.ncl, EOC)
  /\ Continue(Go("link"))
  /\ UNCHANGED <<disk, versions, info, vol, calm>>

(* create_chain takes the cluster after the last one of the directory, or  *)
(* the first free one after the hint.                                      *)
TakeCluster ==
  /\ call.pc \in {"probe", "chain"} /\ InWindow
  /\ fat[call.ncl] = 0
  /\ PutFat(call.ncl, EOC)
  /\ Continue(Go("link"))
  /\ UNCHANGED <<disk, versions, info, vol, calm>>

ProbeHint ==
  /\ At("probe") /\ InWindow
  /\ fat[call.ncl] # 0
  /\ LET scl == IF last \in Clusters THEN last ELSE call.dcl
     IN Continue([Go("chain") EXCEPT !.scl = scl, !.ncl = Next1(scl)])
  /\ InMemory

(* Mutant of ChainNext: the turn does not end where it began.              *)
ChainForever ==
  /\ At("chain") /\ InWindow
  /\ fat[call.ncl] # 0
  /\ Continue([call EXCEPT !.ncl = Next1(@)])
  /\ InMemory

ChainNext ==
  /\ At("chain") /\ InWindow
  /\ fat[call.ncl] # 0
  /\ IF call.ncl = call.scl THEN Return("throws") ELSE Continue([call EXCEPT !.ncl = Next1(@)])
  /\ InMemory

LinkCluster ==
  /\ At("link") /\ InWindow
  /\ PutFat(call.dcl, call.ncl)
  /\ last' = call.ncl
  /\ free' = IF free <= N - 2 THEN Minus(free, 1) ELSE free
  /\ fsi' = Mark
  /\ Continue(Go("clear"))
  /\ UNCHANGED <<disk, versions, vol, calm>>

(* dir_clear: the FAT that links the cluster goes to the disk first.       *)
DirClear ==
  /\ At("clear")
  /\ SyncWindow
  /\ dirty' = FALSE
  /\ Continue(Go("zero"))
  /\ UNCHANGED <<fat, dir, win, info, vol, calm>>

ZeroWith(c) ==
  /\ At("zero")
  /\ win' = DirSec(call.ncl) /\ dirty' = FALSE
  /\ fat' = dfat
  /\ dir' = [ddir EXCEPT ![call.ncl] = Cleared]
  /\ ddir' = [ddir EXCEPT ![call.ncl] = c]
  /\ vdir' = [vdir EXCEPT ![call.ncl] = @ \cup {c}]
  /\ UNCHANGED <<dfat, dinfo, vfat, vinfo, info, vol>>
DirZero == ZeroWith(Cleared) /\ Continue([Go("register") EXCEPT !.dcl = call.ncl]) /\ UNCHANGED calm
DirZeroFails == ZeroWith(ddir[call.ncl]) /\ Fault /\ Fail

FlushFails ==
  /\ call.pc \in {"clear", "flush"} /\ dirty
  /\ Fault /\ Fail
  /\ UNCHANGED <<disk, versions, window, info, vol>>

----------------------------------------------------------------------------
(* f_expand: one contiguous area for the whole file.                       *)

ExpandStart ==
  /\ At("expand")
  /\ LET stcl == IF last \in Clusters THEN last ELSE 2
     IN IF call.len = 0 THEN Continue([Go("close") EXCEPT !.res = "nospace"])
        ELSE Continue([Go("search") EXCEPT !.start = stcl, !.clst = stcl, !.scl = stcl, !.ncl = 0])
  /\ InMemory

(* One turn of the search.  At the end of the volume it goes on from       *)
(* cluster 2 and keeps the count of free clusters it has.                  *)
Search ==
  /\ At("search") /\ InWindow
  /\ LET isFree == fat[call.clst] = 0
         next == Next1(call.clst)
         scl == IF isFree THEN call.scl ELSE next
         ncl == IF isFree THEN call.ncl + 1 ELSE 0
     IN IF ncl = call.len
        THEN Continue([Go("alloc") EXCEPT !.clst = scl, !.left = call.len])
        ELSE IF next = call.start THEN Continue([Go("close") EXCEPT !.res = "nospace"])
        ELSE Continue([call EXCEPT !.clst = next, !.scl = scl, !.ncl = ncl])
  /\ InMemory

Alloc ==
  /\ At("alloc") /\ call.clst < N /\ InWindow
  /\ PutFat(call.clst, IF call.left = 1 THEN EOC ELSE call.clst + 1)
  /\ IF call.left = 1
     THEN /\ last' = call.clst
          /\ IF free <= N - 2 THEN free' = Minus(free, call.len) /\ fsi' = Mark ELSE UNCHANGED <<free, fsi>>
          /\ Continue(Go("close"))
     ELSE UNCHANGED info /\ Continue([call EXCEPT !.clst = @ + 1, !.left = @ - 1])
  /\ UNCHANGED <<disk, versions, vol, calm>>

(* put_fat refuses a cluster past the end: f_expand fails, the entries it  *)
(* has written stay.                                                       *)
AllocPastEnd ==
  /\ At("alloc") /\ call.clst >= N
  /\ Fail
  /\ torn' = TRUE
  /\ UNCHANGED <<disk, versions, window, info, vol, faulty, mishaps>>

----------------------------------------------------------------------------
(* f_close, f_unlink and sync_fs.                                          *)

CloseEntry ==
  /\ At("close") /\ InWindow
  /\ PutEntry(call.slot, [dir[call.dcl][call.slot] EXCEPT
                            !.clust = IF call.res = "ok" THEN call.scl ELSE 0,
                            !.len = IF call.res = "ok" THEN call.len ELSE 0])
  /\ Continue(Go("flush"))
  /\ UNCHANGED <<disk, versions, info, vol, calm>>

(* The entry of a file that was not expanded has no cluster to remove.     *)
DirRemove ==
  /\ At("remove") /\ InWindow
  /\ PutEntry(call.slot, Blank("deleted"))
  /\ Continue(Go("flush"))
  /\ UNCHANGED <<disk, versions, info, vol, calm>>

Flush ==
  /\ At("flush")
  /\ SyncWindow
  /\ dirty' = FALSE
  /\ Continue(Go(IF fsi = "set" THEN "info" ELSE "syncfs"))
  /\ UNCHANGED <<fat, dir, win, info, vol, calm>>

InfoWith(i) ==
  /\ At("info")
  /\ dinfo' = i
  /\ vinfo' = vinfo \cup {i}
  /\ fsi' = "clean"
  /\ UNCHANGED <<dfat, ddir, vfat, vdir, free, last, vol>>
  /\ Fresh(InfoSec)
  /\ Continue(Go("syncfs"))
WriteInfo == InfoWith([there |-> TRUE, free |-> free, next |-> last]) /\ UNCHANGED calm
WriteInfoFails == InfoWith(dinfo) /\ Fault

(* Mutant of Settle: CTRL_SYNC does nothing.                               *)
SettleNothing == UNCHANGED versions

(* syncfs: the medium has all that was written.                            *)
Settle ==
  /\ vfat' = [s \in FatSecs |-> {[c \in Clusters |-> IF FatSec(c) = s THEN dfat[c] ELSE 0]}]
  /\ vdir' = [c \in Clusters |-> {ddir[c]}]
  /\ vinfo' = {dinfo}

NewEntry == [NewFile(call.name) EXCEPT !.clust = call.scl, !.len = call.len]
(* Mutant of AfterSync: the empty file of a failed create is not unlinked. *)
AfterSyncKept(good) ==
  IF call.goal = "create" /\ call.res = "ok"
  THEN /\ call' = NoCall /\ answer' = [what |-> "ok", free |-> 0]
       /\ promised' = IF good THEN promised \cup {NewEntry} ELSE promised
  ELSE Return("nospace")

AfterSync(good) ==
  CASE call.goal = "create" /\ call.res = "ok" ->
         /\ call' = NoCall /\ answer' = [what |-> "ok", free |-> 0]
         /\ promised' = IF good THEN promised \cup {NewEntry} ELSE promised
    [] call.goal = "create" /\ call.res = "nospace" ->
         Continue([call EXCEPT !.pc = "find", !.goal = "unlink", !.dcl = Root])
    [] OTHER -> Return("nospace")

SyncFs ==
  /\ At("syncfs")
  /\ Settle /\ AfterSync(~faulty)
  /\ UNCHANGED <<disk, window, info, vol, calm>>

(* disk_ioctl does not look at the result of syncfs.                       *)
SyncFsFails ==
  /\ At("syncfs")
  /\ Fault /\ AfterSync(FALSE)
  /\ UNCHANGED <<disk, versions, window, info, vol>>

(* f_getfree counts the free entries of a sector of the FAT.               *)
CountSector ==
  /\ At("count") /\ InWindow
  /\ LET ncl == call.ncl + Cardinality({c \in FreeClusters(fat) : FatSec(c) = win})
         next == (call.clst \div PerSector + 1) * PerSector
     IN IF next >= N
        THEN free' = ncl /\ fsi' = Mark /\ UNCHANGED last /\ ReturnFree(ncl)
        ELSE Continue([call EXCEPT !.clst = next, !.ncl = ncl]) /\ UNCHANGED info
  /\ UNCHANGED <<disk, versions, window, vol, calm>>

----------------------------------------------------------------------------
(* The program ends, or the machine does.                                  *)

Restart ==
  /\ call' = NoCall
  /\ answer' = [what |-> "none", free |-> 0]
  /\ vol' = "none"
  /\ free' = Unknown /\ last' = Unknown /\ fsi' = "off"
  /\ Fresh(NoSec)
  /\ torn' = TRUE
  /\ faulty' = FALSE
  /\ UNCHANGED promised

Kill ==
  /\ Mishap /\ kills' = kills + 1
  /\ UNCHANGED <<disk, versions, faults, losses>>
  /\ Restart

(* Each sector has any of the contents written since the last syncfs; what *)
(* is then in a cluster outside of the directory is left over.             *)
Unsettled == {c \in Clusters : vdir[c] # {ddir[c]}}
Aged(g) == [s \in 1 .. Slots |-> [g[s] EXCEPT !.old = IsFile(g[s])]]
PowerLoss ==
  /\ Mishap /\ losses' = losses + 1
  /\ \E cf \in [FatSecs -> UNION {vfat[s] : s \in FatSecs}] :
       /\ \A s \in FatSecs : cf[s] \in vfat[s]
       /\ dfat' = [c \in Clusters |-> cf[FatSec(c)][c]]
  /\ \E cd \in [Unsettled -> UNION {vdir[c] : c \in Unsettled}] :
       /\ \A c \in Unsettled : cd[c] \in vdir[c]
       /\ LET kept == [c \in Clusters |-> IF c \in Unsettled THEN cd[c] ELSE ddir[c]] IN
          ddir' = [c \in Clusters |-> IF c \in Linked(dfat') THEN kept[c] ELSE Aged(kept[c])]
  /\ dinfo' \in vinfo
  /\ vfat' = [s \in FatSecs |-> {[c \in Clusters |-> IF FatSec(c) = s THEN dfat'[c] ELSE 0]}]
  /\ vdir' = [c \in Clusters |-> {ddir'[c]}]
  /\ vinfo' = {dinfo'}
  /\ Restart
  /\ UNCHANGED <<faults, kills>>

----------------------------------------------------------------------------
Init ==
  /\ \E v \in Volumes :
       /\ dfat = v.fat /\ dinfo = v.info
       /\ ddir = [v.old EXCEPT ![Root] = v.dir]
       /\ promised = {v.dir[s] : s \in {t \in 1 .. Slots : IsFile(v.dir[t])}}
       /\ torn = (v.info.there /\ v.info.free \notin {Cardinality(FreeClusters(v.fat)), Unknown})
  /\ vfat = [s \in FatSecs |-> {[c \in Clusters |-> IF FatSec(c) = s THEN dfat[c] ELSE 0]}]
  /\ vdir = [c \in Clusters |-> {ddir[c]}]
  /\ vinfo = {dinfo}
  /\ fat = dfat /\ dir = ddir /\ win = NoSec /\ dirty = FALSE
  /\ free = Unknown /\ last = Unknown /\ fsi = "off"
  /\ vol = "none"
  /\ call = NoCall
  /\ answer = [what |-> "none", free |-> 0]
  /\ faulty = FALSE
  /\ faults = 0 /\ kills = 0 /\ losses = 0

Works == MoveWindow \/ MountVolume \/ FollowPath \/ DirFind \/ DirFindNot \/ DirNext \/ DirRegister \/ DirFull
         \/ DirStretch \/ TakeCluster \/ ProbeHint \/ ChainNext \/ LinkCluster \/ DirClear \/ DirZero
         \/ ExpandStart \/ Search \/ Alloc \/ AllocPastEnd \/ CloseEntry \/ DirRemove \/ Flush \/ WriteInfo
         \/ SyncFs \/ CountSector
Fails == WriteFails \/ ReadFails \/ MountNoInfo \/ MountFails \/ DirZeroFails \/ FlushFails
         \/ WriteInfoFails \/ SyncFsFails
Calls == FatMount \/ FatUmount \/ FatGetFreeSpace
         \/ \E n \in Names \cup {BadName} : FatFileExists(n)
         \/ \E r \in Requests : FatFileCreate(r[1], r[2])
Next == Calls \/ Works \/ Fails \/ Kill \/ PowerLoss

Spec == Init /\ [][Next]_vars
(* The calls are plain functions: one that has been entered goes on.       *)
FairSpec == Spec /\ WF_vars(Works)

----------------------------------------------------------------------------
TypeOK ==
  /\ dfat \in [Clusters -> 0 .. N + 1] /\ fat \in [Clusters -> 0 .. N + 1]
  /\ ddir \in [Clusters -> [1 .. Slots -> Entries]] /\ dir \in [Clusters -> [1 .. Slots -> Entries]]
  /\ dinfo \in [there : BOOLEAN, free : 0 .. N, next : 0 .. N]
  /\ win \in Sectors /\ dirty \in BOOLEAN
  /\ free \in 0 .. N /\ last \in 0 .. N /\ fsi \in {"off", "clean", "set"}
  /\ vol \in {"none", "registered", "mounted"}
  /\ At("remove") => dir[call.dcl][call.slot].clust = 0

(* Every file the library lists is the one that a search for its name      *)
(* finds, and has the area its entry names, chained in the FAT, shared with *)
(* no other file and not with the directory: whatever was killed or failed *)
(* between the write of the FAT and that of the entry.  A power loss may   *)
(* keep the later write and not the earlier one, and what an uncleared     *)
(* cluster lists is nobody's file: both are left out.                      *)
FilesIntact ==
  losses = 0 =>
    \A p \in Listed(fat, dir) : LET e == dir[p[1]][p[2]] IN ~e.old =>
      /\ Comes(dir, e.name, p[1], p[2])
      /\ Chained(fat, e)
      /\ Area(e) \cap Linked(fat) = {}
      /\ \A q \in Listed(fat, dir) \ {p} : LET g == dir[q[1]][q[2]] IN
           ~g.old => g.name # e.name /\ Area(e) \cap Area(g) = {}

(* A cluster in use stays as it is on the disk, whoever it belongs to: only *)
(* the end of the directory is replaced, by the cluster that stretches it. *)
UsedClustersStay ==
  [][losses' = losses => \A c \in Clusters : dfat[c] # 0 => \/ dfat'[c] = dfat[c] \/ (c = Root /\ dfat[c] = EOC)]_vars

(* Between calls the free count is right, and so is the one reported, as   *)
(* long as every allocation has been finished and FSInfo was right.        *)
FreeCountExact ==
  At(Idle) /\ ~torn =>
    /\ vol = "mounted" /\ free <= N - 2 => free = Cardinality(FreeClusters(fat))
    /\ answer.what = "free" => answer.free = Cardinality(FreeClusters(fat))

(* A file that was there at the start, or whose creation was answered OK   *)
(* without a disk error, stays with its area, where a search for its name  *)
(* finds it: through kills, power losses, mounts and all later calls.      *)
PromisedFilesStay ==
  \A e \in promised : e \in FilesOf(fat, dir) /\ Chained(fat, e)

(* Every call returns.                                                     *)
CallsEnd == ~At(Idle) ~> At(Idle)

----------------------------------------------------------------------------
(* The cluster that stretches the directory counts when it is cleared.     *)
Finished == IF call.pc \in {"clear", "zero"} THEN [fat EXCEPT ![Root] = EOC] ELSE fat
Shown == FilesOf(Finished, dir)
Store == INSTANCE FileStore WITH
  files <- {<<e.name, e.len>> : e \in Shown},
  settled <- {e.name : e \in promised},
  job <- [op |-> call.goal, name |-> call.name, len |-> call.len, faulty |-> faulty],
  answer <- answer.what

(* Seen by a caller, the library is a store of whole files: each step of a *)
(* call, a failure, kill or power loss between two of them included, is a  *)
(* step of FileStore or none.                                              *)
Implements == Store!StoreSpec
=============================================================================
