---------------------------- MODULE TarballCache ----------------------------
(***************************************************************************)
(* What prepare() of the genpack command builds on (src/src/upstream.py,   *)
(* user_dir.py, and extract_portage, extract_stage3, sync_overlay of       *)
(* genpack_profile.py): the portage tree of the work directory, the stage3 *)
(* in the root of each profile, and the overlay copied into it.  Their     *)
(* sources are kept in ~/.genpack, where all processes of a user share     *)
(* them under file locks; each process remembers in module globals what it *)
(* has done already.                                                       *)
(*                                                                         *)
(* A version of a tarball is the time stamp it has on the server: wget     *)
(* gives that stamp to the file it has fetched.  A file being written has  *)
(* the time of the write.  0 stands for a file that is missing.            *)
(***************************************************************************)
EXTENDS Naturals

CONSTANTS
  Procs,        \* genpack processes of one user
  Profiles,     \* profiles, over all work directories
  Workdirs,
  None,         \* "no process" / "no profile"
  WorkdirOf,    \* profile -> the work directory it is prepared in
  Jobs,         \* process -> the profiles it may be asked to prepare
  Keep,         \* whether --keep-going is given
  HeadMayFail,  \* the server may refuse to tell the length of a file
  LivePublish,  \* the server may get a new version while commands run
  MaxClock,     \* bound: nothing is published after this time
  MaxCommands,  \* bound on the commands
  MaxMishaps    \* bound on failing calls and kills

Caches == {"portage", "stage3", "overlay"}

ASSUME ConstantsAssumption ==
  /\ None \notin Procs \cup Profiles
  /\ WorkdirOf \in [Profiles -> Workdirs]
  /\ Jobs \in [Procs -> SUBSET Profiles]
  /\ Keep \subseteq BOOLEAN /\ HeadMayFail \in BOOLEAN /\ LivePublish \in BOOLEAN
  /\ MaxClock \in Nat /\ MaxCommands \in Nat /\ MaxMishaps \in Nat

VARIABLES
  clock,     \* the largest time stamp given so far
  server,    \* cache -> the version the server has
  file,      \* cache -> what ~/.genpack has of it
  lock,      \* cache -> the process that holds its lock file
  tree,      \* work directory -> its portage tree
  root,      \* profile -> its root directory
  job,       \* process -> what it is doing
  commands, mishaps

trees == <<tree, root>>
vars == <<clock, server, file, lock, trees, job, commands, mishaps>>
-----------------------------------------------------------------------------
NoFile == [ver |-> 0, whole |-> FALSE, mtime |-> 0]

(* done: the time stamp in portage/.done; the mtime of .stage3-done.       *)
NoTree == [ver |-> 0, whole |-> FALSE, done |-> 0]
NoRoot == [ver |-> 0, whole |-> FALSE, done |-> 0, overlay |-> 0]

(* on: the cache the process works on; offer: the version it is served;    *)
(* extracted: _extract_portage_done; fetched: _downloaded; pulled:         *)
(* _pull_overlay_done; began: the versions the server had at the start;    *)
(* calm: no call of this process has failed.                               *)
Idle == [at |-> "idle", on |-> "portage", prof |-> None, todo |-> {}, keep |-> FALSE,
         offer |-> 0, extracted |-> FALSE, fetched |-> {}, pulled |-> FALSE,
         began |-> [c \in Caches |-> 0], calm |-> TRUE, result |-> "none"]

Init ==
  /\ clock = 1
  /\ server = [c \in Caches |-> 1]
  /\ file = [c \in Caches |-> NoFile]
  /\ lock = [c \in Caches |-> None]
  /\ tree = [w \in Workdirs |-> NoTree]
  /\ root = [p \in Profiles |-> NoRoot]
  /\ job = [q \in Procs |-> Idle]
  /\ commands = 0 /\ mishaps = 0

At(q, phase) == job[q].at = phase
On(q, phase, cache) == At(q, phase) /\ job[q].on = cache
Become(q, j) == job' = [job EXCEPT ![q] = j]
Goto(q, phase) == Become(q, [job[q] EXCEPT !.at = phase])
Workdir(q) == WorkdirOf[job[q].prof]
Stamp == clock' = clock + 1

Acquire(q, cache) == lock[cache] = None /\ lock' = [lock EXCEPT ![cache] = q]
Release(cache) == lock' = [lock EXCEPT ![cache] = None]

(* Mutant of Raise: a profile that failed is tried again.                  *)
RaiseAgain(j) ==
  [j EXCEPT !.at = IF j.keep THEN "next" ELSE "idle", !.prof = None, !.result = "failed",
            !.todo = @ \cup {j.prof}]

(* An exception closes the lock file; with --keep-going the loop goes on   *)
(* with the next profile, and the globals stay as they are.                *)
Raise(j) ==
  [j EXCEPT !.at = IF j.keep THEN "next" ELSE "idle", !.prof = None, !.result = "failed"]

(* Mutant of LetGo: a lock file outlives the process that made it.         *)
LetGoNothing(q) == UNCHANGED lock

LetGo(q) == lock' = [c \in Caches |-> IF lock[c] = q THEN None ELSE lock[c]]
-----------------------------------------------------------------------------
Start(q) ==
  /\ At(q, "idle")
  /\ commands < MaxCommands /\ commands' = commands + 1
  /\ \E P \in SUBSET Jobs[q] \ {{}}, keep \in Keep :
       Become(q, [Idle EXCEPT !.at = "next", !.todo = P, !.keep = keep, !.began = server])
  /\ UNCHANGED <<clock, server, file, lock, trees, mishaps>>

(* extract_portage is called for every profile and returns at once from    *)
(* the second on, however the first call ended.                            *)
NextProfile(q) ==
  /\ At(q, "next")
  /\ \E p \in job[q].todo :
       Become(q, [job[q] EXCEPT !.at = "lock", !.prof = p, !.todo = @ \ {p}, !.extracted = TRUE,
                                !.on = IF job[q].extracted THEN "stage3" ELSE "portage"])
  /\ UNCHANGED <<clock, server, file, lock, trees, commands, mishaps>>

(* "Waiting for lock": flock(LOCK_EX).  The URL of stage3 is asked for     *)
(* under the lock, and names the version.                                  *)
Lock(q) ==
  /\ At(q, "lock")
  /\ Acquire(q, job[q].on)
  /\ Become(q, [job[q] EXCEPT !.at = IF job[q].on = "overlay" THEN "pull" ELSE "download",
                              !.offer = server[job[q].on]])
  /\ UNCHANGED <<clock, server, file, trees, commands, mishaps>>

(* portage-latest is one URL for all versions.                             *)
Url(j) == <<j.on, IF j.on = "stage3" THEN j.offer ELSE 0>>
Served(j) == IF j.on = "stage3" THEN j.offer ELSE server[j.on]

(* Mutant of Outdated: a file that exists is never fetched again.          *)
OutdatedNever(j) == file[j.on].mtime = 0

(* Versions have different lengths, and so has a file cut off.             *)
Outdated(j) == ~file[j.on].whole \/ file[j.on].ver # Served(j)

(* download_if_necessary: a file that is there is kept when its length is  *)
(* right or, get_content_length having failed, unknown.                    *)
AskServer(q) ==
  /\ At(q, "download")
  /\ LET asked == [job[q] EXCEPT !.fetched = @ \cup {Url(job[q])}]
         skip(calm) == Become(q, [asked EXCEPT !.at = "compare", !.calm = calm])
     IN IF Url(job[q]) \in job[q].fetched
        THEN skip(job[q].calm) /\ UNCHANGED mishaps
        ELSE \/ /\ Outdated(job[q])
                /\ Become(q, [asked EXCEPT !.at = "wget"])
                /\ UNCHANGED mishaps
             \/ /\ ~Outdated(job[q])
                /\ skip(job[q].calm)
                /\ UNCHANGED mishaps
             \/ /\ HeadMayFail /\ file[job[q].on].mtime # 0
                /\ mishaps < MaxMishaps /\ mishaps' = mishaps + 1
                /\ skip(FALSE)
  /\ UNCHANGED <<clock, server, file, lock, trees, commands>>

(* wget -O truncates the file it is given.                                 *)
WgetBegin(q) ==
  /\ At(q, "wget")
  /\ Stamp
  /\ file' = [file EXCEPT ![job[q].on] =
                [ver |-> Served(job[q]), whole |-> FALSE, mtime |-> clock']]
  /\ Goto(q, "wgetting")
  /\ UNCHANGED <<server, lock, trees, commands, mishaps>>

WgetEnd(q) ==
  /\ At(q, "wgetting")
  /\ file' = [file EXCEPT ![job[q].on] =
                [ver |-> @.ver, whole |-> TRUE, mtime |-> @.ver]]
  /\ Goto(q, "compare")
  /\ UNCHANGED <<clock, server, lock, trees, commands, mishaps>>
-----------------------------------------------------------------------------
(* extract_portage: .done holds the time stamp of the tarball the tree was *)
(* extracted from.                                                         *)
KeepTree(q) ==
  /\ On(q, "compare", "portage")
  /\ file["portage"].mtime <= tree[Workdir(q)].done
  /\ Release("portage")
  /\ Become(q, [job[q] EXCEPT !.at = "lock", !.on = "stage3"])
  /\ UNCHANGED <<clock, server, file, trees, commands, mishaps>>

TrashTree(q) ==
  /\ On(q, "compare", "portage")
  /\ file["portage"].mtime > tree[Workdir(q)].done
  /\ tree' = [tree EXCEPT ![Workdir(q)] = [NoTree EXCEPT !.ver = file["portage"].ver]]
  /\ Goto(q, "untar")
  /\ UNCHANGED <<clock, server, file, lock, root, commands, mishaps>>

(* tar has read one whole version; otherwise it exits with an error.       *)
Intact(cache, ver) == file[cache].whole /\ file[cache].ver = ver

(* Mutant of UntarTree: the exit status of tar is not looked at.           *)
UntarTreeUnchecked(q) ==
  /\ On(q, "untar", "portage")
  /\ Goto(q, "mark")
  /\ tree' = [tree EXCEPT ![Workdir(q)].whole = Intact("portage", tree[Workdir(q)].ver)]
  /\ UNCHANGED <<clock, server, file, lock, root, commands, mishaps>>

UntarTree(q) ==
  /\ On(q, "untar", "portage")
  /\ IF Intact("portage", tree[Workdir(q)].ver)
     THEN /\ tree' = [tree EXCEPT ![Workdir(q)].whole = TRUE]
          /\ Goto(q, "mark")
          /\ UNCHANGED lock
     ELSE /\ LetGo(q) /\ Become(q, Raise(job[q]))
          /\ UNCHANGED tree
  /\ UNCHANGED <<clock, server, file, root, commands, mishaps>>

MarkTree(q) ==
  /\ On(q, "mark", "portage")
  /\ tree' = [tree EXCEPT ![Workdir(q)].done = file["portage"].mtime]
  /\ Release("portage")
  /\ Become(q, [job[q] EXCEPT !.at = "lock", !.on = "stage3"])
  /\ UNCHANGED <<clock, server, file, root, commands, mishaps>>
-----------------------------------------------------------------------------
(* Mutant of KeepRoot: the time stamps are not compared.                   *)
KeepRootMarked(q) ==
  /\ On(q, "compare", "stage3")
  /\ root[job[q].prof].done # 0
  /\ Release("stage3")
  /\ Become(q, [job[q] EXCEPT !.at = "lock", !.on = "overlay"])
  /\ UNCHANGED <<clock, server, file, trees, commands, mishaps>>

(* extract_stage3: "stage3 already extracted" if .stage3-done is newer     *)
(* than the tarball.                                                       *)
KeepRoot(q) ==
  /\ On(q, "compare", "stage3")
  /\ root[job[q].prof].done > file["stage3"].mtime
  /\ Release("stage3")
  /\ Become(q, [job[q] EXCEPT !.at = "lock", !.on = "overlay"])
  /\ UNCHANGED <<clock, server, file, trees, commands, mishaps>>

TrashRoot(q) ==
  /\ On(q, "compare", "stage3")
  /\ root[job[q].prof].done <= file["stage3"].mtime
  /\ root' = [root EXCEPT ![job[q].prof] = [NoRoot EXCEPT !.ver = file["stage3"].ver]]
  /\ Goto(q, "untar")
  /\ UNCHANGED <<clock, server, file, lock, tree, commands, mishaps>>

UntarRoot(q) ==
  /\ On(q, "untar", "stage3")
  /\ IF Intact("stage3", root[job[q].prof].ver)
     THEN /\ root' = [root EXCEPT ![job[q].prof].whole = TRUE]
          /\ Release("stage3")
          /\ Goto(q, "mark")
     ELSE /\ LetGo(q) /\ Become(q, Raise(job[q]))
          /\ UNCHANGED root
  /\ UNCHANGED <<clock, server, file, tree, commands, mishaps>>

(* Directories, permissions, make.conf and .stage3-done: without the lock. *)
MarkRoot(q) ==
  /\ On(q, "mark", "stage3")
  /\ Stamp
  /\ root' = [root EXCEPT ![job[q].prof].done = clock']
  /\ Become(q, [job[q] EXCEPT !.at = "lock", !.on = "overlay"])
  /\ UNCHANGED <<server, file, lock, tree, commands, mishaps>>
-----------------------------------------------------------------------------
(* sync_overlay: cloned once, then pulled once per process; a pull that    *)
(* fails is ignored.  git removes a clone it could not finish.             *)
Pull(q) ==
  /\ On(q, "pull", "overlay")
  /\ \/ /\ ~job[q].pulled
        /\ file' = [file EXCEPT !["overlay"] =
                      [ver |-> server["overlay"], whole |-> TRUE, mtime |-> server["overlay"]]]
        /\ Become(q, [job[q] EXCEPT !.at = "rsync", !.pulled = TRUE])
        /\ UNCHANGED mishaps
     \/ /\ ~job[q].pulled /\ file["overlay"].whole
        /\ mishaps < MaxMishaps /\ mishaps' = mishaps + 1
        /\ Become(q, [job[q] EXCEPT !.at = "rsync", !.pulled = TRUE, !.calm = FALSE])
        /\ UNCHANGED file
     \/ /\ job[q].pulled
        /\ Goto(q, "rsync")
        /\ UNCHANGED <<file, mishaps>>
  /\ UNCHANGED <<clock, server, lock, trees, commands>>

Rsync(q) ==
  /\ On(q, "rsync", "overlay")
  /\ root' = [root EXCEPT ![job[q].prof].overlay = file["overlay"].ver]
  /\ Release("overlay")
  /\ Goto(q, "use")
  /\ UNCHANGED <<clock, server, file, tree, commands, mishaps>>

(* The rest of prepare(): link_files, and the containers that have the     *)
(* portage tree bound into the root.                                       *)
Use(q) ==
  /\ At(q, "use")
  /\ Become(q, [job[q] EXCEPT !.at = "next", !.prof = None])
  /\ UNCHANGED <<clock, server, file, lock, trees, commands, mishaps>>

End(q) ==
  /\ At(q, "next") /\ job[q].todo = {}
  /\ Become(q, [job[q] EXCEPT !.at = "idle",
                              !.result = IF @ = "failed" THEN @ ELSE "done"])
  /\ UNCHANGED <<clock, server, file, lock, trees, commands, mishaps>>
-----------------------------------------------------------------------------
(* A call of the process fails; it is killed.                              *)
Fail(q) ==
  /\ job[q].at \notin {"idle", "next"}
  /\ mishaps < MaxMishaps /\ mishaps' = mishaps + 1
  /\ LetGo(q)
  /\ \/ Become(q, [Raise(job[q]) EXCEPT !.calm = FALSE])
     \/ Become(q, [Idle EXCEPT !.result = "killed", !.calm = FALSE])
  /\ UNCHANGED <<clock, server, file, trees, commands>>

(* Upstream publishes a new version, with the current time as its stamp.   *)
Publish(cache) ==
  /\ clock < MaxClock
  /\ LivePublish \/ \A q \in Procs : At(q, "idle")
  /\ Stamp
  /\ server' = [server EXCEPT ![cache] = clock']
  /\ UNCHANGED <<file, lock, trees, job, commands, mishaps>>

Step(q) ==
  \/ NextProfile(q) \/ Lock(q) \/ AskServer(q) \/ WgetBegin(q) \/ WgetEnd(q)
  \/ KeepTree(q) \/ TrashTree(q) \/ UntarTree(q) \/ MarkTree(q)
  \/ KeepRoot(q) \/ TrashRoot(q) \/ UntarRoot(q) \/ MarkRoot(q)
  \/ Pull(q) \/ Rsync(q) \/ Use(q) \/ End(q)

Rest == (\A q \in Procs : At(q, "idle")) /\ UNCHANGED vars

Next ==
  \/ \E q \in Procs : Start(q) \/ Step(q) \/ Fail(q)
  \/ \E cache \in Caches : Publish(cache)
  \/ Rest

Spec == Init /\ [][Next]_vars
FairSpec == Spec /\ \A q \in Procs : WF_vars(Step(q))
-----------------------------------------------------------------------------
PhasesIdle == {"idle", "next"}
PhasesLocked == {"download", "wget", "wgetting", "compare", "untar", "pull", "rsync"}
Phases == PhasesIdle \cup PhasesLocked \cup {"lock", "mark", "use"}
Holds(j) == j.at \in PhasesLocked \/ (j.at = "mark" /\ j.on = "portage")

FileType == [ver : Nat, whole : BOOLEAN, mtime : Nat]
TreeType == [ver : Nat, whole : BOOLEAN, done : Nat]
RootType == [ver : Nat, whole : BOOLEAN, done : Nat, overlay : Nat]
JobType ==
  [at : Phases, on : Caches, prof : Profiles \cup {None}, todo : SUBSET Profiles,
   keep : BOOLEAN, offer : Nat, extracted : BOOLEAN, fetched : SUBSET (Caches \X Nat),
   pulled : BOOLEAN, began : [Caches -> Nat], calm : BOOLEAN,
   result : {"none", "done", "failed", "killed"}]

TypeOK ==
  /\ clock \in Nat
  /\ server \in [Caches -> Nat]
  /\ file \in [Caches -> FileType]
  /\ tree \in [Workdirs -> TreeType]
  /\ root \in [Profiles -> RootType]
  /\ job \in [Procs -> JobType]
  /\ \A q \in Procs : job[q].at \notin PhasesIdle => job[q].prof \in Profiles
  /\ lock \in [Caches -> Procs \cup {None}]
  /\ \A q \in Procs, c \in Caches : lock[c] = q <=> Holds(job[q]) /\ job[q].on = c
  /\ commands \in 0..MaxCommands /\ mishaps \in 0..MaxMishaps

(* What is marked as extracted is a whole tree of one version: nothing a   *)
(* killed wget or tar, or another process, has left behind is taken for    *)
(* finished.                                                               *)
MarkedIsWhole ==
  /\ \A w \in Workdirs : tree[w].done # 0 => tree[w].whole /\ tree[w].done = tree[w].ver
  /\ \A p \in Profiles : root[p].done # 0 => root[p].whole

(* A profile is set up with a whole portage tree, a whole stage3 and an    *)
(* overlay; if no call of the process has failed, with versions no older   *)
(* than those the server had when the command started.                     *)
UsesCurrentTrees ==
  \A q \in Procs : At(q, "use") =>
    LET r == root[job[q].prof] IN
    /\ tree[Workdir(q)].whole /\ r.whole /\ r.overlay # 0
    /\ job[q].calm => /\ tree[Workdir(q)].ver >= job[q].began["portage"]
                      /\ r.ver >= job[q].began["stage3"]
                      /\ r.overlay >= job[q].began["overlay"]

(* "stage3 already extracted": the root that is kept was made from the     *)
(* tarball in the cache.                                                   *)
KeptRootIsCurrent ==
  [][\A q \in Procs : KeepRoot(q) => root[job[q].prof].ver = file["stage3"].ver]_vars

(* A process whose own calls all work succeeds, whatever other processes   *)
(* do to the shared files meanwhile and whatever killed ones have left.    *)
CalmCommandsSucceed == \A q \in Procs : job[q].result = "failed" => ~job[q].calm

(* Nobody waits for a lock for ever; every command comes to an end.        *)
CommandsEnd == \A q \in Procs : ~At(q, "idle") ~> At(q, "idle")
=============================================================================
