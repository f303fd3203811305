---------------------------- MODULE GenpackBuild ----------------------------
(***************************************************************************)
(* The incremental build of the genpack command (src/src/__main__.py,      *)
(* genpack_profile.py, genpack_artifact.py).  A command prepares the root  *)
(* of every profile it needs, copies the packages of each artifact into    *)
(* the artifact's upper directory, and packs that directory into an        *)
(* outfile.  Whether any of this work is skipped is decided from file      *)
(* timestamps alone, so the model keeps beside each timestamp the version  *)
(* of the contents: the properties compare what was skipped with what      *)
(* should have been done.                                                  *)
(*                                                                         *)
(* An "artifact" here is an artifact:variant pair.  A timestamp is a value *)
(* of `clock'; NoFile (0) is the time of a file that does not exist.       *)
(***************************************************************************)
EXTENDS Naturals, FiniteSets

CONSTANTS
  Procs,       \* genpack processes started in the same directory
  Profiles, Artifacts, Outfiles,
  None,        \* "no profile" / "no artifact"
  ProfileOf,   \* get_profile: artifact -> profile
  OutfileOf,   \* get_outfile: artifact -> outfile
  Jobs,        \* process -> artifacts it may be asked for
  Fragile,     \* phases in which a step may fail or the process be killed
  Kinds,       \* commands the user gives: "build", "prepare", "bash"
  Editable,    \* sources that are edited while no command is running
  LiveEdits,   \* sources that are edited at any time
  Deletable,   \* sources from which a nested file may be removed
  MaxClock,    \* bound: no command, edit or removal starts at this time
  MaxVersion,  \* bound on the versions of a source
  MaxMishaps   \* bound on the failures and kills

Portage == <<"portage", None>>    \* the portage tree
Overlay == <<"overlay", None>>    \* genpack-overlay
Packages == <<"packages", None>>  \* ./packages
ProfileDir(p) == <<"profile", p>> \* ./profiles/<p>
BuildJson(a) == <<"json", a>>     \* ./artifacts/<a>/build.json
Files(a) == <<"files", a>>        \* the rest of ./artifacts/<a>

Trees == {Portage, Overlay}

Sources == Trees \cup {Packages} \cup {ProfileDir(p) : p \in Profiles}
             \cup {BuildJson(a) : a \in Artifacts} \cup {Files(a) : a \in Artifacts}

\* The phases of prepare() for one profile and of build() for one artifact.
RootPhases == {"portage", "stage3", "untar", "link", "decide", "emerge", "genpack_prepare",
               "write_done", "verify", "shell"}
UpperPhases == {"trash_upper", "copyup", "sync_packages", "sync_artifact",
                "finish", "outfile", "pack", "packing"}
PreparePhases == {"next_profile"} \cup RootPhases
ArtifactPhases == {"next_artifact"} \cup UpperPhases
Phases == {"idle"} \cup PreparePhases \cup ArtifactPhases

JobProfiles(q) == {ProfileOf[a] : a \in Jobs[q]}

ASSUME ConstantsAssumption ==
  /\ None \notin Profiles \cup Artifacts
  /\ ProfileOf \in [Artifacts -> Profiles]
  /\ OutfileOf \in [Artifacts -> Outfiles]
  /\ Jobs \in [Procs -> SUBSET Artifacts]
  /\ Fragile \subseteq Phases
  /\ Kinds \subseteq {"build", "prepare", "bash"}
  /\ Editable \cup LiveEdits \subseteq Sources \ Trees
  /\ Deletable \subseteq Sources
  /\ MaxClock \in Nat /\ MaxVersion \in Nat /\ MaxMishaps \in Nat

(* No lock guards the root of a profile, so processes that run at the same *)
(* time are given artifacts of different profiles.                         *)
ASSUME DisjointProfiles ==
  \A q, r \in Procs : q # r => JobProfiles(q) \cap JobProfiles(r) = {}

VARIABLES
  clock,    \* the largest timestamp given so far
  src,      \* source -> version and newest mtime
  root,     \* profile -> work/<arch>/profiles/<p>/root
  upper,    \* artifact -> work/<arch>/artifacts/<a>
  out,      \* outfile -> the squashfs image
  cmd,      \* process -> the command it is running
  mishaps   \* failures and kills so far

vars == <<clock, src, root, upper, out, cmd, mishaps>>
-----------------------------------------------------------------------------
NoFile == 0
Later(s, t) == IF s >= t THEN s ELSE t

(* stage3: .stage3-done exists; done: mtime of .done; pkgdb: newest mtime  *)
(* under var/db/pkg; gen: which run of genpack-prepare the root's packages *)
(* come from, 0 as soon as they were touched since; prof, trees: the       *)
(* versions that run was given.                                            *)
NoTrees == [t \in Trees |-> 0]
NoRoot == [stage3 |-> FALSE, done |-> NoFile, pkgdb |-> NoFile,
           gen |-> 0, prof |-> 0, trees |-> NoTrees]

(* time: mtime of .genpack/packages; gen, json, pkgs, files: what has been *)
(* put in so far; complete: build() ran to its end; booted: `genpack run'  *)
(* has been used on it.                                                    *)
NoUpper == [time |-> NoFile, gen |-> 0, json |-> 0, pkgs |-> 0, files |-> 0,
            complete |-> FALSE, booted |-> FALSE]

NoImage == [time |-> NoFile, whole |-> FALSE, of |-> None, tree |-> NoUpper]

Idle == [at |-> "idle", kind |-> "none", keep |-> FALSE, todo |-> {}, prepared |-> {},
         arts |-> {}, reported |-> {}, prof |-> None, art |-> None,
         scan |-> [prof |-> 0, trees |-> NoTrees], newest |-> NoFile,
         fetched |-> FALSE, pulled |-> FALSE,
         start |-> [s \in Sources |-> [ver |-> 0, mtime |-> NoFile]]]

Init ==
  /\ clock = 1
  /\ src = [s \in Sources |-> [ver |-> 1, mtime |-> 1]]
  /\ root = [p \in Profiles |-> NoRoot]
  /\ upper = [a \in Artifacts |-> NoUpper]
  /\ out = [o \in Outfiles |-> NoImage]
  /\ cmd = [q \in Procs |-> Idle]
  /\ mishaps = 0

At(q, phase) == cmd[q].at = phase
Become(q, c) == cmd' = [cmd EXCEPT ![q] = c]
Goto(q, phase) == Become(q, [cmd[q] EXCEPT !.at = phase])
Stamp == clock' = clock + 1   \* a file written in this step has mtime clock'
AllIdle == \A q \in Procs : At(q, "idle")
-----------------------------------------------------------------------------
(* Mutant of DoneIsStale: var/db/pkg is not consulted.                     *)
NeverStale(r) == FALSE

(* get_gentoo_workdir_time: a .done older than the package database is     *)
(* unlinked by the query itself.                                           *)
DoneIsStale(r) == r.done < r.pkgdb
DoneTime(r) == IF DoneIsStale(r) THEN NoFile ELSE r.done
QueryDone(p) ==
  root' = [root EXCEPT ![p].done = DoneTime(root[p])]

ArtifactTime(a) == Later(src[BuildJson(a)].mtime, src[Files(a)].mtime)

(* Mutants of UpToDate: ./packages is forgotten; the comparison is turned. *)
UpToDateButPackages(a) ==
  upper[a].time > Later(DoneTime(root[ProfileOf[a]]), ArtifactTime(a))
UpToDateTurned(a) ==
  upper[a].time < Later(DoneTime(root[ProfileOf[a]]),
                        Later(ArtifactTime(a), src[Packages].mtime))

UpToDate(a) ==
  upper[a].time > Later(DoneTime(root[ProfileOf[a]]),
                        Later(ArtifactTime(a), src[Packages].mtime))
OutfileUpToDate(a) == out[OutfileOf[a]].time > upper[a].time

(* An exception: with --keep-going the loop goes on with its next element, *)
(* otherwise the process exits.  `genpack bash' and `run' have no handler. *)
Raise(c) ==
  IF ~c.keep THEN Idle
  ELSE IF c.at \in PreparePhases
       THEN [c EXCEPT !.at = "next_profile", !.prof = None]
       ELSE [c EXCEPT !.at = "next_artifact", !.art = None]
-----------------------------------------------------------------------------
(* The command line.  build.json of every artifact is loaded here: from    *)
(* now on the command uses cmd[q].start for it.  (The rest of `start' is   *)
(* there for the properties alone.)                                        *)
Start(q, kind, keep, A) ==
  /\ At(q, "idle")
  /\ clock < MaxClock
  /\ kind = "bash" => Cardinality(A) = 1 /\ ~keep
  /\ Become(q, [Idle EXCEPT !.at = "next_profile", !.kind = kind, !.keep = keep,
                            !.todo = {ProfileOf[a] : a \in A},
                            !.arts = IF kind = "build" THEN A ELSE {},
                            !.start = src])
  /\ UNCHANGED <<clock, src, root, upper, out, mishaps>>

(* Mutant of BeginProfile: the profile is counted as prepared beforehand.  *)
BeginPrepared(q) ==
  /\ At(q, "next_profile")
  /\ \E p \in cmd[q].todo :
       Become(q, [cmd[q] EXCEPT !.at = IF cmd[q].fetched THEN "stage3" ELSE "portage",
                                !.fetched = TRUE, !.prof = p, !.todo = @ \ {p},
                                !.prepared = @ \cup {p}])
  /\ UNCHANGED <<clock, src, root, upper, out, mishaps>>

(* prepare() of one profile after the other.  The portage tree is looked   *)
(* after once per process, whether that works or not.                      *)
BeginProfile(q) ==
  /\ At(q, "next_profile")
  /\ \E p \in cmd[q].todo :
       Become(q, [cmd[q] EXCEPT !.at = IF cmd[q].fetched THEN "stage3" ELSE "portage",
                                !.fetched = TRUE, !.prof = p, !.todo = @ \ {p}])
  /\ UNCHANGED <<clock, src, root, upper, out, mishaps>>

(* extract_portage: a later snapshot, if there is one, takes the place of  *)
(* the tree.  metadata/timestamp keeps the time t the snapshot was made at *)
(* (tar xpf), however long ago that is.                                    *)
SyncPortage(q) ==
  /\ At(q, "portage")
  /\ \/ UNCHANGED <<clock, src>>
     \/ /\ src[Portage].ver < MaxVersion
        /\ \E t \in src[Portage].mtime + 1 .. clock + 1 :
             /\ clock' = Later(clock, t)
             /\ src' = [src EXCEPT ![Portage] = [ver |-> @.ver + 1, mtime |-> t]]
  /\ Goto(q, "stage3")
  /\ UNCHANGED <<root, upper, out, mishaps>>

KeepStage3(q) ==
  /\ At(q, "stage3")
  /\ root[cmd[q].prof].stage3
  /\ Goto(q, "link")
  /\ UNCHANGED <<clock, src, root, upper, out, mishaps>>

(* No stage3, or a newer tarball: the whole root goes to the trash.        *)
TrashRoot(q) ==
  /\ At(q, "stage3")
  /\ root' = [root EXCEPT ![cmd[q].prof] = NoRoot]
  /\ Goto(q, "untar")
  /\ UNCHANGED <<clock, src, upper, out, mishaps>>

(* The tarball keeps the mtimes it was made with, all before `clock'.      *)
Untar(q) ==
  /\ At(q, "untar")
  /\ root' = [root EXCEPT ![cmd[q].prof].stage3 = TRUE]
  /\ Goto(q, "link")
  /\ UNCHANGED <<clock, src, upper, out, mishaps>>

(* sync_overlay, then link_files: the overlay is pulled at most once per   *)
(* process, and a failed pull is ignored.  Its time stamp is that of its   *)
(* newest Manifest: a pull that brings none leaves it.  The scan sees the  *)
(* trees and the profile as they are now.                                  *)
Link(q) ==
  /\ At(q, "link")
  /\ \/ UNCHANGED <<clock, src>>
     \/ /\ ~cmd[q].pulled
        /\ src[Overlay].ver < MaxVersion
        /\ \/ /\ Stamp
              /\ src' = [src EXCEPT ![Overlay] = [ver |-> @.ver + 1, mtime |-> clock']]
           \/ /\ UNCHANGED clock
              /\ src' = [src EXCEPT ![Overlay].ver = @ + 1]
  /\ LET dir == ProfileDir(cmd[q].prof) IN
     Become(q, [cmd[q] EXCEPT !.at = "decide", !.pulled = TRUE,
                 !.scan = [prof |-> src[dir].ver, trees |-> [t \in Trees |-> src'[t].ver]],
                 !.newest = Later(src[dir].mtime,
                                  Later(src'[Portage].mtime, src'[Overlay].mtime))])
  /\ UNCHANGED <<root, upper, out, mishaps>>

(* The profile of the command is ready: on to the next one.                *)
ProfileReady(q) ==
  Become(q, [cmd[q] EXCEPT !.at = "next_profile", !.prof = None,
                           !.prepared = @ \cup {cmd[q].prof}])

Decide(q) ==
  /\ At(q, "decide")
  /\ QueryDone(cmd[q].prof)
  /\ LET done == DoneTime(root[cmd[q].prof]) IN
     \/ cmd[q].kind = "bash" /\ Goto(q, "shell")
     \/ /\ cmd[q].kind # "bash"
        /\ done # NoFile /\ cmd[q].newest <= done
        /\ ProfileReady(q)
     \/ /\ cmd[q].kind # "bash"
        /\ done = NoFile \/ cmd[q].newest > done
        /\ Goto(q, "emerge")
  /\ UNCHANGED <<clock, src, upper, out, mishaps>>

(* Merging or unmerging a package touches var/db/pkg before the tree.      *)
TouchPackages(p) ==
  /\ Stamp
  /\ root' = [root EXCEPT ![p].pkgdb = clock', ![p].gen = 0]

(* A container command that may or may not have had something to merge.    *)
InContainer(q) ==
  \/ UNCHANGED <<clock, root>>
  \/ TouchPackages(cmd[q].prof)

Emerge(q) ==
  /\ At(q, "emerge")
  /\ InContainer(q)
  /\ Goto(q, "genpack_prepare")
  /\ UNCHANGED <<src, upper, out, mishaps>>

GenpackPrepare(q) ==
  /\ At(q, "genpack_prepare")
  /\ InContainer(q)
  /\ Goto(q, "write_done")
  /\ UNCHANGED <<src, upper, out, mishaps>>

(* The last thing genpack-prepare does is to write .done.                  *)
WriteDone(q) ==
  /\ At(q, "write_done")
  /\ Stamp
  /\ root' = [root EXCEPT ![cmd[q].prof].done = clock', ![cmd[q].prof].gen = clock',
                          ![cmd[q].prof].prof = cmd[q].scan.prof,
                          ![cmd[q].prof].trees = cmd[q].scan.trees]
  /\ Goto(q, "verify")
  /\ UNCHANGED <<src, upper, out, mishaps>>

(* "/var/db/pkg is newer than .done file."                                 *)
Verify(q) ==
  /\ At(q, "verify")
  /\ QueryDone(cmd[q].prof)
  /\ IF DoneTime(root[cmd[q].prof]) = NoFile
     THEN Become(q, Raise(cmd[q]))
     ELSE ProfileReady(q)
  /\ UNCHANGED <<clock, src, upper, out, mishaps>>

(* genpack bash: the user may merge packages; the exit status is ignored.  *)
Shell(q) ==
  /\ At(q, "shell")
  /\ InContainer(q)
  /\ Become(q, Idle)
  /\ UNCHANGED <<src, upper, out, mishaps>>

ToArtifacts(q) ==
  /\ At(q, "next_profile")
  /\ cmd[q].todo = {}
  /\ Goto(q, "next_artifact")
  /\ UNCHANGED <<clock, src, root, upper, out, mishaps>>
-----------------------------------------------------------------------------
(* The artifact loop of build().                                           *)
SkipUnprepared(q) ==
  /\ At(q, "next_artifact")
  /\ \E a \in cmd[q].arts :
       /\ ProfileOf[a] \notin cmd[q].prepared
       /\ Become(q, [cmd[q] EXCEPT !.arts = @ \ {a}])
  /\ UNCHANGED <<clock, src, root, upper, out, mishaps>>

(* is_up_to_date looks at .done only when there is a packages file, and    *)
(* raises when .done is gone.                                              *)
CheckArtifact(q) ==
  /\ At(q, "next_artifact")
  /\ \E a \in cmd[q].arts :
       LET chosen == [cmd[q] EXCEPT !.arts = @ \ {a}, !.art = a]
           built == upper[a].time # NoFile
           lost == built /\ DoneTime(root[ProfileOf[a]]) = NoFile
       IN /\ ProfileOf[a] \in cmd[q].prepared
          /\ IF built THEN QueryDone(ProfileOf[a]) ELSE UNCHANGED root
          /\ \/ lost /\ Become(q, Raise(chosen))
             \/ /\ ~lost
                /\ built /\ UpToDate(a)
                /\ Become(q, [chosen EXCEPT !.at = "outfile"])
             \/ /\ ~lost
                /\ ~(built /\ UpToDate(a))
                /\ Become(q, [chosen EXCEPT !.at = "trash_upper"])
  /\ UNCHANGED <<clock, src, upper, out, mishaps>>

TrashUpper(q) ==
  /\ At(q, "trash_upper")
  /\ upper' = [upper EXCEPT ![cmd[q].art] = NoUpper]
  /\ Goto(q, "copyup")
  /\ UNCHANGED <<clock, src, root, out, mishaps>>

(* copyup-packages copies the packages named by build.json out of the root *)
(* and writes .genpack/packages, whose mtime is the build time.            *)
Copyup(q) ==
  /\ At(q, "copyup")
  /\ Stamp
  /\ LET a == cmd[q].art IN
     upper' = [upper EXCEPT ![a] =
       [NoUpper EXCEPT !.time = clock', !.gen = root[ProfileOf[a]].gen,
                       !.json = cmd[q].start[BuildJson(a)].ver]]
  /\ Goto(q, "sync_packages")
  /\ UNCHANGED <<src, root, out, mishaps>>

SyncPackages(q) ==
  /\ At(q, "sync_packages")
  /\ upper' = [upper EXCEPT ![cmd[q].art].pkgs = src[Packages].ver]
  /\ Goto(q, "sync_artifact")
  /\ UNCHANGED <<clock, src, root, out, mishaps>>

(* Mutant of SyncArtifact: files are copied only for a first image.        *)
SyncArtifactOnce(q) ==
  /\ At(q, "sync_artifact")
  /\ IF out[OutfileOf[cmd[q].art]].time = NoFile
     THEN upper' = [upper EXCEPT ![cmd[q].art].files = src[Files(cmd[q].art)].ver]
     ELSE UNCHANGED upper
  /\ Goto(q, "finish")
  /\ UNCHANGED <<clock, src, root, out, mishaps>>

SyncArtifact(q) ==
  /\ At(q, "sync_artifact")
  /\ upper' = [upper EXCEPT ![cmd[q].art].files = src[Files(cmd[q].art)].ver]
  /\ Goto(q, "finish")
  /\ UNCHANGED <<clock, src, root, out, mishaps>>

(* The artifact's own build script, its services, the removals.            *)
Finish(q) ==
  /\ At(q, "finish")
  /\ upper' = [upper EXCEPT ![cmd[q].art].complete = TRUE]
  /\ Goto(q, "outfile")
  /\ UNCHANGED <<clock, src, root, out, mishaps>>

(* Mutant of Report: the profile is put on the list instead.               *)
ReportProfile(q) ==
  Become(q, [cmd[q] EXCEPT !.at = "next_artifact", !.art = None,
                           !.reported = @ \cup {ProfileOf[cmd[q].art]}])

(* The command is through with its artifact.                               *)
Report(q) ==
  Become(q, [cmd[q] EXCEPT !.at = "next_artifact", !.art = None,
                           !.reported = @ \cup {cmd[q].art}])

CheckOutfile(q) ==
  /\ At(q, "outfile")
  /\ IF OutfileUpToDate(cmd[q].art) THEN Report(q) ELSE Goto(q, "pack")
  /\ UNCHANGED <<clock, src, root, upper, out, mishaps>>

(* mksquashfs -noappend starts a new file and fills it.  The mtime is that *)
(* of the first write: no other timestamp is compared with it in between.  *)
PackBegin(q) ==
  /\ At(q, "pack")
  /\ Stamp
  /\ out' = [out EXCEPT ![OutfileOf[cmd[q].art]] =
               [time |-> clock', whole |-> FALSE, of |-> cmd[q].art,
                tree |-> upper[cmd[q].art]]]
  /\ Goto(q, "packing")
  /\ UNCHANGED <<src, root, upper, mishaps>>

PackEnd(q) ==
  /\ At(q, "packing")
  /\ out' = [out EXCEPT ![OutfileOf[cmd[q].art]].whole = TRUE]
  /\ Report(q)
  /\ UNCHANGED <<clock, src, root, upper, mishaps>>

EndCommand(q) ==
  /\ At(q, "next_artifact")
  /\ cmd[q].arts = {}
  /\ Become(q, Idle)
  /\ UNCHANGED <<clock, src, root, upper, out, mishaps>>
-----------------------------------------------------------------------------
(* A step that raises, and a process that is killed.                       *)
Mishap(q) ==
  /\ cmd[q].at \in Fragile \ {"idle"}
  /\ mishaps < MaxMishaps
  /\ \/ Become(q, Raise(cmd[q]))
     \/ cmd[q].keep /\ Become(q, Idle)
  /\ mishaps' = mishaps + 1
  /\ UNCHANGED <<clock, src, root, upper, out>>

(* genpack run boots the upper directory itself, if it is up to date.      *)
Run(q) ==
  /\ At(q, "idle")
  /\ \E a \in Jobs[q] :
       /\ upper[a].time # NoFile
       /\ QueryDone(ProfileOf[a])
       /\ IF DoneTime(root[ProfileOf[a]]) # NoFile /\ UpToDate(a)
          THEN upper' = [upper EXCEPT ![a].booted = TRUE]
          ELSE UNCHANGED upper
  /\ UNCHANGED <<clock, src, out, cmd, mishaps>>

(* genpack clean, of whichever artifact: the argument is parsed and        *)
(* ignored, the whole work directory is removed (outfiles are elsewhere).  *)
Clean ==
  /\ AllIdle
  /\ root' = [p \in Profiles |-> NoRoot]
  /\ upper' = [a \in Artifacts |-> NoUpper]
  /\ UNCHANGED <<clock, src, out, cmd, mishaps>>

(* The user edits or adds a file: it gets a new mtime.                     *)
Edit ==
  /\ clock < MaxClock
  /\ \E s \in Editable \cup LiveEdits :
       /\ AllIdle \/ s \in LiveEdits
       /\ src[s].ver < MaxVersion
       /\ Stamp
       /\ src' = [src EXCEPT ![s] = [ver |-> @.ver + 1, mtime |-> clock']]
  /\ UNCHANGED <<root, upper, out, cmd, mishaps>>

(* The user removes a file below a subdirectory: no mtime the code reads   *)
(* gets newer.                                                             *)
Remove ==
  /\ clock < MaxClock
  /\ \E s \in Deletable :
       /\ AllIdle
       /\ src[s].ver < MaxVersion
       /\ src' = [src EXCEPT ![s].ver = @ + 1]
  /\ UNCHANGED <<clock, root, upper, out, cmd, mishaps>>

Prepare(q) ==
  \/ BeginProfile(q) \/ SyncPortage(q) \/ KeepStage3(q) \/ TrashRoot(q)
  \/ Untar(q) \/ Link(q) \/ Decide(q) \/ Emerge(q) \/ GenpackPrepare(q) \/ WriteDone(q) \/ Verify(q)
  \/ Shell(q) \/ ToArtifacts(q)

Build(q) ==
  \/ SkipUnprepared(q) \/ CheckArtifact(q) \/ TrashUpper(q) \/ Copyup(q)
  \/ SyncPackages(q) \/ SyncArtifact(q) \/ Finish(q) \/ CheckOutfile(q)
  \/ PackBegin(q) \/ PackEnd(q) \/ EndCommand(q)

StartSome(q) ==
  \E kind \in Kinds, keep \in BOOLEAN,
     A \in SUBSET Jobs[q] \ {{}} : Start(q, kind, keep, A)

(* Nobody starts another command: the only way the system rests.           *)
Rest == AllIdle /\ UNCHANGED vars

Next ==
  \/ \E q \in Procs : Prepare(q) \/ Build(q) \/ StartSome(q) \/ Mishap(q) \/ Run(q)
  \/ Clean \/ Edit \/ Remove \/ Rest

Spec == Init /\ [][Next]_vars
-----------------------------------------------------------------------------
RootType == [stage3 : BOOLEAN, done : Nat, pkgdb : Nat, gen : Nat, prof : Nat,
             trees : [Trees -> Nat]]
TreeType == [time : Nat, gen : Nat, json : Nat, pkgs : Nat, files : Nat,
             complete : BOOLEAN, booted : BOOLEAN]
ImageType == [time : Nat, whole : BOOLEAN, of : Artifacts \cup {None}, tree : TreeType]
CommandType == [at : Phases, kind : Kinds \cup {"none"}, keep : BOOLEAN,
                todo : SUBSET Profiles, prepared : SUBSET Profiles,
                arts : SUBSET Artifacts, reported : SUBSET Artifacts,
                prof : Profiles \cup {None}, art : Artifacts \cup {None},
                scan : [prof : Nat, trees : [Trees -> Nat]], newest : Nat,
                fetched : BOOLEAN, pulled : BOOLEAN,
                start : [Sources -> [ver : Nat, mtime : Nat]]]

TypeOK ==
  /\ clock \in Nat
  /\ src \in [Sources -> [ver : Nat, mtime : Nat]]
  /\ root \in [Profiles -> RootType]
  /\ upper \in [Artifacts -> TreeType]
  /\ out \in [Outfiles -> ImageType]
  /\ cmd \in [Procs -> CommandType]
  /\ \A q \in Procs :
       /\ cmd[q].at \in RootPhases => cmd[q].prof \in Profiles
       /\ cmd[q].at \in UpperPhases => cmd[q].art \in Artifacts
  /\ mishaps \in 0..MaxMishaps

(* A root whose .done survives the query against var/db/pkg holds exactly  *)
(* the packages its last genpack-prepare left there: whatever merge, crash *)
(* or shell session came in between is seen.                               *)
PreparedRootIsClean ==
  \A p \in Profiles :
    DoneTime(root[p]) # NoFile => root[p].gen = root[p].done

(* copyup-packages never copies out of a root that a failed or killed      *)
(* preparation, or a shell, left half changed.                             *)
BuildsFromPreparedRoot ==
  \A a \in Artifacts : upper[a].time # NoFile => upper[a].gen # 0

(* When a build command is through with an artifact - it built it or found *)
(* it up to date - the outfile is a whole image of a completed, never      *)
(* booted build of that artifact, from the root as it is now and from      *)
(* sources no older than they were when the command was started.  Of the   *)
(* trees that much cannot be said: a later tree is passed over if it is    *)
(* stamped no later than the .done the root was made at, as a snapshot is  *)
(* that was published before it and fetched after it.                      *)
TreeNoticed(p, t, start) ==
  root[p].trees[t] < start[t].ver => start[t].mtime <= root[p].gen
Fresh(q, a) ==
  LET image == out[OutfileOf[a]]
      made == image.tree
      p == ProfileOf[a]
      start == cmd[q].start
  IN /\ image.whole /\ image.of = a
     /\ made.complete /\ ~made.booted
     /\ made.gen = root[p].gen
     /\ root[p].prof >= start[ProfileDir(p)].ver
     /\ \A t \in Trees : TreeNoticed(p, t, start)
     /\ made.json >= start[BuildJson(a)].ver
     /\ made.files >= start[Files(a)].ver
     /\ made.pkgs >= start[Packages].ver
ReportedIsFresh == \A q \in Procs : \A a \in cmd[q].reported : Fresh(q, a)

(* What is reported comes from a build() and a mksquashfs that both ran to *)
(* their ends.                                                             *)
ReportedIsComplete ==
  \A q \in Procs : \A a \in cmd[q].reported :
    out[OutfileOf[a]].whole /\ out[OutfileOf[a]].tree.complete

(* An outfile is never replaced by an image made from older sources.       *)
PackedNeverRegresses ==
  [][\A o \in Outfiles : out[o].tree.complete /\ out'[o].tree.complete =>
       /\ out'[o].tree.json >= out[o].tree.json
       /\ out'[o].tree.files >= out[o].tree.files
       /\ out'[o].tree.pkgs >= out[o].tree.pkgs
       /\ out'[o].tree.gen >= out[o].tree.gen]_vars

(* An existing build is thrown away only if it is incomplete, or its root  *)
(* or one of its sources has changed since.                                *)
UpperIsCurrent(a) ==
  /\ upper[a].complete
  /\ upper[a].gen = root[ProfileOf[a]].gen
  /\ upper[a].json = src[BuildJson(a)].ver
  /\ upper[a].files = src[Files(a)].ver
  /\ upper[a].pkgs = src[Packages].ver
NoNeedlessRebuild ==
  [][\A q \in Procs : TrashUpper(q) => ~UpperIsCurrent(cmd[q].art)]_vars
=============================================================================
