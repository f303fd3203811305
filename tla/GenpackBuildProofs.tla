------------------------- MODULE GenpackBuildProofs -------------------------
(***************************************************************************)
(* Theorems about GenpackBuild, for every number of profiles and artifacts *)
(* and every bound; Parts 1 to 3 for every value of the other constants    *)
(* too, Parts 4 to 6 each under a named assumption: OneCommand,            *)
(* LateSourcesStill, OwnOutfiles.                                          *)
(***************************************************************************)
EXTENDS GenpackBuild, TLAPS

(* Part 1: types.  A command's record, and what replacing one preserves.   *)
CommandOK(c) ==
  /\ c \in CommandType
  /\ c.at \in RootPhases => c.prof \in Profiles
  /\ c.at \in UpperPhases => c.art \in Artifacts
CommandsOK == cmd \in [Procs -> CommandType] /\ \A q \in Procs : CommandOK(cmd[q])

LEMMA SourceNames ==
  /\ Portage \in Sources /\ Overlay \in Sources /\ Packages \in Sources
  /\ Trees \subseteq Sources
  /\ \A p \in Profiles : ProfileDir(p) \in Sources
  /\ \A a \in Artifacts : BuildJson(a) \in Sources /\ Files(a) \in Sources
BY DEF Sources, Trees

LEMMA PhaseNames ==
  /\ RootPhases \subseteq PreparePhases /\ PreparePhases \subseteq Phases
  /\ UpperPhases \subseteq ArtifactPhases /\ ArtifactPhases \subseteq Phases
  /\ {"idle", "next_profile", "next_artifact"} \subseteq Phases
  /\ {"idle", "next_profile", "next_artifact"} \cap RootPhases = {}
  /\ {"idle", "next_profile", "next_artifact"} \cap UpperPhases = {}
  /\ RootPhases \cap UpperPhases = {}
BY DEF Phases, PreparePhases, ArtifactPhases, RootPhases, UpperPhases

LEMMA IdleType == CommandOK(Idle)
<1>1. Idle \in CommandType
  BY DEF Idle, CommandType, Phases, NoFile, NoTrees
<1>2. Idle.at = "idle"
  BY DEF Idle
<1>3. QED
  BY <1>1, <1>2, PhaseNames DEF CommandOK

LEMMA MoveType ==
  ASSUME NEW c \in CommandType, NEW phase \in Phases,
         phase \in RootPhases => c.prof \in Profiles,
         phase \in UpperPhases => c.art \in Artifacts
  PROVE  CommandOK([c EXCEPT !.at = phase])
BY DEF CommandOK, CommandType

LEMMA RaiseType ==
  ASSUME NEW c \in CommandType
  PROVE  CommandOK(Raise(c))
<1>1. CASE ~c.keep
  BY <1>1, IdleType DEF Raise
<1>2. CASE c.keep /\ c.at \in PreparePhases
  <2>1. [c EXCEPT !.at = "next_profile", !.prof = None] \in CommandType
    BY PhaseNames DEF CommandType
  <2>2. Raise(c) = [c EXCEPT !.at = "next_profile", !.prof = None]
    BY <1>2 DEF Raise
  <2>3. Raise(c).at = "next_profile"
    BY <2>2 DEF CommandType
  <2>4. QED
    BY <2>1, <2>2, <2>3, PhaseNames DEF CommandOK
<1>3. CASE c.keep /\ c.at \notin PreparePhases
  <2>1. [c EXCEPT !.at = "next_artifact", !.art = None] \in CommandType
    BY PhaseNames DEF CommandType
  <2>2. Raise(c) = [c EXCEPT !.at = "next_artifact", !.art = None]
    BY <1>3 DEF Raise
  <2>3. Raise(c).at = "next_artifact"
    BY <2>2 DEF CommandType
  <2>4. QED
    BY <2>1, <2>2, <2>3, PhaseNames DEF CommandOK
<1>4. QED
  BY <1>1, <1>2, <1>3

LEMMA BecomeType ==
  ASSUME TypeOK, NEW q \in Procs, NEW c, CommandOK(c), Become(q, c)
  PROVE  CommandsOK'
BY DEF TypeOK, Become, CommandsOK, CommandOK

LEMMA GotoType ==
  ASSUME TypeOK, NEW q \in Procs, NEW phase \in Phases, Goto(q, phase),
         phase \in RootPhases => cmd[q].prof \in Profiles,
         phase \in UpperPhases => cmd[q].art \in Artifacts
  PROVE  CommandsOK'
<1>1. CommandOK([cmd[q] EXCEPT !.at = phase])
  BY MoveType DEF TypeOK
<1>2. QED
  BY <1>1, BecomeType DEF Goto

LEMMA UnchangedType == TypeOK /\ UNCHANGED cmd => CommandsOK'
BY DEF TypeOK, CommandsOK, CommandOK

(* TypeOK is the types of the files and those of the commands.             *)
FilesOK ==
  /\ clock \in Nat
  /\ src \in [Sources -> [ver : Nat, mtime : Nat]]
  /\ root \in [Profiles -> RootType]
  /\ upper \in [Artifacts -> TreeType]
  /\ out \in [Outfiles -> ImageType]
  /\ mishaps \in 0..MaxMishaps

LEMMA TypeParts == TypeOK <=> FilesOK /\ CommandsOK
BY DEF TypeOK, FilesOK, CommandsOK, CommandOK

LEMMA EmptyRecords == NoRoot \in RootType /\ NoUpper \in TreeType /\ NoImage \in ImageType
BY DEF NoRoot, NoTrees, RootType, NoUpper, TreeType, NoImage, ImageType, NoFile

LEMMA InitType == Init => TypeOK
<1>1. Init => FilesOK
  BY ConstantsAssumption, EmptyRecords DEF Init, FilesOK
<1>2. Init => CommandsOK
  BY IdleType DEF Init, CommandsOK, CommandOK
<1>3. QED
  BY <1>1, <1>2, TypeParts
-----------------------------------------------------------------------------
(* The steps of prepare(), one by one.                                     *)
LEMMA QueryType == ASSUME FilesOK, NEW p \in Profiles, QueryDone(p)
                   PROVE  root' \in [Profiles -> RootType]
BY DEF FilesOK, QueryDone, DoneTime, NoFile, RootType

LEMMA ContainerType ==
  ASSUME FilesOK, NEW q \in Procs, InContainer(q)
  PROVE  clock' \in Nat /\ root' \in [Profiles -> RootType]
<1>1. CASE UNCHANGED <<clock, root>>
  BY <1>1 DEF FilesOK
<1>2. CASE TouchPackages(cmd[q].prof)
  <2>1. clock' \in Nat
    BY <1>2 DEF FilesOK, TouchPackages, Stamp
  <2>2. root' \in [Profiles -> RootType]
    <3>1. PICK now \in Nat : now = clock'
      BY <2>1
    <3>2. root' = [root EXCEPT ![cmd[q].prof].pkgdb = now, ![cmd[q].prof].gen = 0]
      BY <1>2, <3>1 DEF TouchPackages
    <3>3. QED
      BY <3>2 DEF FilesOK, RootType
  <2>3. QED
    BY <2>1, <2>2
<1>3. QED
  BY <1>1, <1>2 DEF InContainer

LEMMA ReadyType ==
  ASSUME TypeOK, NEW q \in Procs, cmd[q].at \in RootPhases, ProfileReady(q)
  PROVE  CommandsOK'
<1> DEFINE c == [cmd[q] EXCEPT !.at = "next_profile", !.prof = None,
                               !.prepared = @ \cup {cmd[q].prof}]
<1>1. cmd[q] \in CommandType /\ cmd[q].prof \in Profiles
  BY DEF TypeOK
<1>2. cmd[q].prepared \cup {cmd[q].prof} \in SUBSET Profiles
  BY <1>1 DEF CommandType
<1>3. c \in CommandType /\ c.at = "next_profile"
  BY <1>1, <1>2, PhaseNames DEF CommandType
<1>4. CommandOK(c)
  BY <1>3, PhaseNames DEF CommandOK
<1>5. QED
  BY <1>4, BecomeType DEF ProfileReady

LEMMA PrepareType ==
  ASSUME TypeOK, NEW q \in Procs, Prepare(q)
  PROVE  TypeOK'
<1> SUFFICES FilesOK' /\ CommandsOK'
  BY TypeParts DEF TypeOK, FilesOK, CommandsOK, CommandOK
<1> FilesOK /\ cmd[q] \in CommandType
  BY TypeParts DEF TypeOK
<1> USE SourceNames, PhaseNames DEF At
<1>1. CASE BeginProfile(q)
  <2> PICK p \in cmd[q].todo :
        Become(q, [cmd[q] EXCEPT !.at = IF cmd[q].fetched THEN "stage3" ELSE "portage",
                                 !.fetched = TRUE, !.prof = p, !.todo = @ \ {p}])
    BY <1>1 DEF BeginProfile
  <2> DEFINE c == [cmd[q] EXCEPT !.at = IF cmd[q].fetched THEN "stage3" ELSE "portage",
                               !.fetched = TRUE, !.prof = p, !.todo = @ \ {p}]
  <2>1. c \in CommandType /\ c.prof \in Profiles /\ c.at \in {"stage3", "portage"}
    BY DEF CommandType, RootPhases
  <2>2. CommandOK(c)
    BY <2>1 DEF CommandOK, UpperPhases
  <2>3. QED
    BY <1>1, <2>2, BecomeType DEF BeginProfile, FilesOK
<1>0. CASE SyncPortage(q)
  <2>1. CommandsOK'
    BY <1>0, GotoType DEF SyncPortage, TypeOK, RootPhases, UpperPhases
  <2>2. src' \in [Sources -> [ver : Nat, mtime : Nat]] /\ clock' \in Nat
    <3>1. CASE UNCHANGED <<clock, src>>
      BY <3>1 DEF FilesOK
    <3>2. CASE ~UNCHANGED <<clock, src>>
      <4>1. PICK t \in src[Portage].mtime + 1 .. clock + 1 :
              /\ clock' = Later(clock, t)
              /\ src' = [src EXCEPT ![Portage] = [ver |-> src[Portage].ver + 1, mtime |-> t]]
        BY <1>0, <3>2 DEF SyncPortage
      <4>2. src[Portage].ver \in Nat /\ src[Portage].mtime \in Nat /\ t \in Nat
        BY DEF FilesOK
      <4>3. QED
        BY <4>1, <4>2 DEF FilesOK, Later
    <3>3. QED
      BY <3>1, <3>2
  <2>3. QED
    BY <1>0, <2>1, <2>2 DEF SyncPortage, FilesOK
<1>2. CASE KeepStage3(q)
  BY <1>2, GotoType DEF KeepStage3, FilesOK, TypeOK, RootPhases, UpperPhases
<1>3. CASE TrashRoot(q)
  <2>1. CommandsOK'
    BY <1>3, GotoType DEF TrashRoot, TypeOK, RootPhases, UpperPhases
  <2>2. QED
    BY <1>3, <2>1, EmptyRecords DEF TrashRoot, FilesOK
<1>4. CASE Untar(q)
  <2>1. CommandsOK'
    BY <1>4, GotoType DEF Untar, TypeOK, RootPhases, UpperPhases
  <2>2. QED
    BY <1>4, <2>1 DEF Untar, FilesOK, RootType
<1>5. CASE Link(q)
  <2> DEFINE p == cmd[q].prof
             c == [cmd[q] EXCEPT !.at = "decide", !.pulled = TRUE,
                     !.scan = [prof |-> src[ProfileDir(p)].ver, trees |-> [t \in Trees |-> src'[t].ver]],
                     !.newest = Later(src[ProfileDir(p)].mtime,
                       Later(src'[Portage].mtime, src'[Overlay].mtime))]
  <2>1. p \in Profiles
    BY <1>5 DEF Link, TypeOK, RootPhases
  <2>2. clock' \in Nat /\ src' \in [Sources -> [ver : Nat, mtime : Nat]]
    BY <1>5 DEF Link, Stamp, FilesOK
  <2>3. c \in CommandType /\ c.prof \in Profiles /\ c.at = "decide"
    BY <2>1, <2>2 DEF CommandType, Later, FilesOK, RootPhases
  <2>4. CommandOK(c)
    BY <2>3 DEF CommandOK, UpperPhases
  <2>5. QED
    BY <1>5, <2>2, <2>4, BecomeType DEF Link, FilesOK
<1>6. CASE Decide(q)
  <2>1. cmd[q].prof \in Profiles
    BY <1>6 DEF Decide, TypeOK, RootPhases
  <2>2. CommandsOK'
    BY <1>6, <2>1, GotoType, ReadyType DEF Decide, RootPhases, UpperPhases
  <2>3. QED
    BY <1>6, <2>1, <2>2, QueryType DEF Decide, FilesOK
<1>7. CASE Emerge(q)
  <2>1. CommandsOK'
    BY <1>7, GotoType DEF Emerge, TypeOK, RootPhases, UpperPhases
  <2>2. QED
    BY <1>7, <2>1, ContainerType DEF Emerge, FilesOK
<1>8. CASE GenpackPrepare(q)
  <2>1. CommandsOK'
    BY <1>8, GotoType DEF GenpackPrepare, TypeOK, RootPhases, UpperPhases
  <2>2. QED
    BY <1>8, <2>1, ContainerType DEF GenpackPrepare, FilesOK
<1>9. CASE WriteDone(q)
  <2>1. CommandsOK'
    BY <1>9, GotoType DEF WriteDone, TypeOK, RootPhases, UpperPhases
  <2>2. cmd[q].scan.prof \in Nat /\ cmd[q].scan.trees \in [Trees -> Nat]
    BY DEF CommandType
  <2>3. clock' \in Nat
    BY <1>9 DEF WriteDone, Stamp, FilesOK
  <2>4. \A p \in Profiles :
          [root[p] EXCEPT !.done = clock', !.gen = clock', !.prof = cmd[q].scan.prof,
                          !.trees = cmd[q].scan.trees] \in RootType
    BY <2>2, <2>3 DEF FilesOK, RootType
  <2>5. QED
    BY <1>9, <2>1, <2>3, <2>4 DEF WriteDone, FilesOK
<1>10. CASE Verify(q)
  <2>1. cmd[q].prof \in Profiles
    BY <1>10 DEF Verify, TypeOK, RootPhases
  <2>2. CommandsOK'
    BY <1>10, RaiseType, BecomeType, ReadyType DEF Verify, RootPhases
  <2>3. QED
    BY <1>10, <2>1, <2>2, QueryType DEF Verify, FilesOK
<1>11. CASE Shell(q)
  <2>1. CommandsOK'
    BY <1>11, IdleType, BecomeType DEF Shell
  <2>2. QED
    BY <1>11, <2>1, ContainerType DEF Shell, FilesOK
<1>12. CASE ToArtifacts(q)
  BY <1>12, GotoType DEF ToArtifacts, FilesOK
<1>13. QED
  BY <1>0, <1>1, <1>2, <1>3, <1>4, <1>5, <1>6, <1>7, <1>8, <1>9, <1>10, <1>11, <1>12 DEF Prepare
-----------------------------------------------------------------------------
(* The steps of build().                                                   *)
LEMMA ReportType ==
  ASSUME TypeOK, NEW q \in Procs, cmd[q].at \in UpperPhases, Report(q)
  PROVE  CommandsOK'
<1> DEFINE c == [cmd[q] EXCEPT !.at = "next_artifact", !.art = None,
                               !.reported = @ \cup {cmd[q].art}]
<1>1. cmd[q] \in CommandType /\ cmd[q].art \in Artifacts
  BY DEF TypeOK
<1>2. cmd[q].reported \cup {cmd[q].art} \in SUBSET Artifacts
  BY <1>1 DEF CommandType
<1>3. c \in CommandType /\ c.at = "next_artifact"
  BY <1>1, <1>2, PhaseNames DEF CommandType
<1>4. CommandOK(c)
  BY <1>3, PhaseNames DEF CommandOK
<1>5. QED
  BY <1>4, BecomeType DEF Report

LEMMA BuildType ==
  ASSUME TypeOK, NEW q \in Procs, Build(q)
  PROVE  TypeOK'
<1> SUFFICES FilesOK' /\ CommandsOK'
  BY TypeParts DEF TypeOK, FilesOK, CommandsOK, CommandOK
<1> FilesOK /\ cmd[q] \in CommandType
  BY TypeParts DEF TypeOK
<1> USE SourceNames, PhaseNames DEF At
<1>0. cmd[q].at \in UpperPhases => cmd[q].art \in Artifacts
  BY DEF TypeOK
<1>1. CASE SkipUnprepared(q)
  <2> PICK a \in cmd[q].arts : Become(q, [cmd[q] EXCEPT !.arts = @ \ {a}])
    BY <1>1 DEF SkipUnprepared
  <2> DEFINE c == [cmd[q] EXCEPT !.arts = @ \ {a}]
  <2>1. c \in CommandType /\ c.at = "next_artifact"
    BY <1>1 DEF SkipUnprepared, CommandType
  <2>2. CommandOK(c)
    BY <2>1 DEF CommandOK
  <2>3. QED
    BY <1>1, <2>2, BecomeType DEF SkipUnprepared, FilesOK
<1>2. CASE CheckArtifact(q)
  <2>1. PICK a \in cmd[q].arts :
          /\ \/ QueryDone(ProfileOf[a])
             \/ UNCHANGED root
          /\ LET chosen == [cmd[q] EXCEPT !.arts = @ \ {a}, !.art = a] IN
             \/ Become(q, Raise(chosen))
             \/ Become(q, [chosen EXCEPT !.at = "outfile"])
             \/ Become(q, [chosen EXCEPT !.at = "trash_upper"])
    BY <1>2 DEF CheckArtifact
  <2> DEFINE chosen == [cmd[q] EXCEPT !.arts = @ \ {a}, !.art = a]
  <2>2. chosen \in CommandType /\ chosen.art \in Artifacts
    BY DEF CommandType
  <2>3. CommandsOK'
    BY <2>1, <2>2, RaiseType, MoveType, BecomeType DEF UpperPhases
  <2>4. ProfileOf[a] \in Profiles
    BY <2>2, ConstantsAssumption DEF CommandType
  <2>5. QED
    BY <1>2, <2>1, <2>3, <2>4, QueryType DEF CheckArtifact, FilesOK
<1>3. CASE TrashUpper(q)
  <2>1. CommandsOK'
    BY <1>0, <1>3, GotoType DEF TrashUpper, UpperPhases
  <2>2. QED
    BY <1>3, <2>1, EmptyRecords DEF TrashUpper, FilesOK
<1>4. CASE Copyup(q)
  <2> DEFINE a == cmd[q].art
  <2>1. CommandsOK' /\ a \in Artifacts
    BY <1>0, <1>4, GotoType DEF Copyup, UpperPhases
  <2>2. cmd[q].start[BuildJson(a)].ver \in Nat
    BY <2>1 DEF CommandType
  <2>3. root[ProfileOf[a]].gen \in Nat
    BY <2>1, ConstantsAssumption DEF FilesOK, RootType
  <2>4. clock' \in Nat
    BY <1>4 DEF Copyup, Stamp, FilesOK
  <2>5. [NoUpper EXCEPT !.time = clock', !.gen = root[ProfileOf[a]].gen,
                        !.json = cmd[q].start[BuildJson(a)].ver] \in TreeType
    BY <2>2, <2>3, <2>4 DEF TreeType, NoUpper, NoFile
  <2>6. QED
    BY <1>4, <2>1, <2>4, <2>5 DEF Copyup, FilesOK
<1>5. CASE SyncPackages(q)
  <2>1. CommandsOK'
    BY <1>0, <1>5, GotoType DEF SyncPackages, UpperPhases
  <2>2. QED
    BY <1>5, <2>1 DEF SyncPackages, FilesOK, TreeType
<1>6. CASE SyncArtifact(q)
  <2>1. CommandsOK' /\ cmd[q].art \in Artifacts
    BY <1>0, <1>6, GotoType DEF SyncArtifact, UpperPhases
  <2>2. src[Files(cmd[q].art)].ver \in Nat
    BY <2>1 DEF FilesOK
  <2>3. QED
    BY <1>6, <2>1, <2>2 DEF SyncArtifact, FilesOK, TreeType
<1>7. CASE Finish(q)
  <2>1. CommandsOK'
    BY <1>0, <1>7, GotoType DEF Finish, UpperPhases
  <2>2. QED
    BY <1>7, <2>1 DEF Finish, FilesOK, TreeType
<1>8. CASE CheckOutfile(q)
  BY <1>0, <1>8, GotoType, ReportType DEF CheckOutfile, UpperPhases, FilesOK
<1>9. CASE PackBegin(q)
  <2>1. CommandsOK' /\ cmd[q].art \in Artifacts
    BY <1>0, <1>9, GotoType DEF PackBegin, UpperPhases
  <2>2. clock' \in Nat /\ upper[cmd[q].art] \in TreeType
    BY <1>9, <2>1 DEF PackBegin, Stamp, FilesOK
  <2>3. [time |-> clock', whole |-> FALSE, of |-> cmd[q].art,
         tree |-> upper[cmd[q].art]] \in ImageType
    BY <2>1, <2>2 DEF ImageType
  <2>4. QED
    BY <1>9, <2>1, <2>2, <2>3 DEF PackBegin, FilesOK
<1>10. CASE PackEnd(q)
  <2>1. CommandsOK'
    BY <1>10, ReportType DEF PackEnd, UpperPhases
  <2>2. QED
    BY <1>10, <2>1 DEF PackEnd, FilesOK, ImageType
<1>11. CASE EndCommand(q)
  BY <1>11, IdleType, BecomeType DEF EndCommand, FilesOK
<1>12. QED
  BY <1>1, <1>2, <1>3, <1>4, <1>5, <1>6, <1>7, <1>8, <1>9, <1>10, <1>11 DEF Build
-----------------------------------------------------------------------------
(* Commands given, steps that fail, and what the user does.                *)
LEMMA StartType ==
  ASSUME TypeOK, NEW q \in Procs, StartSome(q)
  PROVE  TypeOK'
<1> PICK kind \in Kinds, keep \in BOOLEAN, A \in SUBSET Jobs[q] \ {{}} :
      Start(q, kind, keep, A)
  BY DEF StartSome
<1> DEFINE c == [Idle EXCEPT !.at = "next_profile", !.kind = kind, !.keep = keep,
                   !.todo = {ProfileOf[a] : a \in A},
                   !.arts = IF kind = "build" THEN A ELSE {},
                   !.start = src]
<1>1. A \subseteq Artifacts /\ {ProfileOf[a] : a \in A} \subseteq Profiles
  BY ConstantsAssumption
<1>2. src \in [Sources -> [ver : Nat, mtime : Nat]]
  BY DEF TypeOK
<1>3. Idle \in CommandType
  BY IdleType DEF CommandOK
<1>4. c \in CommandType /\ c.at = "next_profile"
  <2>1. "next_profile" \in Phases /\ (IF kind = "build" THEN A ELSE {}) \in SUBSET Artifacts
    BY <1>1, PhaseNames
  <2>2. QED
    BY <1>1, <1>2, <1>3, <2>1 DEF CommandType
<1>5. CommandOK(c)
  BY <1>4, PhaseNames DEF CommandOK
<1>6. CommandsOK'
  BY <1>5, BecomeType DEF Start
<1>7. FilesOK'
  BY TypeParts DEF Start, FilesOK
<1>8. QED
  BY <1>6, <1>7, TypeParts DEF TypeOK, FilesOK, CommandsOK, CommandOK

LEMMA MishapType ==
  ASSUME TypeOK, NEW q \in Procs, Mishap(q)
  PROVE  TypeOK'
<1>1. CommandsOK'
  BY IdleType, RaiseType, BecomeType DEF Mishap, TypeOK
<1>2. FilesOK'
  BY ConstantsAssumption, TypeParts DEF Mishap, FilesOK
<1>3. QED
  BY <1>1, <1>2, TypeParts DEF TypeOK, FilesOK, CommandsOK, CommandOK

LEMMA UserType ==
  ASSUME TypeOK, (\E q \in Procs : Run(q)) \/ Clean \/ Edit \/ Remove
  PROVE  TypeOK'
<1> FilesOK
  BY TypeParts
<1>1. CommandsOK'
  BY UnchangedType DEF Run, Clean, Edit, Remove
<1>2. CASE \E q \in Procs : Run(q)
  <2> PICK q \in Procs : Run(q)
    BY <1>2
  <2> PICK a \in Jobs[q] :
        /\ QueryDone(ProfileOf[a])
        /\ \/ upper' = [upper EXCEPT ![a].booted = TRUE]
           \/ UNCHANGED upper
    BY DEF Run
  <2>1. ProfileOf[a] \in Profiles
    BY ConstantsAssumption
  <2>2. \A b \in Artifacts : [upper[b] EXCEPT !.booted = TRUE] \in TreeType
    BY DEF FilesOK, TreeType
  <2>3. upper' \in [Artifacts -> TreeType]
    BY <2>2 DEF FilesOK
  <2>4. FilesOK'
    BY <2>1, <2>3, QueryType DEF Run, FilesOK
  <2>5. QED
    BY <1>1, <2>4, TypeParts DEF TypeOK, FilesOK, CommandsOK, CommandOK
<1>3. CASE Clean
  <2>1. FilesOK'
    BY <1>3, EmptyRecords DEF Clean, FilesOK
  <2>2. QED
    BY <1>1, <2>1, TypeParts DEF TypeOK, FilesOK, CommandsOK, CommandOK
<1>4. CASE Edit
  <2> PICK s \in Sources :
        src' = [src EXCEPT ![s] = [ver |-> src[s].ver + 1, mtime |-> clock']]
    BY <1>4, ConstantsAssumption DEF Edit
  <2>1. FilesOK'
    BY <1>4 DEF Edit, Stamp, FilesOK
  <2>2. QED
    BY <1>1, <2>1, TypeParts DEF TypeOK, FilesOK, CommandsOK, CommandOK
<1>5. CASE Remove
  <2> PICK s \in Sources : src' = [src EXCEPT ![s].ver = @ + 1]
    BY <1>5, ConstantsAssumption DEF Remove
  <2>1. \A t \in Sources : [src[t] EXCEPT !.ver = @ + 1] \in [ver : Nat, mtime : Nat]
    BY DEF FilesOK
  <2>2. FilesOK'
    BY <1>5, <2>1 DEF Remove, FilesOK
  <2>3. QED
    BY <1>1, <2>2, TypeParts DEF TypeOK, FilesOK, CommandsOK, CommandOK
<1>6. QED
  BY <1>2, <1>3, <1>4, <1>5

(* Type correctness: every reachable state is well typed; in particular a  *)
(* command that is working on a root or an upper directory has one.        *)
THEOREM TypeCorrect == Spec => []TypeOK
<1>1. TypeOK /\ [Next]_vars => TypeOK'
  <2> SUFFICES ASSUME TypeOK, [Next]_vars
               PROVE  TypeOK'
    OBVIOUS
  <2>1. CASE \E q \in Procs : Prepare(q) \/ Build(q) \/ StartSome(q) \/ Mishap(q)
    BY <2>1, PrepareType, BuildType, StartType, MishapType
  <2>2. CASE (\E q \in Procs : Run(q)) \/ Clean \/ Edit \/ Remove
    BY <2>2, UserType
  <2>3. CASE UNCHANGED vars
    BY <2>3 DEF vars, TypeOK
  <2>4. QED
    BY <2>1, <2>2, <2>3 DEF Next, Rest
<1>2. QED
  BY <1>1, InitType, PTL DEF Spec
-----------------------------------------------------------------------------
(* Part 2: the prepared roots.                                             *)
(*                                                                         *)
(* The strengthening of PreparedRootIsClean.  gen is cleared whenever the  *)
(* package database is touched, and that touch is later than any .done; no *)
(* timestamp is ahead of the clock, so the next .done is later again.      *)
CleanRoot(r, now) ==
  /\ r.done <= now /\ r.pkgdb <= now
  /\ r.gen = 0 => r.done = NoFile \/ r.done < r.pkgdb
  /\ r.gen # 0 => r.done \in {NoFile, r.gen}
RootInv == \A p \in Profiles : CleanRoot(root[p], clock)

LEMMA RootInvSuffices == TypeOK /\ RootInv => PreparedRootIsClean
BY DEF TypeOK, RootType, RootInv, CleanRoot, PreparedRootIsClean, DoneTime, DoneIsStale, NoFile

LEMMA QueryClean ==
  ASSUME TypeOK, RootInv, NEW p \in Profiles, QueryDone(p), UNCHANGED clock
  PROVE  RootInv'
BY DEF TypeOK, RootType, RootInv, CleanRoot, QueryDone, DoneTime, DoneIsStale, NoFile

LEMMA ContainerClean ==
  ASSUME TypeOK, RootInv, NEW q \in Procs, InContainer(q)
  PROVE  RootInv'
<1>1. CASE UNCHANGED <<clock, root>>
  BY <1>1 DEF RootInv, CleanRoot
<1>2. CASE TouchPackages(cmd[q].prof)
  <2>1. clock' = clock + 1 /\ clock \in Nat
    BY <1>2 DEF TouchPackages, Stamp, TypeOK
  <2>2. \A p \in Profiles :
          /\ root[p] \in RootType
          /\ \/ root'[p] = root[p]
             \/ root'[p].done = root[p].done /\ root'[p].pkgdb = clock' /\ root'[p].gen = 0
    BY <1>2 DEF TouchPackages, TypeOK, RootType
  <2>3. QED
    BY <2>1, <2>2 DEF RootType, RootInv, CleanRoot, NoFile
<1>3. QED
  BY <1>1, <1>2 DEF InContainer

LEMMA LaterClean ==
  ASSUME TypeOK, RootInv, UNCHANGED root, clock' \in {clock, clock + 1}
  PROVE  RootInv'
BY DEF TypeOK, RootType, RootInv, CleanRoot

(* The steps that fetch a tree.                                            *)
Refetched(t) ==
  /\ clock' \in {clock, clock + 1}
  /\ \A s \in Sources \ {t} : src'[s] = src[s]
  /\ \/ src'[t] = src[t]
     \/ /\ src'[t].ver = src[t].ver + 1
        /\ \/ src'[t].mtime = src[t].mtime \/ src'[t].mtime = clock'
           \/ src[t].mtime < src'[t].mtime /\ src'[t].mtime <= clock'

LEMMA TreesMove ==
  ASSUME TypeOK, NEW q \in Procs
  PROVE  /\ SyncPortage(q) => Refetched(Portage)
         /\ Link(q) => Refetched(Overlay)
<1>1. ASSUME SyncPortage(q) PROVE Refetched(Portage)
  <2>1. CASE UNCHANGED <<clock, src>>
    BY <2>1 DEF Refetched
  <2>2. CASE ~UNCHANGED <<clock, src>>
    <3>1. PICK t \in src[Portage].mtime + 1 .. clock + 1 :
            /\ clock' = Later(clock, t)
            /\ src' = [src EXCEPT ![Portage] = [ver |-> src[Portage].ver + 1, mtime |-> t]]
      BY <1>1, <2>2 DEF SyncPortage
    <3>2. src[Portage].mtime \in Nat /\ clock \in Nat /\ t \in Nat
      BY SourceNames DEF TypeOK
    <3>3. clock' \in {clock, clock + 1} /\ src[Portage].mtime < t /\ t <= clock'
      BY <3>1, <3>2 DEF Later
    <3>4. /\ src'[Portage].ver = src[Portage].ver + 1 /\ src'[Portage].mtime = t
          /\ \A s \in Sources \ {Portage} : src'[s] = src[s]
      BY <3>1, SourceNames DEF TypeOK
    <3>5. QED
      BY <3>3, <3>4 DEF Refetched
  <2>3. QED
    BY <2>1, <2>2
<1>2. ASSUME Link(q) PROVE Refetched(Overlay)
  <2>1. CASE UNCHANGED <<clock, src>>
    BY <2>1 DEF Refetched
  <2>2. CASE Stamp /\ src' = [src EXCEPT ![Overlay] = [ver |-> src[Overlay].ver + 1, mtime |-> clock']]
    BY <2>2, SourceNames DEF Stamp, TypeOK, Refetched
  <2>3. CASE UNCHANGED clock /\ src' = [src EXCEPT ![Overlay].ver = @ + 1]
    BY <2>3, SourceNames DEF TypeOK, Refetched
  <2>4. QED
    BY <1>2, <2>1, <2>2, <2>3 DEF Link
<1>3. QED
  BY <1>1, <1>2

LEMMA PrepareClean ==
  ASSUME TypeOK, RootInv, NEW q \in Procs, Prepare(q)
  PROVE  RootInv'
<1>0. cmd[q].at \in RootPhases => cmd[q].prof \in Profiles
  BY DEF TypeOK
<1>1. CASE BeginProfile(q) \/ SyncPortage(q) \/ KeepStage3(q) \/ Link(q) \/ ToArtifacts(q)
  <2>1. UNCHANGED root /\ clock' \in {clock, clock + 1}
    BY <1>1, TreesMove DEF BeginProfile, SyncPortage, KeepStage3, Link, ToArtifacts, Refetched
  <2>2. QED
    BY <2>1, LaterClean
<1>2. CASE TrashRoot(q)
  BY <1>2 DEF TrashRoot, NoRoot, NoFile, TypeOK, RootType, RootInv, CleanRoot
<1>3. CASE Untar(q)
  BY <1>3 DEF Untar, TypeOK, RootType, RootInv, CleanRoot
<1>4. CASE Decide(q) \/ Verify(q)
  BY <1>0, <1>4, QueryClean DEF Decide, Verify, At, RootPhases
<1>5. CASE Emerge(q) \/ GenpackPrepare(q) \/ Shell(q)
  BY <1>5, ContainerClean DEF Emerge, GenpackPrepare, Shell
<1>6. CASE WriteDone(q)
  <2>1. clock' = clock + 1 /\ clock \in Nat
    BY <1>6 DEF WriteDone, Stamp, TypeOK
  <2>2. \A p \in Profiles :
          /\ root[p] \in RootType
          /\ root'[p].pkgdb = root[p].pkgdb
          /\ \/ root'[p] = root[p]
             \/ root'[p].done = clock' /\ root'[p].gen = clock'
    BY <1>6 DEF WriteDone, TypeOK, RootType
  <2>3. QED
    BY <2>1, <2>2 DEF RootType, RootInv, CleanRoot, NoFile
<1>7. QED
  BY <1>1, <1>2, <1>3, <1>4, <1>5, <1>6 DEF Prepare

LEMMA BuildClean ==
  ASSUME TypeOK, RootInv, NEW q \in Procs, Build(q)
  PROVE  RootInv'
<1>1. CASE CheckArtifact(q)
  <2>1. PICK a \in cmd[q].arts : QueryDone(ProfileOf[a]) \/ UNCHANGED root
    BY <1>1 DEF CheckArtifact
  <2>2. ProfileOf[a] \in Profiles
    BY ConstantsAssumption DEF TypeOK, CommandType
  <2>3. QED
    BY <1>1, <2>1, <2>2, QueryClean, LaterClean DEF CheckArtifact
<1>2. CASE ~CheckArtifact(q)
  BY <1>2, LaterClean DEF Build, SkipUnprepared, TrashUpper, Copyup, SyncPackages,
     SyncArtifact, Finish, CheckOutfile, PackBegin, PackEnd, EndCommand, Stamp
<1>3. QED
  BY <1>1, <1>2

LEMMA OtherClean ==
  ASSUME TypeOK, RootInv,
         (\E q \in Procs : StartSome(q) \/ Mishap(q) \/ Run(q)) \/ Clean \/ Edit \/ Remove
  PROVE  RootInv'
<1>1. CASE \E q \in Procs : Run(q)
  <2> PICK q \in Procs : Run(q)
    BY <1>1
  <2>1. PICK a \in Jobs[q] : QueryDone(ProfileOf[a])
    BY DEF Run
  <2>2. ProfileOf[a] \in Profiles
    BY ConstantsAssumption
  <2>3. QED
    BY <2>1, <2>2, QueryClean DEF Run
<1>2. CASE Clean
  BY <1>2 DEF Clean, NoRoot, NoFile, TypeOK, RootInv, CleanRoot
<1>3. CASE (\E q \in Procs : StartSome(q) \/ Mishap(q)) \/ Edit \/ Remove
  BY <1>3, LaterClean DEF StartSome, Start, Mishap, Edit, Remove, Stamp
<1>4. QED
  BY <1>1, <1>2, <1>3

LEMMA RootStep == TypeOK /\ RootInv /\ [Next]_vars => RootInv'
<1> SUFFICES ASSUME TypeOK, RootInv, [Next]_vars
             PROVE  RootInv'
  OBVIOUS
<1>1. CASE \E q \in Procs : Prepare(q) \/ Build(q)
  BY <1>1, PrepareClean, BuildClean
<1>2. CASE (\E q \in Procs : StartSome(q) \/ Mishap(q) \/ Run(q)) \/ Clean \/ Edit \/ Remove
  BY <1>2, OtherClean
<1>3. CASE UNCHANGED vars
  BY <1>3, LaterClean DEF vars
<1>4. QED
  BY <1>1, <1>2, <1>3 DEF Next, Rest

(* A root is reused only when it is exactly what genpack-prepare left.     *)
THEOREM RootsAreClean == Spec => []PreparedRootIsClean
<1>1. Init => RootInv
  BY DEF Init, RootInv, CleanRoot, NoRoot, NoFile
<1>2. QED
  BY <1>1, RootStep, TypeCorrect, RootInvSuffices, PTL DEF Spec
-----------------------------------------------------------------------------
(* Part 3: every build copies out of a prepared root.                      *)
(*                                                                         *)
(* Scope: a command works on the profiles of its own process, and on each  *)
(* of them once: the one it is preparing is neither still to do nor        *)
(* prepared.  Ready: nobody touches a prepared root afterwards.            *)
Scope(q, c) ==
  /\ c.todo \subseteq JobProfiles(q) /\ c.prepared \subseteq JobProfiles(q)
  /\ c.arts \subseteq Jobs[q]
  /\ c.todo \cap c.prepared = {}
  /\ c.at \in RootPhases => c.prof \in JobProfiles(q) \ (c.todo \cup c.prepared)
  /\ c.at \in UpperPhases => c.art \in Jobs[q] /\ ProfileOf[c.art] \in c.prepared
  /\ c.at = "idle" => c.prepared = {}
ScopeInv == \A q \in Procs : Scope(q, cmd[q])
ReadyInv == \A q \in Procs : \A p \in cmd[q].prepared : root[p].gen # 0

LEMMA IdleScope == ASSUME NEW q \in Procs PROVE Scope(q, Idle)
BY PhaseNames DEF Scope, Idle

LEMMA MoveScope ==
  ASSUME NEW q \in Procs, NEW c \in CommandType, NEW phase \in Phases \ {"idle"},
         Scope(q, c),
         phase \in RootPhases => c.at \in RootPhases,
         phase \in UpperPhases => c.at \in UpperPhases
  PROVE  Scope(q, [c EXCEPT !.at = phase])
BY DEF Scope, CommandType

LEMMA RaiseScope ==
  ASSUME NEW q \in Procs, NEW c \in CommandType, c.todo \subseteq JobProfiles(q),
         c.prepared \subseteq JobProfiles(q), c.arts \subseteq Jobs[q],
         c.todo \cap c.prepared = {}
  PROVE  Scope(q, Raise(c)) /\ Raise(c).prepared \subseteq c.prepared
<1>1. CASE ~c.keep
  BY <1>1, IdleScope DEF Raise, Idle
<1>2. CASE c.keep
  <2>1. /\ Raise(c).todo = c.todo /\ Raise(c).prepared = c.prepared
        /\ Raise(c).arts = c.arts
        /\ Raise(c).at \in {"next_profile", "next_artifact"}
    BY <1>2 DEF Raise, CommandType
  <2>2. QED
    BY <2>1, PhaseNames DEF Scope
<1>3. QED
  BY <1>1, <1>2

LEMMA BecomeScope ==
  ASSUME TypeOK, ScopeInv, NEW q \in Procs, NEW c, Scope(q, c), Become(q, c)
  PROVE  ScopeInv' /\ cmd'[q] = c /\ \A r \in Procs \ {q} : cmd'[r] = cmd[r]
BY DEF TypeOK, ScopeInv, Scope, Become, JobProfiles

(* A root is touched only by the process that is preparing it.             *)
LEMMA PrepareTouches ==
  ASSUME TypeOK, NEW q \in Procs, Prepare(q),
         NEW p \in Profiles, root[p].gen # 0, root'[p].gen = 0
  PROVE  cmd[q].at \in RootPhases /\ p = cmd[q].prof
<1> cmd[q].at \in RootPhases => cmd[q].prof \in Profiles
  BY DEF TypeOK
<1>1. CASE TrashRoot(q)
  BY <1>1 DEF TrashRoot, At, RootPhases, TypeOK
<1>2. CASE Emerge(q) \/ GenpackPrepare(q) \/ Shell(q)
  BY <1>2 DEF Emerge, GenpackPrepare, Shell, InContainer, TouchPackages, At, RootPhases,
     TypeOK, RootType
<1>3. CASE WriteDone(q)
  BY <1>3 DEF WriteDone, Stamp, At, RootPhases, TypeOK, RootType
<1>4. CASE Untar(q) \/ Decide(q) \/ Verify(q)
  BY <1>4 DEF Untar, Decide, Verify, QueryDone, TypeOK, RootType
<1>5. CASE BeginProfile(q) \/ SyncPortage(q) \/ KeepStage3(q) \/ Link(q) \/ ToArtifacts(q)
  BY <1>5 DEF BeginProfile, SyncPortage, KeepStage3, Link, ToArtifacts
<1>6. QED
  BY <1>1, <1>2, <1>3, <1>4, <1>5 DEF Prepare

(* What a step of process q keeps: the scopes, and that a profile it newly *)
(* counts as prepared has a clean root.                                    *)
KeepsScope(q) ==
  /\ ScopeInv'
  /\ \A r \in Procs \ {q} : cmd'[r].prepared = cmd[r].prepared
  /\ \A p \in cmd'[q].prepared : p \in cmd[q].prepared \/ root'[p].gen # 0

LEMMA StayScope ==
  ASSUME TypeOK, ScopeInv, NEW q \in Procs, NEW c, Scope(q, c), Become(q, c),
         c.prepared \subseteq cmd[q].prepared
  PROVE  KeepsScope(q)
BY BecomeScope DEF KeepsScope

LEMMA GotoScope ==
  ASSUME TypeOK, ScopeInv, NEW q \in Procs, NEW phase \in Phases \ {"idle"},
         Goto(q, phase),
         phase \in RootPhases => cmd[q].at \in RootPhases,
         phase \in UpperPhases => cmd[q].at \in UpperPhases
  PROVE  KeepsScope(q)
<1> DEFINE c == [cmd[q] EXCEPT !.at = phase]
<1>1. cmd[q] \in CommandType /\ Scope(q, cmd[q])
  BY DEF TypeOK, ScopeInv
<1>2. Scope(q, c) /\ c.prepared \subseteq cmd[q].prepared
  BY <1>1, MoveScope DEF CommandType
<1>3. Become(q, c)
  BY DEF Goto
<1> HIDE DEF c
<1>4. QED
  BY <1>2, <1>3, StayScope

LEMMA RaiseKeepsScope ==
  ASSUME TypeOK, ScopeInv, NEW q \in Procs, Become(q, Raise(cmd[q]))
  PROVE  KeepsScope(q)
<1> DEFINE c == Raise(cmd[q])
<1>1. Scope(q, c) /\ c.prepared \subseteq cmd[q].prepared
  BY RaiseScope DEF TypeOK, ScopeInv, Scope
<1> HIDE DEF c
<1>2. QED
  BY <1>1, StayScope DEF c

LEMMA IdleKeepsScope ==
  ASSUME TypeOK, ScopeInv, NEW q \in Procs, Become(q, Idle)
  PROVE  KeepsScope(q)
<1>1. Scope(q, Idle) /\ Idle.prepared \subseteq cmd[q].prepared
  BY IdleScope DEF Idle
<1>2. QED
  BY <1>1, StayScope

(* prepare() calls a profile ready only when its root is clean.            *)
LEMMA ReadyScope ==
  ASSUME TypeOK, RootInv, ScopeInv, NEW q \in Procs, cmd[q].at \in RootPhases,
         ProfileReady(q), QueryDone(cmd[q].prof), DoneTime(root[cmd[q].prof]) # NoFile
  PROVE  KeepsScope(q)
<1> DEFINE p == cmd[q].prof
           c == [cmd[q] EXCEPT !.at = "next_profile", !.prof = None,
                               !.prepared = @ \cup {p}]
<1>1. cmd[q] \in CommandType /\ p \in Profiles /\ Scope(q, cmd[q])
  BY DEF TypeOK, ScopeInv
<1>2. c.at = "next_profile" /\ c.prepared = cmd[q].prepared \cup {p}
      /\ c.todo = cmd[q].todo /\ c.arts = cmd[q].arts
  BY <1>1 DEF CommandType
<1>3. Scope(q, c)
  BY <1>1, <1>2, PhaseNames DEF Scope
<1>4. Become(q, c)
  BY DEF ProfileReady
<1>5. root[p].gen # 0 /\ root'[p].gen = root[p].gen
  BY <1>1 DEF TypeOK, RootType, RootInv, CleanRoot, QueryDone, DoneTime, DoneIsStale, NoFile
<1> HIDE DEF c
<1>6. QED
  BY <1>2, <1>3, <1>4, <1>5, BecomeScope DEF KeepsScope

LEMMA PrepareScope ==
  ASSUME TypeOK, RootInv, ScopeInv, NEW q \in Procs, Prepare(q)
  PROVE  KeepsScope(q)
<1>0. cmd[q] \in CommandType /\ Scope(q, cmd[q])
  BY DEF TypeOK, ScopeInv
<1> USE PhaseNames DEF At
<1>1. CASE BeginProfile(q)
  <2> PICK p \in cmd[q].todo :
        Become(q, [cmd[q] EXCEPT !.at = IF cmd[q].fetched THEN "stage3" ELSE "portage",
                                 !.fetched = TRUE, !.prof = p, !.todo = @ \ {p}])
    BY <1>1 DEF BeginProfile
  <2> DEFINE c == [cmd[q] EXCEPT !.at = IF cmd[q].fetched THEN "stage3" ELSE "portage",
                               !.fetched = TRUE, !.prof = p, !.todo = @ \ {p}]
  <2>1. c.at \in {"stage3", "portage"} /\ c.prof = p /\ c.todo = cmd[q].todo \ {p}
        /\ c.prepared = cmd[q].prepared /\ c.arts = cmd[q].arts
    BY <1>0 DEF CommandType
  <2>2. Scope(q, c)
    BY <1>0, <2>1 DEF Scope, RootPhases, UpperPhases
  <2>3. Become(q, c)
    OBVIOUS
  <2> HIDE DEF c
  <2>4. QED
    BY <2>1, <2>2, <2>3, StayScope
<1>2. CASE SyncPortage(q) \/ KeepStage3(q) \/ TrashRoot(q) \/ Untar(q) \/ Emerge(q)
           \/ GenpackPrepare(q) \/ WriteDone(q) \/ ToArtifacts(q)
  <2> PICK phase \in {"stage3", "link", "untar", "genpack_prepare", "write_done", "verify",
                      "next_artifact"} :
        /\ Goto(q, phase)
        /\ phase # "next_artifact" => cmd[q].at \in RootPhases
    BY <1>2 DEF SyncPortage, KeepStage3, TrashRoot, Untar, Emerge, GenpackPrepare, WriteDone,
       ToArtifacts, At, RootPhases
  <2>1. phase \in Phases \ {"idle"} /\ phase \notin UpperPhases
    BY DEF Phases, PreparePhases, ArtifactPhases, RootPhases, UpperPhases
  <2>2. QED
    BY <2>1, GotoScope
<1>3. CASE Link(q)
  <2> DEFINE dir == ProfileDir(cmd[q].prof)
             c == [cmd[q] EXCEPT !.at = "decide", !.pulled = TRUE,
                     !.scan = [prof |-> src[dir].ver, trees |-> [t \in Trees |-> src'[t].ver]],
                     !.newest = Later(src[dir].mtime,
                       Later(src'[Portage].mtime, src'[Overlay].mtime))]
  <2>1. c.at = "decide" /\ c.prof = cmd[q].prof /\ c.todo = cmd[q].todo
        /\ c.prepared = cmd[q].prepared /\ c.arts = cmd[q].arts
    BY <1>0 DEF CommandType
  <2>2. Scope(q, c)
    BY <1>0, <1>3, <2>1 DEF Link, Scope, RootPhases, UpperPhases
  <2>3. Become(q, c)
    BY <1>3 DEF Link
  <2> HIDE DEF c
  <2>4. QED
    BY <2>1, <2>2, <2>3, StayScope
<1>4. CASE Decide(q)
  <2>1. cmd[q].at \in RootPhases /\ {"shell", "emerge"} \subseteq RootPhases
    BY <1>4 DEF Decide, RootPhases
  <2>2. CASE Goto(q, "shell") \/ Goto(q, "emerge")
    BY <2>1, <2>2, GotoScope
  <2>3. CASE ProfileReady(q) /\ DoneTime(root[cmd[q].prof]) # NoFile
    BY <1>4, <2>1, <2>3, ReadyScope DEF Decide
  <2>4. QED
    BY <1>4, <2>2, <2>3 DEF Decide
<1>5. CASE Verify(q)
  BY <1>5, RaiseKeepsScope, ReadyScope DEF Verify, RootPhases
<1>6. CASE Shell(q)
  BY <1>6, IdleKeepsScope DEF Shell
<1>7. QED
  BY <1>1, <1>2, <1>3, <1>4, <1>5, <1>6 DEF Prepare

LEMMA BuildScope ==
  ASSUME TypeOK, ScopeInv, NEW q \in Procs, Build(q)
  PROVE  KeepsScope(q)
<1>0. cmd[q] \in CommandType /\ Scope(q, cmd[q])
  BY DEF TypeOK, ScopeInv
<1> USE PhaseNames DEF At
<1>1. CASE SkipUnprepared(q)
  <2> PICK a \in cmd[q].arts : Become(q, [cmd[q] EXCEPT !.arts = @ \ {a}])
    BY <1>1 DEF SkipUnprepared
  <2> DEFINE c == [cmd[q] EXCEPT !.arts = @ \ {a}]
  <2>1. c.at = "next_artifact" /\ c.todo = cmd[q].todo /\ c.prepared = cmd[q].prepared
        /\ c.arts = cmd[q].arts \ {a}
    BY <1>0, <1>1 DEF SkipUnprepared, CommandType
  <2>2. Scope(q, c)
    BY <1>0, <2>1 DEF Scope
  <2>3. Become(q, c)
    OBVIOUS
  <2> HIDE DEF c
  <2>4. QED
    BY <2>1, <2>2, <2>3, StayScope
<1>2. CASE CheckArtifact(q)
  <2>1. PICK a \in cmd[q].arts :
          /\ ProfileOf[a] \in cmd[q].prepared
          /\ LET chosen == [cmd[q] EXCEPT !.arts = @ \ {a}, !.art = a] IN
             \/ Become(q, Raise(chosen))
             \/ Become(q, [chosen EXCEPT !.at = "outfile"])
             \/ Become(q, [chosen EXCEPT !.at = "trash_upper"])
    BY <1>2 DEF CheckArtifact
  <2> DEFINE chosen == [cmd[q] EXCEPT !.arts = @ \ {a}, !.art = a]
  <2>2. /\ chosen \in CommandType
        /\ chosen.todo = cmd[q].todo /\ chosen.prepared = cmd[q].prepared
        /\ chosen.arts \subseteq cmd[q].arts /\ chosen.art = a
    BY <1>0 DEF CommandType
  <2>3. \A phase \in {"outfile", "trash_upper"} :
          LET c == [chosen EXCEPT !.at = phase] IN
          /\ c.at = phase /\ c.todo = chosen.todo /\ c.prepared = chosen.prepared
          /\ c.arts = chosen.arts /\ c.art = chosen.art
    BY <2>2 DEF CommandType
  <2>4. \/ Become(q, Raise(chosen))
        \/ \E phase \in {"outfile", "trash_upper"} : Become(q, [chosen EXCEPT !.at = phase])
    BY <2>1
  <2> HIDE DEF chosen
  <2>5. \A phase \in {"outfile", "trash_upper"} :
          Scope(q, [chosen EXCEPT !.at = phase])
    BY <1>0, <2>1, <2>2, <2>3 DEF Scope, RootPhases, UpperPhases
  <2>6. Scope(q, Raise(chosen)) /\ Raise(chosen).prepared \subseteq cmd[q].prepared
    BY <1>0, <2>2, RaiseScope DEF Scope
  <2>7. QED
    BY <2>2, <2>3, <2>4, <2>5, <2>6, StayScope
<1>3. CASE \/ TrashUpper(q) \/ Copyup(q) \/ SyncPackages(q) \/ SyncArtifact(q) \/ Finish(q)
           \/ PackBegin(q)
  <2> PICK phase \in {"copyup", "sync_packages", "sync_artifact", "finish", "outfile",
                      "packing"} :
        Goto(q, phase) /\ cmd[q].at \in UpperPhases
    BY <1>3 DEF TrashUpper, Copyup, SyncPackages, SyncArtifact, Finish, PackBegin, UpperPhases
  <2>1. phase \in Phases \ {"idle"} /\ phase \notin RootPhases
    BY DEF Phases, PreparePhases, ArtifactPhases, RootPhases, UpperPhases
  <2>2. QED
    BY <2>1, GotoScope
<1>4. ASSUME Report(q)
      PROVE  KeepsScope(q)
  <2> DEFINE c == [cmd[q] EXCEPT !.at = "next_artifact", !.art = None,
                                 !.reported = @ \cup {cmd[q].art}]
  <2>1. c.at = "next_artifact" /\ c.todo = cmd[q].todo /\ c.prepared = cmd[q].prepared
        /\ c.arts = cmd[q].arts
    BY <1>0 DEF CommandType
  <2>2. Scope(q, c)
    BY <1>0, <2>1 DEF Scope
  <2>3. Become(q, c)
    BY <1>4 DEF Report
  <2> HIDE DEF c
  <2>4. QED
    BY <2>1, <2>2, <2>3, StayScope
<1>5. CASE CheckOutfile(q)
  <2>1. "pack" \in (Phases \ {"idle"}) \ RootPhases /\ cmd[q].at \in UpperPhases
    BY <1>5 DEF CheckOutfile, Phases, PreparePhases, ArtifactPhases, RootPhases, UpperPhases
  <2>2. QED
    BY <1>4, <1>5, <2>1, GotoScope DEF CheckOutfile
<1>6. CASE PackEnd(q)
  BY <1>4, <1>6 DEF PackEnd
<1>7. CASE EndCommand(q)
  BY <1>7, IdleKeepsScope DEF EndCommand
<1>8. QED
  BY <1>1, <1>2, <1>3, <1>5, <1>6, <1>7 DEF Build

LEMMA StartScope ==
  ASSUME TypeOK, ScopeInv, NEW q \in Procs, StartSome(q)
  PROVE  KeepsScope(q)
<1> PICK kind \in Kinds, keep \in BOOLEAN, A \in SUBSET Jobs[q] \ {{}} :
      Start(q, kind, keep, A)
  BY DEF StartSome
<1> DEFINE c == [Idle EXCEPT !.at = "next_profile", !.kind = kind, !.keep = keep,
                   !.todo = {ProfileOf[a] : a \in A},
                   !.arts = IF kind = "build" THEN A ELSE {},
                   !.start = src]
<1>1. c.at = "next_profile" /\ c.todo = {ProfileOf[a] : a \in A} /\ c.prepared = {}
      /\ c.arts \subseteq A
  BY DEF Idle
<1>2. Scope(q, c)
  BY <1>1, PhaseNames DEF Scope, JobProfiles
<1>3. Become(q, c)
  BY DEF Start
<1> HIDE DEF c
<1>4. QED
  BY <1>1, <1>2, <1>3, StayScope

(* Steps of one process leave the prepared roots of all processes alone.   *)
LEMMA StepReady ==
  ASSUME TypeOK, ScopeInv, ReadyInv, NEW q \in Procs, KeepsScope(q),
         \A p \in Profiles : root[p].gen # 0 /\ root'[p].gen = 0 =>
           cmd[q].at \in RootPhases /\ p = cmd[q].prof
  PROVE  ReadyInv'
<1> SUFFICES ASSUME NEW r \in Procs, NEW p \in cmd'[r].prepared
             PROVE  root'[p].gen # 0
  BY DEF ReadyInv
<1>1. CASE p \notin cmd[r].prepared
  BY <1>1 DEF KeepsScope
<1>2. CASE p \in cmd[r].prepared
  <2>1. root[p].gen # 0 /\ p \in Profiles
    BY <1>2 DEF ReadyInv, TypeOK, CommandType
  <2>2. p \in JobProfiles(r)
    BY <1>2 DEF ScopeInv, Scope
  <2>3. cmd[q].at \in RootPhases => cmd[q].prof \in JobProfiles(q) \ cmd[q].prepared
    BY DEF ScopeInv, Scope
  <2>4. p = cmd[q].prof /\ cmd[q].at \in RootPhases => FALSE
    BY <1>2, <2>2, <2>3, DisjointProfiles
  <2>5. QED
    BY <2>1, <2>4
<1>3. QED
  BY <1>1, <1>2

LEMMA QueryKeepsGen ==
  ASSUME TypeOK, NEW p \in Profiles, QueryDone(p), NEW r \in Profiles
  PROVE  root'[r].gen = root[r].gen
BY DEF TypeOK, RootType, QueryDone

LEMMA BuildKeepsGen ==
  ASSUME TypeOK, NEW q \in Procs, Build(q) \/ StartSome(q) \/ Mishap(q) \/ Run(q),
         NEW p \in Profiles
  PROVE  root'[p].gen = root[p].gen
<1>1. CASE CheckArtifact(q)
  <2>1. PICK a \in cmd[q].arts : QueryDone(ProfileOf[a]) \/ UNCHANGED root
    BY <1>1 DEF CheckArtifact
  <2>2. ProfileOf[a] \in Profiles
    BY ConstantsAssumption DEF TypeOK, CommandType
  <2>3. QED
    BY <2>1, <2>2, QueryKeepsGen
<1>2. CASE Run(q)
  <2>1. PICK a \in Jobs[q] : QueryDone(ProfileOf[a])
    BY <1>2 DEF Run
  <2>2. ProfileOf[a] \in Profiles
    BY ConstantsAssumption
  <2>3. QED
    BY <2>1, <2>2, QueryKeepsGen
<1>3. CASE ~CheckArtifact(q) /\ ~Run(q)
  BY <1>3 DEF Build, SkipUnprepared, TrashUpper, Copyup, SyncPackages, SyncArtifact, Finish,
     CheckOutfile, PackBegin, PackEnd, EndCommand, StartSome, Start, Mishap
<1>4. QED
  BY <1>1, <1>2, <1>3

(* What a step of the system keeps of the commands and their roots.        *)
LEMMA CommandsStep ==
  ASSUME TypeOK, RootInv, ScopeInv, ReadyInv, [Next]_vars
  PROVE  ScopeInv' /\ ReadyInv'
<1>1. CASE \E q \in Procs : Prepare(q)
  BY <1>1, PrepareScope, PrepareTouches, StepReady DEF KeepsScope
<1>2. CASE \E q \in Procs : Build(q) \/ StartSome(q)
  BY <1>2, BuildScope, StartScope, BuildKeepsGen, StepReady DEF KeepsScope
<1>3. CASE \E q \in Procs : Mishap(q)
  <2> PICK q \in Procs : Mishap(q)
    BY <1>3
  <2>1. KeepsScope(q)
    BY RaiseKeepsScope, IdleKeepsScope DEF Mishap
  <2>2. QED
    BY <2>1, BuildKeepsGen, StepReady DEF KeepsScope
<1>4. CASE \E q \in Procs : Run(q)
  <2> PICK q \in Procs : Run(q)
    BY <1>4
  <2>1. UNCHANGED cmd /\ \A p \in Profiles : root'[p].gen = root[p].gen
    BY BuildKeepsGen DEF Run
  <2>2. QED
    BY <2>1 DEF ScopeInv, Scope, ReadyInv, TypeOK, CommandType
<1>5. CASE Clean
  <2>1. \A q \in Procs : cmd[q].prepared = {}
    BY <1>5 DEF Clean, AllIdle, At, ScopeInv, Scope
  <2>2. QED
    BY <1>5, <2>1 DEF Clean, ScopeInv, ReadyInv
<1>6. CASE Edit \/ Remove \/ UNCHANGED vars
  BY <1>6 DEF Edit, Remove, vars, ScopeInv, ReadyInv
<1>7. QED
  BY <1>1, <1>2, <1>3, <1>4, <1>5, <1>6 DEF Next, Rest

(* The steps that change an upper directory.                               *)
Fill(q) == TrashUpper(q) \/ Copyup(q) \/ SyncPackages(q) \/ SyncArtifact(q) \/ Finish(q)

LEMMA QuietUppers ==
  ASSUME NEW q \in Procs, Prepare(q) \/ Build(q) \/ StartSome(q) \/ Mishap(q), ~Fill(q)
  PROVE  UNCHANGED upper
<1>1. CASE Prepare(q)
  BY <1>1
  DEF Prepare, BeginProfile, KeepStage3, TrashRoot, Untar, Link, SyncPortage, Decide, Emerge, GenpackPrepare,
      WriteDone, Verify, Shell, ToArtifacts
<1>2. CASE Build(q)
  BY <1>2
  DEF Fill, Build, SkipUnprepared, CheckArtifact, CheckOutfile, PackBegin, PackEnd, EndCommand
<1>3. CASE StartSome(q) \/ Mishap(q)
  BY <1>3 DEF StartSome, Start, Mishap
<1>4. QED
  BY <1>1, <1>2, <1>3

LEMMA UppersMove ==
  ASSUME [Next]_vars
  PROVE  UNCHANGED upper \/ Clean \/ \E q \in Procs : Fill(q) \/ Run(q)
<1>1. CASE Edit \/ Remove \/ Rest \/ UNCHANGED vars
  BY <1>1 DEF Edit, Remove, Rest, vars
<1>2. QED
  BY <1>1, QuietUppers DEF Next

(* BuildsFromPreparedRoot is itself kept, once the roots a command has     *)
(* prepared are known to stay clean until it copies out of them.           *)
LEMMA UpperStep ==
  ASSUME TypeOK, ScopeInv, ReadyInv, BuildsFromPreparedRoot, [Next]_vars
  PROVE  BuildsFromPreparedRoot'
<1>1. CASE \E q \in Procs : Copyup(q)
  <2> PICK q \in Procs : Copyup(q)
    BY <1>1
  <2> DEFINE art == cmd[q].art
  <2>1. art \in Artifacts /\ ProfileOf[art] \in cmd[q].prepared
    BY ConstantsAssumption DEF Copyup, At, ScopeInv, Scope, UpperPhases
  <2>2. root[ProfileOf[art]].gen # 0
    BY <2>1 DEF ReadyInv
  <2>3. upper'[art].gen = root[ProfileOf[art]].gen
    BY <2>1 DEF Copyup, TypeOK, NoUpper
  <2>4. \A a \in Artifacts \ {art} : upper'[a] = upper[a]
    BY DEF Copyup, TypeOK
  <2>5. QED
    BY <2>2, <2>3, <2>4 DEF BuildsFromPreparedRoot
<1>2. CASE ~ \E q \in Procs : Copyup(q)
  <2>1. \A a \in Artifacts : \/ upper'[a].time = NoFile
                             \/ /\ upper'[a].time = upper[a].time
                                /\ upper'[a].gen = upper[a].gen
    <3>1. CASE \E q \in Procs : TrashUpper(q)
      BY <3>1 DEF TrashUpper, TypeOK, NoUpper
    <3>2. CASE \E q \in Procs : SyncPackages(q) \/ SyncArtifact(q) \/ Finish(q)
      BY <3>2 DEF SyncPackages, SyncArtifact, Finish, TypeOK, TreeType
    <3>3. CASE \E q \in Procs : Run(q)
      BY <3>3 DEF Run, TypeOK, TreeType
    <3>4. CASE Clean
      BY <3>4 DEF Clean, NoUpper
    <3>5. CASE UNCHANGED upper
      BY <3>5
    <3>6. QED
      BY <1>2, <3>1, <3>2, <3>3, <3>4, <3>5, UppersMove DEF Fill
  <2>2. QED
    BY <2>1 DEF BuildsFromPreparedRoot
<1>3. QED
  BY <1>1, <1>2

(* No artifact is ever built from a root that is not prepared.             *)
THEOREM BuildsAreFromPreparedRoots == Spec => []BuildsFromPreparedRoot
<1> DEFINE Inv == RootInv /\ ScopeInv /\ ReadyInv /\ BuildsFromPreparedRoot
<1>1. Init => Inv
  <2>1. Init => RootInv
    BY DEF Init, RootInv, CleanRoot, NoRoot, NoFile
  <2>2. Init => ScopeInv /\ ReadyInv
    <3>1. \A q \in Procs : Scope(q, Idle) /\ Idle.prepared = {}
      BY IdleScope DEF Idle
    <3>2. Init => \A q \in Procs : cmd[q] = Idle
      BY DEF Init
    <3>3. QED
      BY <3>1, <3>2 DEF ScopeInv, ReadyInv
  <2>3. Init => BuildsFromPreparedRoot
    BY DEF Init, BuildsFromPreparedRoot, NoUpper
  <2>4. QED
    BY <2>1, <2>2, <2>3
<1>2. TypeOK /\ Inv /\ [Next]_vars => Inv'
  BY RootStep, CommandsStep, UpperStep
<1>3. QED
  BY <1>1, <1>2, TypeCorrect, PTL DEF Spec
-----------------------------------------------------------------------------
(* Part 4: what is reported is fresh.                                      *)
(*                                                                         *)
(* OneCommand: one command at a time (another may fetch a tree between the *)
(* scan and .done), no outfile shared by two artifacts (the time of    *)
(* one would speak for the other), no interruption between the packages    *)
(* file and the end of mksquashfs (a half build looks up to date), only    *)
(* edits of what is read late while it runs (the rest it has read), and no *)
(* removals (their times are not seen).                                    *)
Making == {"sync_packages", "sync_artifact", "finish", "outfile", "pack", "packing"}
LateSources == {Packages} \cup {Files(a) : a \in Artifacts}
OwnOutfiles == \A a, b \in Artifacts : OutfileOf[a] = OutfileOf[b] => a = b
OneCommand ==
  /\ OwnOutfiles
  /\ \A q, r \in Procs : q = r
  /\ Fragile \cap Making = {}
  /\ LiveEdits \subseteq LateSources
  /\ Deletable = {}

(* Nothing is newer than the clock or the sources.                         *)
Outfile(a) == out[OutfileOf[a]]
PastTree(a, t) ==
  /\ t.time <= clock /\ t.gen <= clock
  /\ t.json <= src[BuildJson(a)].ver
  /\ t.files <= src[Files(a)].ver
  /\ t.pkgs <= src[Packages].ver
PastRoots == /\ \A s \in Sources : src[s].mtime <= clock
             /\ \A p \in Profiles : root[p].gen <= clock
             /\ \A q \in Procs, s \in Sources :
                  cmd[q].start[s].ver <= src[s].ver /\ cmd[q].start[s].mtime <= src[s].mtime
PastTrees ==
  \A a \in Artifacts :
    PastTree(a, upper[a]) /\ PastTree(a, Outfile(a).tree) /\ Outfile(a).time <= clock

(* A source file is changed with the time of the change; a tree may be     *)
(* exchanged for a later one that is stamped with an earlier time.         *)
Changed(s) ==
  src'[s].ver >= src[s].ver /\ src'[s].mtime = clock' /\ clock' = clock + 1
SourcesStay == clock' \in {clock, clock + 1} /\ UNCHANGED src

(* The steps that change a source: a tree is fetched, or a file edited.    *)
LEMMA SourcesMove ==
  ASSUME [Next]_vars
  PROVE  (\E q \in Procs : SyncPortage(q) \/ Link(q)) \/ Edit \/ Remove \/ SourcesStay
<1>1. ASSUME NEW q \in Procs, Prepare(q), ~SyncPortage(q), ~Link(q) PROVE SourcesStay
  <2>1. UNCHANGED src /\ (Stamp \/ UNCHANGED clock)
    BY <1>1
    DEF Prepare, BeginProfile, KeepStage3, TrashRoot, Untar, Decide, Emerge, GenpackPrepare,
        WriteDone, Verify, Shell, ToArtifacts, InContainer, TouchPackages
  <2>2. QED
    BY <2>1 DEF Stamp, SourcesStay
<1>2. ASSUME NEW q \in Procs, Build(q) PROVE SourcesStay
  <2>1. UNCHANGED src /\ (Stamp \/ UNCHANGED clock)
    BY <1>2
    DEF Build, SkipUnprepared, CheckArtifact, TrashUpper, Copyup, SyncPackages, SyncArtifact,
        Finish, CheckOutfile, PackBegin, PackEnd, EndCommand
  <2>2. QED
    BY <2>1 DEF Stamp, SourcesStay
<1>3. ASSUME NEW q \in Procs, StartSome(q) \/ Mishap(q) \/ Run(q) PROVE SourcesStay
  BY <1>3 DEF StartSome, Start, Mishap, Run, SourcesStay
<1>4. ASSUME Clean \/ Rest \/ UNCHANGED vars PROVE SourcesStay
  BY <1>4 DEF Clean, Rest, vars, SourcesStay
<1>5. QED
  BY <1>1, <1>2, <1>3, <1>4 DEF Next

LEMMA SourcesGrow ==
  ASSUME TypeOK, [Next]_vars, NEW s \in Sources
  PROVE  /\ clock' \in {clock, clock + 1}
         /\ \/ src'[s] = src[s]
            \/ /\ src'[s].ver = src[s].ver + 1
               /\ \/ src'[s].mtime = src[s].mtime \/ src'[s].mtime = clock'
                  \/ src[s].mtime < src'[s].mtime /\ src'[s].mtime <= clock'
<1>1. CASE \E q \in Procs : SyncPortage(q) \/ Link(q)
  <2>1. PICK t \in Trees : Refetched(t)
    BY <1>1, TreesMove DEF Trees
  <2>2. QED
    BY <2>1 DEF Refetched
<1>2. CASE Edit
  <2> PICK t \in Sources :
        Stamp /\ src' = [src EXCEPT ![t] = [ver |-> src[t].ver + 1, mtime |-> clock']]
    BY <1>2, ConstantsAssumption DEF Edit
  <2>1. QED
    BY DEF Stamp, TypeOK
<1>3. CASE Remove
  <2> PICK t \in Sources : src' = [src EXCEPT ![t].ver = @ + 1]
    BY <1>3, ConstantsAssumption DEF Remove
  <2>1. src[s] \in [ver : Nat, mtime : Nat] /\ clock' = clock
    BY <1>3 DEF TypeOK, Remove
  <2>2. QED
    BY <2>1 DEF TypeOK
<1>4. CASE SourcesStay
  BY <1>4 DEF SourcesStay
<1>5. QED
  BY <1>1, <1>2, <1>3, <1>4, SourcesMove

LEMMA SourcesStep ==
  ASSUME TypeOK, OneCommand, [Next]_vars
  PROVE  /\ clock' \in {clock, clock + 1}
         /\ \A s \in Sources \ Trees : src'[s] = src[s] \/ Changed(s)
<1>1. CASE \E q \in Procs : SyncPortage(q) \/ Link(q)
  <2>1. PICK t \in Trees : Refetched(t)
    BY <1>1, TreesMove DEF Trees
  <2>2. QED
    BY <2>1 DEF Refetched
<1>2. CASE Edit
  <2> PICK s \in Sources :
        Stamp /\ src' = [src EXCEPT ![s] = [ver |-> src[s].ver + 1, mtime |-> clock']]
    BY <1>2, ConstantsAssumption DEF Edit
  <2>1. QED
    BY DEF Stamp, TypeOK, Changed
<1>3. CASE SourcesStay
  BY <1>3 DEF SourcesStay
<1>4. ~Remove
  BY DEF Remove, OneCommand
<1>5. QED
  BY <1>1, <1>2, <1>3, <1>4, SourcesMove

(* Under a command the sources it does not read late stay, and so do the   *)
(* trees once they are fetched.                                            *)
LEMMA EarlySourcesStay ==
  ASSUME TypeOK, OneCommand, [Next]_vars, NEW q \in Procs, cmd[q].at # "idle",
         NEW s \in Sources \ LateSources,
         s = Portage => cmd[q].at # "portage", s = Overlay => cmd[q].pulled
  PROVE  src'[s] = src[s]
<1>1. CASE \E r \in Procs : Link(r)
  <2>1. Link(q)
    BY <1>1 DEF OneCommand
  <2>2. CASE s = Overlay
    BY <2>1, <2>2 DEF Link
  <2>3. CASE s # Overlay
    BY <2>1, <2>3, TreesMove DEF Refetched
  <2>4. QED
    BY <2>2, <2>3
<1>2. CASE \E r \in Procs : SyncPortage(r)
  <2>1. SyncPortage(q)
    BY <1>2 DEF OneCommand
  <2>2. s # Portage
    BY <2>1 DEF SyncPortage, At
  <2>3. QED
    BY <2>1, <2>2, TreesMove DEF Refetched
<1>3. CASE Edit
  <2>1. ~AllIdle
    BY DEF AllIdle, At
  <2>2. PICK t \in LiveEdits :
          src' = [src EXCEPT ![t] = [ver |-> src[t].ver + 1, mtime |-> clock']]
    BY <1>3, <2>1 DEF Edit
  <2>3. t # s /\ t \in Sources
    BY <2>2, ConstantsAssumption DEF OneCommand
  <2>4. QED
    BY <2>2, <2>3 DEF TypeOK
<1>4. CASE UNCHANGED src
  BY <1>4
<1>5. ~Remove
  BY DEF Remove, OneCommand
<1>6. QED
  BY <1>1, <1>2, <1>3, <1>4, <1>5, SourcesMove DEF SourcesStay

(* What a root says it was made from stays, is dropped, or is written by   *)
(* WriteDone.                                                              *)
SameRecord(p) == /\ root'[p].gen = root[p].gen /\ root'[p].prof = root[p].prof
                 /\ root'[p].trees = root[p].trees
Recorded(p) ==
  \E q \in Procs :
    /\ WriteDone(q) /\ p = cmd[q].prof /\ clock' = clock + 1
    /\ root'[p].gen = clock' /\ root'[p].done = clock'
    /\ root'[p].prof = cmd[q].scan.prof

LEMMA QueryRecord ==
  ASSUME TypeOK, NEW p \in Profiles, QueryDone(p), NEW r \in Profiles
  PROVE  SameRecord(r)
BY DEF TypeOK, RootType, QueryDone, SameRecord

LEMMA RootsStep ==
  ASSUME TypeOK, [Next]_vars, NEW p \in Profiles
  PROVE  SameRecord(p) \/ root'[p].gen = 0 \/ Recorded(p)
<1>0. \A q \in Procs : cmd[q].at \in RootPhases => cmd[q].prof \in Profiles
  BY DEF TypeOK
<1>1. CASE \E q \in Procs : TrashRoot(q) \/ Untar(q)
  <2> PICK q \in Procs : TrashRoot(q) \/ Untar(q)
    BY <1>1
  <2>1. CASE p # cmd[q].prof
    BY <2>1 DEF TrashRoot, Untar, TypeOK, SameRecord
  <2>2. CASE p = cmd[q].prof /\ TrashRoot(q)
    BY <2>2 DEF TrashRoot, NoRoot, TypeOK
  <2>3. CASE p = cmd[q].prof /\ Untar(q)
    BY <2>3 DEF Untar, TypeOK, RootType, SameRecord
  <2>4. QED
    BY <2>1, <2>2, <2>3
<1>2. CASE \E q \in Procs : Decide(q) \/ Verify(q)
  BY <1>0, <1>2, QueryRecord DEF Decide, Verify, At, RootPhases
<1>3. CASE \E q \in Procs : Emerge(q) \/ GenpackPrepare(q) \/ Shell(q)
  <2>1. PICK q \in Procs : UNCHANGED root \/ TouchPackages(cmd[q].prof)
    BY <1>3 DEF Emerge, GenpackPrepare, Shell, InContainer
  <2>2. CASE UNCHANGED root
    BY <2>2 DEF SameRecord
  <2>3. CASE TouchPackages(cmd[q].prof) /\ p # cmd[q].prof
    BY <2>3 DEF TouchPackages, TypeOK, SameRecord
  <2>4. CASE TouchPackages(cmd[q].prof) /\ p = cmd[q].prof
    BY <2>4 DEF TouchPackages, TypeOK, RootType
  <2>5. QED
    BY <2>1, <2>2, <2>3, <2>4
<1>4. CASE \E q \in Procs : WriteDone(q)
  <2> PICK q \in Procs : WriteDone(q)
    BY <1>4
  <2>1. clock' = clock + 1
    BY DEF WriteDone, Stamp
  <2>2. CASE p = cmd[q].prof
    <3>1. /\ root'[p].gen = clock' /\ root'[p].done = clock'
          /\ root'[p].prof = cmd[q].scan.prof
      BY <2>2 DEF WriteDone, TypeOK, RootType
    <3>2. QED
      BY <2>1, <2>2, <3>1 DEF Recorded
  <2>3. CASE p # cmd[q].prof
    BY <2>3 DEF WriteDone, TypeOK, SameRecord
  <2>4. QED
    BY <2>2, <2>3
<1>5. CASE \E q \in Procs : CheckArtifact(q)
  <2> PICK q \in Procs : CheckArtifact(q)
    BY <1>5
  <2>1. PICK a \in cmd[q].arts : QueryDone(ProfileOf[a]) \/ UNCHANGED root
    BY DEF CheckArtifact
  <2>2. ProfileOf[a] \in Profiles
    BY ConstantsAssumption DEF TypeOK, CommandType
  <2>3. QED
    BY <2>1, <2>2, QueryRecord DEF SameRecord
<1>6. CASE \E q \in Procs : Run(q)
  <2> PICK q \in Procs : Run(q)
    BY <1>6
  <2>1. PICK a \in Jobs[q] : QueryDone(ProfileOf[a])
    BY DEF Run
  <2>2. ProfileOf[a] \in Profiles
    BY ConstantsAssumption
  <2>3. QED
    BY <2>1, <2>2, QueryRecord
<1>7. CASE Clean
  BY <1>7 DEF Clean, NoRoot
<1>8. CASE UNCHANGED root
  BY <1>8 DEF SameRecord
<1>9. ASSUME NEW q \in Procs, Prepare(q)
      PROVE  SameRecord(p) \/ root'[p].gen = 0 \/ Recorded(p)
  BY <1>1, <1>2, <1>3, <1>4, <1>8, <1>9
  DEF Prepare, BeginProfile, SyncPortage, KeepStage3, Link, ToArtifacts
<1>10. ASSUME NEW q \in Procs, Build(q)
       PROVE  SameRecord(p) \/ root'[p].gen = 0 \/ Recorded(p)
  BY <1>5, <1>8, <1>10
  DEF Build, SkipUnprepared, TrashUpper, Copyup, SyncPackages, SyncArtifact, Finish, CheckOutfile,
      PackBegin, PackEnd, EndCommand
<1>11. QED
  BY <1>6, <1>7, <1>8, <1>9, <1>10 DEF Next, StartSome, Start, Mishap, Edit, Remove, Rest, vars

(* What a root was made from is what the profile is, unless that is newer. *)
SeenRoot(p) ==
  root[p].gen # 0 =>
    (src[ProfileDir(p)].mtime <= root[p].gen => root[p].prof = src[ProfileDir(p)].ver)
CurrentRoot(p) ==
  /\ root[p].gen # 0
  /\ \A s \in {ProfileDir(p)} \cup Trees : src[s].mtime <= root[p].gen

(* The scan of the sources stays true up to .done, and the root it leads   *)
(* to is current until the command ends.                                   *)
Scanning == {"decide", "emerge", "genpack_prepare", "write_done"}
Newest(p) == Later(src[ProfileDir(p)].mtime, Later(src[Portage].mtime, src[Overlay].mtime))
Scanned(c) ==
  /\ c.at \in Scanning =>
       /\ c.scan.prof = src[ProfileDir(c.prof)].ver
       /\ c.newest = Newest(c.prof)
  /\ c.at \in Scanning \cup {"verify"} \/ c.prepared # {} => c.pulled
RootsCurrent(c) ==
  /\ c.at = "verify" => CurrentRoot(c.prof)
  /\ \A p \in c.prepared : CurrentRoot(p)
SeenRootsInv ==
  /\ \A p \in Profiles : SeenRoot(p)
  /\ \A q \in Procs : Scanned(cmd[q]) /\ RootsCurrent(cmd[q])

(* How a step of a command moves through prepare(), apart from Link.       *)
Leaves(c, d) ==
  /\ d.at \notin Scanning \cup {"verify"}
  /\ d.prepared = {} \/ (d.prepared = c.prepared /\ d.pulled = c.pulled)
SameScan(c, d) ==
  /\ d.prof = c.prof /\ d.scan = c.scan /\ d.newest = c.newest
  /\ d.prepared = c.prepared /\ d.pulled = c.pulled
GoesOn(c, d) == SameScan(c, d) /\ c.at \in Scanning /\ d.at \in Scanning
Readies(q) ==
  LET c == cmd[q]
      p == c.prof
      d == cmd'[q]
  IN /\ d.at = "next_profile" /\ d.prepared = c.prepared \cup {p} /\ d.pulled = c.pulled
     /\ p \in Profiles /\ DoneTime(root[p]) # NoFile
     /\ c.at = "verify" \/ (c.at = "decide" /\ c.newest <= DoneTime(root[p]))
     /\ UNCHANGED src

LEMMA PlaceNames ==
  /\ Scanning \cup {"verify"} \subseteq RootPhases
  /\ {"idle", "next_profile", "next_artifact"} \cap (Scanning \cup {"verify"}) = {}
  /\ UpperPhases \cap (Scanning \cup {"verify"}) = {}
  /\ {"portage", "stage3", "untar", "link", "shell"} \cap (Scanning \cup {"verify"}) = {}
BY DEF Scanning, RootPhases, UpperPhases

LEMMA GotoLeaves ==
  ASSUME TypeOK, NEW q \in Procs, NEW phase \in Phases \ (Scanning \cup {"verify"}), Goto(q, phase)
  PROVE  Leaves(cmd[q], cmd'[q])
BY DEF TypeOK, CommandType, Goto, Become, Leaves

LEMMA IdleLeaves ==
  ASSUME TypeOK, NEW q \in Procs, Become(q, Idle)
  PROVE  Leaves(cmd[q], cmd'[q])
BY PlaceNames DEF TypeOK, Become, Idle, Leaves

LEMMA RaiseLeaves ==
  ASSUME NEW c \in CommandType
  PROVE  Leaves(c, Raise(c))
<1>1. CASE ~c.keep
  BY <1>1, PlaceNames DEF Raise, Idle, Leaves
<1>2. CASE c.keep
  BY <1>2, PlaceNames DEF Raise, CommandType, Leaves
<1>3. QED
  BY <1>1, <1>2

LEMMA ReadyReadies ==
  ASSUME TypeOK, NEW q \in Procs, cmd[q].at \in RootPhases, ProfileReady(q),
         DoneTime(root[cmd[q].prof]) # NoFile, UNCHANGED src,
         cmd[q].at = "verify"
           \/ (cmd[q].at = "decide" /\ cmd[q].newest <= DoneTime(root[cmd[q].prof]))
  PROVE  Readies(q)
<1>1. cmd[q] \in CommandType /\ cmd[q].prof \in Profiles
  BY DEF TypeOK
<1>2. cmd'[q] = [cmd[q] EXCEPT !.at = "next_profile", !.prof = None,
                               !.prepared = @ \cup {cmd[q].prof}]
  BY DEF TypeOK, ProfileReady, Become
<1>3. /\ cmd'[q].at = "next_profile" /\ cmd'[q].pulled = cmd[q].pulled
      /\ cmd'[q].prepared = cmd[q].prepared \cup {cmd[q].prof}
  BY <1>1, <1>2 DEF CommandType
<1>4. QED
  BY <1>1, <1>3 DEF Readies

LEMMA PrepareMoves ==
  ASSUME TypeOK, NEW q \in Procs, Prepare(q), ~Link(q)
  PROVE  Leaves(cmd[q], cmd'[q]) \/ GoesOn(cmd[q], cmd'[q]) \/ Readies(q)
         \/ (WriteDone(q) /\ SameScan(cmd[q], cmd'[q]) /\ cmd'[q].at = "verify")
<1>0. cmd[q] \in CommandType
  BY DEF TypeOK
<1>1. CASE BeginProfile(q)
  <2> PICK p \in cmd[q].todo :
        Become(q, [cmd[q] EXCEPT !.at = IF cmd[q].fetched THEN "stage3" ELSE "portage",
                                 !.fetched = TRUE, !.prof = p, !.todo = @ \ {p}])
    BY <1>1 DEF BeginProfile
  <2>1. QED
    BY <1>0, PlaceNames DEF TypeOK, Become, CommandType, Leaves
<1>2. CASE SyncPortage(q) \/ KeepStage3(q) \/ TrashRoot(q) \/ Untar(q) \/ ToArtifacts(q)
  <2>1. {"stage3", "link", "untar", "next_artifact"} \subseteq Phases \ (Scanning \cup {"verify"})
    BY PhaseNames, PlaceNames DEF RootPhases
  <2>2. QED
    BY <1>2, <2>1, GotoLeaves DEF SyncPortage, KeepStage3, TrashRoot, Untar, ToArtifacts
<1>3. CASE Emerge(q) \/ GenpackPrepare(q)
  BY <1>0, <1>3 DEF Emerge, GenpackPrepare, Goto, Become, At, TypeOK, CommandType, GoesOn,
     SameScan, Scanning
<1>4. CASE WriteDone(q)
  BY <1>0, <1>4 DEF WriteDone, Goto, Become, TypeOK, CommandType, SameScan
<1>5. CASE Decide(q)
  <2>1. CASE Goto(q, "shell")
    <3>1. "shell" \in Phases \ (Scanning \cup {"verify"})
      BY PhaseNames, PlaceNames DEF RootPhases
    <3>2. QED
      BY <2>1, <3>1, GotoLeaves
  <2>2. CASE Goto(q, "emerge")
    BY <1>0, <1>5, <2>2 DEF Decide, Goto, Become, At, TypeOK, CommandType, GoesOn, SameScan, Scanning
  <2>3. CASE /\ ProfileReady(q) /\ DoneTime(root[cmd[q].prof]) # NoFile
             /\ cmd[q].newest <= DoneTime(root[cmd[q].prof])
    BY <1>5, <2>3, ReadyReadies DEF Decide, At, RootPhases
  <2>4. QED
    BY <1>5, <2>1, <2>2, <2>3 DEF Decide
<1>6. CASE Verify(q)
  <2>1. CASE Become(q, Raise(cmd[q]))
    <3>1. cmd'[q] = Raise(cmd[q])
      BY <2>1 DEF Become, TypeOK
    <3>2. QED
      BY <1>0, <3>1, RaiseLeaves
  <2>2. CASE ProfileReady(q) /\ DoneTime(root[cmd[q].prof]) # NoFile
    BY <1>6, <2>2, ReadyReadies DEF Verify, At, RootPhases
  <2>3. QED
    BY <1>6, <2>1, <2>2 DEF Verify
<1>7. CASE Shell(q)
  BY <1>7, IdleLeaves DEF Shell
<1>8. QED
  BY <1>1, <1>2, <1>3, <1>4, <1>5, <1>6, <1>7 DEF Prepare

LEMMA OtherMoves ==
  ASSUME TypeOK, NEW q \in Procs, Build(q) \/ StartSome(q) \/ Mishap(q)
  PROVE  Leaves(cmd[q], cmd'[q])
<1>0. cmd[q] \in CommandType
  BY DEF TypeOK
<1> USE PlaceNames
<1>1. CASE SkipUnprepared(q)
  <2> PICK a \in cmd[q].arts : Become(q, [cmd[q] EXCEPT !.arts = @ \ {a}])
    BY <1>1 DEF SkipUnprepared
  <2>1. QED
    BY <1>0, <1>1 DEF SkipUnprepared, At, TypeOK, Become, CommandType, Leaves
<1>2. CASE CheckArtifact(q)
  <2>1. PICK a \in cmd[q].arts :
          LET chosen == [cmd[q] EXCEPT !.arts = @ \ {a}, !.art = a] IN
          \/ Become(q, Raise(chosen))
          \/ Become(q, [chosen EXCEPT !.at = "outfile"])
          \/ Become(q, [chosen EXCEPT !.at = "trash_upper"])
    BY <1>2 DEF CheckArtifact
  <2> DEFINE chosen == [cmd[q] EXCEPT !.arts = @ \ {a}, !.art = a]
  <2>2. chosen \in CommandType /\ chosen.prepared = cmd[q].prepared /\ chosen.pulled = cmd[q].pulled
    BY <1>0 DEF CommandType
  <2>3. \A c : Become(q, c) => cmd'[q] = c
    BY DEF Become, TypeOK
  <2>4. \A phase \in {"outfile", "trash_upper"} :
          LET d == [chosen EXCEPT !.at = phase] IN
          d.at = phase /\ d.prepared = chosen.prepared /\ d.pulled = chosen.pulled
    BY <2>2 DEF CommandType
  <2> HIDE DEF chosen
  <2>5. \/ cmd'[q] = Raise(chosen)
        \/ \E phase \in {"outfile", "trash_upper"} : cmd'[q] = [chosen EXCEPT !.at = phase]
    BY <2>1, <2>3 DEF chosen
  <2>6. Leaves(chosen, Raise(chosen))
    BY <2>2, RaiseLeaves
  <2>7. CASE cmd'[q] = Raise(chosen)
    BY <2>2, <2>6, <2>7 DEF Leaves
  <2>8. CASE \E phase \in {"outfile", "trash_upper"} : cmd'[q] = [chosen EXCEPT !.at = phase]
    BY <2>2, <2>4, <2>8 DEF Leaves, UpperPhases
  <2>9. QED
    BY <2>5, <2>7, <2>8
<1>3. ASSUME Report(q) PROVE Leaves(cmd[q], cmd'[q])
  BY <1>0, <1>3 DEF Report, Become, TypeOK, CommandType, Leaves
<1>4. \A phase \in UpperPhases : Goto(q, phase) => Leaves(cmd[q], cmd'[q])
  BY GotoLeaves, PhaseNames
<1>5. CASE TrashUpper(q) \/ Copyup(q) \/ SyncPackages(q) \/ SyncArtifact(q) \/ Finish(q)
           \/ CheckOutfile(q) \/ PackBegin(q) \/ PackEnd(q)
  BY <1>3, <1>4, <1>5 DEF TrashUpper, Copyup, SyncPackages, SyncArtifact, Finish, CheckOutfile,
     PackBegin, PackEnd, UpperPhases
<1>6. CASE EndCommand(q)
  BY <1>6, IdleLeaves DEF EndCommand
<1>7. CASE StartSome(q)
  <2> PICK kind \in Kinds, keep \in BOOLEAN, A \in SUBSET Jobs[q] \ {{}} :
        Start(q, kind, keep, A)
    BY <1>7 DEF StartSome
  <2>1. QED
    BY DEF Start, Become, TypeOK, Idle, Leaves
<1>8. CASE Mishap(q)
  <2>1. cmd'[q] = Raise(cmd[q]) \/ Become(q, Idle)
    BY <1>8 DEF Mishap, Become, TypeOK
  <2>2. QED
    BY <1>0, <2>1, RaiseLeaves, IdleLeaves
<1>9. QED
  BY <1>1, <1>2, <1>5, <1>6, <1>7, <1>8 DEF Build

LEMMA DirNames ==
  ASSUME NEW p \in Profiles
  PROVE  /\ ProfileDir(p) \in Sources \ LateSources /\ ProfileDir(p) \notin Trees
         /\ Trees \subseteq Sources \ LateSources
BY SourceNames DEF ProfileDir, LateSources, Packages, Files, Trees, Portage, Overlay

(* Where a command goes is what it becomes.                                *)
LEMMA Becomes == ASSUME TypeOK, NEW q \in Procs, NEW c, Become(q, c) PROVE cmd'[q] = c
BY DEF TypeOK, Become

(* The portage tree is fetched before the first profile is prepared, and   *)
(* only then.                                                              *)
Fetching(c) ==
  /\ c.at \in RootPhases \/ c.prepared # {} => c.fetched
  /\ c.at = "portage" => c.prepared = {}
FetchInv == \A q \in Procs : Fetching(cmd[q])

LEMMA RaiseFetching ==
  ASSUME NEW c \in CommandType, Fetching(c)
  PROVE  Fetching(Raise(c))
<1>1. CASE ~c.keep
  BY <1>1, PhaseNames DEF Raise, Idle, Fetching
<1>2. CASE c.keep
  <2>1. /\ Raise(c).fetched = c.fetched /\ Raise(c).prepared = c.prepared
        /\ Raise(c).at \in {"next_profile", "next_artifact"}
    BY <1>2 DEF Raise, CommandType
  <2>2. QED
    BY <2>1, PhaseNames DEF Fetching, RootPhases
<1>3. QED
  BY <1>1, <1>2

(* How a step moves the command on as far as fetching goes.                *)
LEMMA FetchMoves ==
  ASSUME TypeOK, NEW q \in Procs, Prepare(q) \/ Build(q) \/ StartSome(q) \/ Mishap(q), Fetching(cmd[q])
  PROVE  Fetching(cmd'[q])
<1>0. cmd[q] \in CommandType /\ (cmd[q].at \in RootPhases => cmd[q].fetched)
  BY DEF TypeOK, Fetching
<1>1. CASE BeginProfile(q)
  <2> PICK p \in cmd[q].todo :
        Become(q, [cmd[q] EXCEPT !.at = IF cmd[q].fetched THEN "stage3" ELSE "portage",
                                 !.fetched = TRUE, !.prof = p, !.todo = @ \ {p}])
    BY <1>1 DEF BeginProfile
  <2> DEFINE c == [cmd[q] EXCEPT !.at = IF cmd[q].fetched THEN "stage3" ELSE "portage",
                                 !.fetched = TRUE, !.prof = p, !.todo = @ \ {p}]
  <2>1. c.fetched /\ c.prepared = cmd[q].prepared /\ (c.at = "portage" => ~cmd[q].fetched)
    BY <1>0 DEF CommandType
  <2>2. cmd'[q] = c
    BY Becomes
  <2>3. QED
    BY <2>1, <2>2 DEF Fetching
<1>2. \A phase \in Phases \ {"portage"} :
        Goto(q, phase) /\ (phase \in RootPhases => cmd[q].at \in RootPhases) => Fetching(cmd'[q])
  <2> SUFFICES ASSUME NEW phase \in Phases \ {"portage"}, Goto(q, phase),
                      phase \in RootPhases => cmd[q].at \in RootPhases
               PROVE  Fetching(cmd'[q])
    OBVIOUS
  <2>1. /\ cmd'[q].at = phase /\ cmd'[q].fetched = cmd[q].fetched
        /\ cmd'[q].prepared = cmd[q].prepared
    BY <1>0, Becomes DEF Goto, CommandType
  <2>2. QED
    BY <2>1 DEF Fetching
<1>3. CASE \/ SyncPortage(q) \/ KeepStage3(q) \/ TrashRoot(q) \/ Untar(q) \/ Emerge(q)
           \/ GenpackPrepare(q) \/ WriteDone(q) \/ ToArtifacts(q)
  <2> PICK phase \in {"stage3", "link", "untar", "genpack_prepare", "write_done", "verify",
                      "next_artifact"} :
        /\ Goto(q, phase)
        /\ phase # "next_artifact" => cmd[q].at \in RootPhases
    BY <1>3 DEF SyncPortage, KeepStage3, TrashRoot, Untar, Emerge, GenpackPrepare, WriteDone,
       ToArtifacts, At, RootPhases
  <2>1. phase \in Phases \ {"portage"} /\ (phase = "next_artifact" => phase \notin RootPhases)
    BY DEF Phases, PreparePhases, ArtifactPhases, RootPhases
  <2>2. QED
    BY <1>2, <2>1
<1>4. CASE Link(q)
  <2>1. /\ cmd'[q].at = "decide" /\ cmd'[q].fetched = cmd[q].fetched
        /\ cmd'[q].prepared = cmd[q].prepared
    BY <1>0, <1>4 DEF Link, Become, TypeOK, CommandType
  <2>2. cmd[q].fetched
    BY <1>0, <1>4 DEF Link, At, RootPhases
  <2>3. QED
    BY <2>1, <2>2 DEF Fetching
<1>5. ASSUME ProfileReady(q), cmd[q].at \in RootPhases PROVE Fetching(cmd'[q])
  <2>1. cmd'[q] = [cmd[q] EXCEPT !.at = "next_profile", !.prof = None,
                                 !.prepared = @ \cup {cmd[q].prof}]
    BY <1>5, Becomes DEF ProfileReady
  <2>2. cmd'[q].at = "next_profile" /\ cmd'[q].fetched = cmd[q].fetched
    BY <1>0, <2>1 DEF CommandType
  <2>3. QED
    BY <1>0, <1>5, <2>2 DEF Fetching
<1>6. Become(q, Raise(cmd[q])) \/ Become(q, Idle) => Fetching(cmd'[q])
  <2>1. Fetching(Raise(cmd[q])) /\ Fetching(Idle)
    BY <1>0, RaiseFetching, PhaseNames DEF Idle, Fetching
  <2>2. QED
    BY <2>1, Becomes
<1>7. CASE Decide(q) \/ Verify(q) \/ Shell(q)
  <2>1. cmd[q].at \in RootPhases /\ {"shell", "emerge"} \subseteq Phases \ {"portage"}
    BY <1>7 DEF Decide, Verify, Shell, At, RootPhases, Phases, PreparePhases
  <2>2. QED
    BY <1>2, <1>5, <1>6, <1>7, <2>1 DEF Decide, Verify, Shell
<1>8. ASSUME NEW c, Become(q, c), c.fetched = cmd[q].fetched, c.prepared = cmd[q].prepared,
             c.at \notin RootPhases
      PROVE  Fetching(cmd'[q])
  BY <1>8, Becomes DEF Fetching, RootPhases
<1>9. CASE Build(q)
  <2>1. CASE SkipUnprepared(q)
    <3> PICK a \in cmd[q].arts : Become(q, [cmd[q] EXCEPT !.arts = @ \ {a}])
      BY <2>1 DEF SkipUnprepared
    <3> DEFINE c == [cmd[q] EXCEPT !.arts = @ \ {a}]
    <3>1. c.fetched = cmd[q].fetched /\ c.prepared = cmd[q].prepared /\ c.at = "next_artifact"
      BY <1>0, <2>1 DEF SkipUnprepared, At, CommandType
    <3>2. QED
      BY <1>8, <3>1, PhaseNames
  <2>2. CASE CheckArtifact(q)
    <3> PICK a \in cmd[q].arts :
          LET chosen == [cmd[q] EXCEPT !.arts = @ \ {a}, !.art = a] IN
          \/ Become(q, Raise(chosen))
          \/ Become(q, [chosen EXCEPT !.at = "outfile"])
          \/ Become(q, [chosen EXCEPT !.at = "trash_upper"])
      BY <2>2 DEF CheckArtifact
    <3> DEFINE chosen == [cmd[q] EXCEPT !.arts = @ \ {a}, !.art = a]
    <3>1. /\ chosen \in CommandType /\ chosen.fetched = cmd[q].fetched
          /\ chosen.prepared = cmd[q].prepared /\ chosen.at = "next_artifact"
      BY <1>0, <2>2 DEF CheckArtifact, At, CommandType
    <3>2. \A phase \in {"outfile", "trash_upper"} :
            LET d == [chosen EXCEPT !.at = phase] IN
            d.at = phase /\ d.fetched = chosen.fetched /\ d.prepared = chosen.prepared
      BY <3>1 DEF CommandType
    <3>3. \/ Become(q, Raise(chosen))
          \/ \E phase \in {"outfile", "trash_upper"} : Become(q, [chosen EXCEPT !.at = phase])
      OBVIOUS
    <3> HIDE DEF chosen
    <3>4. CASE Become(q, Raise(chosen))
      <4>1. Fetching(chosen)
        BY <3>1, PhaseNames DEF Fetching
      <4>2. QED
        BY <3>1, <3>4, <4>1, RaiseFetching, Becomes
    <3>5. CASE \E phase \in {"outfile", "trash_upper"} : Become(q, [chosen EXCEPT !.at = phase])
      <4>1. {"outfile", "trash_upper"} \cap RootPhases = {}
        BY DEF RootPhases
      <4>2. QED
        BY <1>8, <3>1, <3>2, <3>5, <4>1
    <3>6. QED
      BY <3>3, <3>4, <3>5
  <2>3. ASSUME Report(q) PROVE Fetching(cmd'[q])
    <3> DEFINE c == [cmd[q] EXCEPT !.at = "next_artifact", !.art = None,
                                   !.reported = @ \cup {cmd[q].art}]
    <3>1. c.fetched = cmd[q].fetched /\ c.prepared = cmd[q].prepared /\ c.at = "next_artifact"
      BY <1>0 DEF CommandType
    <3>2. Become(q, c)
      BY <2>3 DEF Report
    <3> HIDE DEF c
    <3>3. QED
      BY <1>8, <3>1, <3>2, PhaseNames
  <2>4. \A phase \in UpperPhases : Goto(q, phase) => Fetching(cmd'[q])
    BY <1>2, PhaseNames DEF RootPhases
  <2>5. QED
    BY <1>6, <1>9, <2>1, <2>2, <2>3, <2>4
    DEF Build, TrashUpper, Copyup, SyncPackages, SyncArtifact, Finish, CheckOutfile, PackBegin,
        PackEnd, EndCommand, UpperPhases
<1>10. CASE StartSome(q)
  <2> PICK kind \in Kinds, keep \in BOOLEAN, A \in SUBSET Jobs[q] \ {{}} :
        Start(q, kind, keep, A)
    BY <1>10 DEF StartSome
  <2>1. cmd'[q].at = "next_profile" /\ cmd'[q].prepared = {}
    BY DEF Start, Become, TypeOK, Idle
  <2>2. QED
    BY <2>1, PhaseNames DEF Fetching
<1>11. CASE Mishap(q)
  BY <1>6, <1>11 DEF Mishap
<1>12. QED
  BY <1>1, <1>3, <1>4, <1>7, <1>9, <1>10, <1>11 DEF Prepare

LEMMA FetchStep == ASSUME TypeOK, OneCommand, FetchInv, [Next]_vars PROVE FetchInv'
<1> SUFFICES ASSUME NEW q \in Procs PROVE Fetching(cmd'[q])
  BY DEF FetchInv, Fetching
<1>1. CASE \E r \in Procs : Prepare(r) \/ Build(r) \/ StartSome(r) \/ Mishap(r)
  <2>1. Prepare(q) \/ Build(q) \/ StartSome(q) \/ Mishap(q)
    BY <1>1 DEF OneCommand
  <2>2. QED
    BY <2>1, FetchMoves DEF FetchInv
<1>2. CASE UNCHANGED cmd
  BY <1>2 DEF FetchInv
<1>3. QED
  BY <1>1, <1>2 DEF Next, Run, Clean, Edit, Remove, Rest, vars

(* Whatever changes later is newer than the root.                          *)
LEMMA SeenRootStep ==
  ASSUME TypeOK, OneCommand, PastRoots, SeenRootsInv, [Next]_vars, NEW p \in Profiles
  PROVE  SeenRoot(p)'
<1> DEFINE dir == ProfileDir(p)
<1>0. /\ dir \in Sources \ Trees /\ clock \in Nat
      /\ src[dir].mtime \in Nat /\ root[p].gen \in Nat
      /\ src[dir].mtime <= clock /\ root[p].gen <= clock
  BY DirNames DEF TypeOK, RootType, PastRoots
<1>1. CASE SameRecord(p)
  <2>1. SeenRoot(p)
    BY DEF SeenRootsInv
  <2>2. src'[dir] = src[dir] \/ ~(src'[dir].mtime <= root[p].gen)
    <3> SUFFICES ASSUME src'[dir] # src[dir]
                 PROVE  ~(src'[dir].mtime <= root[p].gen)
      OBVIOUS
    <3>1. src'[dir].mtime = clock + 1
      BY <1>0, SourcesStep DEF Changed
    <3>2. QED
      BY <1>0, <3>1
  <2>3. QED
    BY <1>1, <2>1, <2>2 DEF SeenRoot, SameRecord
<1>2. CASE root'[p].gen = 0
  BY <1>2 DEF SeenRoot
<1>3. CASE Recorded(p)
  <2>1. PICK q \in Procs : WriteDone(q) /\ p = cmd[q].prof /\ root'[p].prof = cmd[q].scan.prof
    BY <1>3 DEF Recorded
  <2>2. UNCHANGED src /\ cmd[q].at \in Scanning
    BY <2>1 DEF WriteDone, At, Scanning
  <2>3. cmd[q].scan.prof = src[dir].ver
    BY <2>1, <2>2 DEF SeenRootsInv, Scanned
  <2>4. QED
    BY <2>1, <2>2, <2>3 DEF SeenRoot
<1>4. QED
  BY <1>1, <1>2, <1>3, RootsStep

(* Once a command has scanned the sources, or has a profile prepared, what *)
(* it decided by stays.                                                    *)
LEMMA ScannedSourcesStay ==
  ASSUME TypeOK, OneCommand, FetchInv, SeenRootsInv, [Next]_vars, NEW q \in Procs, cmd[q].at # "idle",
         cmd[q].at \in Scanning \cup {"verify"} \/ cmd[q].prepared # {}, NEW p \in Profiles
  PROVE  \A s \in {ProfileDir(p)} \cup Trees : src'[s] = src[s]
<1>1. cmd[q].pulled /\ cmd[q].at # "portage"
  BY DEF SeenRootsInv, Scanned, Scanning, FetchInv, Fetching
<1>2. QED
  BY <1>1, EarlySourcesStay, DirNames

(* A root that is current stays so while its command runs.                 *)
LEMMA CurrentStays ==
  ASSUME TypeOK, OneCommand, FetchInv, SeenRootsInv, PastRoots, [Next]_vars,
         NEW q \in Procs, cmd[q].at # "idle",
         cmd[q].at \in Scanning \cup {"verify"} \/ cmd[q].prepared # {},
         NEW p \in Profiles, CurrentRoot(p), root'[p].gen # 0
  PROVE  CurrentRoot(p)'
<1> DEFINE dirs == {ProfileDir(p)} \cup Trees
<1>1. /\ clock \in Nat /\ root[p].gen \in Nat /\ root[p].gen <= clock
      /\ \A s \in dirs : src[s].mtime \in Nat /\ src[s].mtime <= clock
  BY DirNames DEF TypeOK, RootType, PastRoots
<1>2. \A s \in dirs : src'[s] = src[s]
  BY ScannedSourcesStay
<1>3. root'[p].gen = root[p].gen \/ root'[p].gen = clock + 1
  BY RootsStep DEF SameRecord, Recorded
<1>4. \A s \in dirs : src'[s].mtime <= root'[p].gen
  BY <1>1, <1>2, <1>3 DEF CurrentRoot
<1>5. QED
  BY <1>4 DEF CurrentRoot

LEMMA ScanStays ==
  ASSUME TypeOK, OneCommand, FetchInv, SeenRootsInv, [Next]_vars, NEW q \in Procs,
         SameScan(cmd[q], cmd'[q]), cmd[q].at \in Scanning \cup {"verify"},
         cmd'[q].at \in Scanning => cmd[q].at \in Scanning
  PROVE  Scanned(cmd[q])'
<1> DEFINE dir == ProfileDir(cmd[q].prof)
<1>1. cmd[q].at # "idle" /\ cmd[q].pulled /\ cmd[q].prof \in Profiles
  BY PlaceNames DEF SeenRootsInv, Scanned, TypeOK
<1>2. src'[dir] = src[dir] /\ src'[Portage] = src[Portage] /\ src'[Overlay] = src[Overlay]
  BY <1>1, ScannedSourcesStay DEF Trees
<1>3. QED
  BY <1>1, <1>2 DEF SeenRootsInv, Scanned, SameScan, Newest

(* A profile that is called ready has a current root.                      *)
LEMMA ReadyIsCurrent ==
  ASSUME TypeOK, RootInv, SeenRootsInv, NEW q \in Procs, Readies(q)
  PROVE  CurrentRoot(cmd[q].prof) /\ cmd[q].pulled
<1> DEFINE p == cmd[q].prof dir == ProfileDir(p)
<1>1. CASE cmd[q].at = "verify"
  BY <1>1 DEF SeenRootsInv, RootsCurrent, Scanned
<1>2. CASE cmd[q].at = "decide" /\ cmd[q].newest <= DoneTime(root[p])
  <2>1. /\ p \in Profiles /\ root[p] \in RootType /\ CleanRoot(root[p], clock)
        /\ DoneTime(root[p]) # NoFile
    BY DEF Readies, TypeOK, RootInv
  <2>2. root[p].gen # 0 /\ DoneTime(root[p]) = root[p].gen
    BY <2>1 DEF CleanRoot, DoneTime, DoneIsStale, NoFile, RootType
  <2>3. cmd[q].newest = Newest(p) /\ cmd[q].pulled
    BY <1>2 DEF SeenRootsInv, Scanned, Scanning
  <2>4. /\ src[dir].mtime \in Nat /\ src[Portage].mtime \in Nat /\ src[Overlay].mtime \in Nat
        /\ root[p].gen \in Nat
    BY <2>1, DirNames, SourceNames DEF TypeOK, RootType
  <2>5. /\ src[dir].mtime <= root[p].gen /\ src[Portage].mtime <= root[p].gen
        /\ src[Overlay].mtime <= root[p].gen
    BY <1>2, <2>2, <2>3, <2>4 DEF Newest, Later
  <2>6. QED
    BY <2>2, <2>3, <2>5 DEF CurrentRoot, Trees
<1>3. QED
  BY <1>1, <1>2 DEF Readies

LEMMA LinkScans ==
  ASSUME TypeOK, ScopeInv, SeenRootsInv, NEW q \in Procs, Link(q)
  PROVE  Scanned(cmd[q])' /\ cmd'[q].at = "decide" /\ cmd'[q].prepared = cmd[q].prepared
<1> DEFINE dir == ProfileDir(cmd[q].prof)
           d == [cmd[q] EXCEPT !.at = "decide", !.pulled = TRUE,
                   !.scan = [prof |-> src[dir].ver, trees |-> [t \in Trees |-> src'[t].ver]],
                   !.newest = Later(src[dir].mtime,
                       Later(src'[Portage].mtime, src'[Overlay].mtime))]
<1>1. cmd[q] \in CommandType /\ cmd[q].prof \in Profiles
  BY DEF Link, At, TypeOK, RootPhases
<1>2. cmd'[q] = d
  BY DEF Link, Become, TypeOK
<1>3. /\ d.at = "decide" /\ d.pulled /\ d.prof = cmd[q].prof /\ d.prepared = cmd[q].prepared
      /\ d.scan.prof = src[dir].ver
      /\ d.newest = Later(src[dir].mtime, Later(src'[Portage].mtime, src'[Overlay].mtime))
  BY <1>1 DEF CommandType
<1>4. src'[dir] = src[dir]
  BY <1>1, DirNames, TreesMove DEF Refetched, Trees
<1>5. QED
  BY <1>2, <1>3, <1>4 DEF Scanned, Newest

LEMMA SeenRootsStep ==
  ASSUME TypeOK, TypeOK', OneCommand, RootInv, ScopeInv, ReadyInv, ReadyInv', PastRoots, FetchInv,
         SeenRootsInv, [Next]_vars
  PROVE  SeenRootsInv'
<1> SUFFICES ASSUME NEW q \in Procs
             PROVE  Scanned(cmd[q])' /\ RootsCurrent(cmd[q])'
  BY SeenRootStep DEF SeenRootsInv
<1>0. cmd[q] \in CommandType /\ Scanned(cmd[q]) /\ RootsCurrent(cmd[q]) /\ Scope(q, cmd[q])
  BY DEF TypeOK, SeenRootsInv, ScopeInv
(* The roots that are prepared already.                                    *)
<1>1. \A p \in cmd[q].prepared : p \in cmd'[q].prepared => CurrentRoot(p)' /\ cmd[q].pulled
  <2> SUFFICES ASSUME NEW p \in cmd[q].prepared, p \in cmd'[q].prepared
               PROVE  CurrentRoot(p)' /\ cmd[q].pulled
    OBVIOUS
  <2>1. /\ p \in Profiles /\ root'[p].gen # 0 /\ CurrentRoot(p)
        /\ cmd[q].at # "idle" /\ cmd[q].pulled
    BY <1>0 DEF CommandType, ReadyInv, RootsCurrent, Scanned, Scope
  <2>2. QED
    BY <2>1, CurrentStays
<1>2. CASE Leaves(cmd[q], cmd'[q])
  <2>1. Scanned(cmd[q])'
    BY <1>0, <1>2 DEF Leaves, Scanned
  <2>2. RootsCurrent(cmd[q])'
    BY <1>1, <1>2 DEF Leaves, RootsCurrent
  <2>3. QED
    BY <2>1, <2>2
<1>3. CASE GoesOn(cmd[q], cmd'[q])
  <2>1. Scanned(cmd[q])'
    BY <1>3, ScanStays DEF GoesOn
  <2>2. RootsCurrent(cmd[q])'
    BY <1>1, <1>3 DEF GoesOn, SameScan, RootsCurrent, Scanning
  <2>3. QED
    BY <2>1, <2>2
<1>4. CASE Readies(q)
  <2> PICK p \in Profiles : p = cmd[q].prof
    BY <1>4 DEF Readies
  <2>1. CurrentRoot(p) /\ cmd[q].pulled
    BY <1>4, ReadyIsCurrent
  <2>2. cmd'[q].at = "next_profile" /\ cmd'[q].prepared = cmd[q].prepared \cup {p} /\ cmd'[q].pulled
    BY <1>4, <2>1 DEF Readies
  <2>3. root'[p].gen # 0 /\ cmd[q].at \in Scanning \cup {"verify"} /\ cmd[q].at # "idle"
    BY <1>4, <2>2 DEF ReadyInv, Readies, Scanning
  <2>4. CurrentRoot(p)'
    BY <2>1, <2>3, CurrentStays
  <2>5. QED
    BY <1>1, <2>2, <2>4 DEF Scanned, RootsCurrent, Scanning
<1>5. CASE WriteDone(q) /\ SameScan(cmd[q], cmd'[q]) /\ cmd'[q].at = "verify"
  <2>1. cmd[q].at \in Scanning
    BY <1>5 DEF WriteDone, At, Scanning
  <2> PICK p \in Profiles : p = cmd[q].prof
    BY <2>1, PlaceNames DEF TypeOK
  <2>2. Scanned(cmd[q])'
    BY <1>5, <2>1, ScanStays DEF Scanning
  <2>3. root'[p].gen = clock + 1 /\ UNCHANGED src
    BY <1>5, <2>1 DEF WriteDone, Stamp, TypeOK, RootType
  <2>4. CurrentRoot(p)'
    <3>1. clock \in Nat /\ \A s \in {ProfileDir(p)} \cup Trees : src[s].mtime \in Nat /\ src[s].mtime <= clock
      BY <2>1, DirNames DEF TypeOK, PastRoots
    <3>2. \A s \in {ProfileDir(p)} \cup Trees : src'[s].mtime <= root'[p].gen
      BY <2>3, <3>1
    <3>3. QED
      BY <2>3, <3>1, <3>2 DEF CurrentRoot
  <2>5. QED
    BY <1>1, <1>5, <2>2, <2>4 DEF SameScan, RootsCurrent
<1>6. CASE Link(q)
  BY <1>1, <1>6, LinkScans DEF RootsCurrent
<1>7. CASE UNCHANGED cmd /\ (cmd[q].at = "idle" \/ UNCHANGED root)
  <2>1. CASE cmd[q].at = "idle"
    <3>1. cmd[q].prepared = {}
      BY <1>0, <2>1 DEF Scope
    <3>2. QED
      BY <1>7, <2>1, <3>1 DEF Scanned, RootsCurrent, Scanning
  <2>2. CASE cmd[q].at # "idle" /\ UNCHANGED root
    <3>1. Scanned(cmd[q])'
      <4>1. CASE cmd[q].at \in Scanning \cup {"verify"}
        BY <1>7, <4>1, ScanStays DEF SameScan
      <4>2. CASE cmd[q].at \notin Scanning \cup {"verify"}
        BY <1>0, <1>7, <4>2 DEF Scanned
      <4>3. QED
        BY <4>1, <4>2
    <3>2. cmd[q].at = "verify" => CurrentRoot(cmd[q].prof)'
      <4> SUFFICES ASSUME cmd[q].at = "verify"
                   PROVE  CurrentRoot(cmd[q].prof)'
        OBVIOUS
      <4>1. CurrentRoot(cmd[q].prof) /\ cmd[q].pulled /\ cmd[q].prof \in Profiles
        BY <1>0 DEF RootsCurrent, Scanned, TypeOK, RootPhases
      <4>2. root'[cmd[q].prof].gen # 0
        BY <2>2, <4>1 DEF CurrentRoot
      <4>3. QED
        BY <1>7, <4>1, <4>2, CurrentStays
    <3>3. QED
      BY <1>1, <1>7, <3>1, <3>2 DEF RootsCurrent
  <2>3. QED
    BY <1>7, <2>1, <2>2
<1>8. QED
  <2>1. CASE \E r \in Procs : Prepare(r) \/ Build(r) \/ StartSome(r) \/ Mishap(r)
    <3>1. Prepare(q) \/ Build(q) \/ StartSome(q) \/ Mishap(q)
      BY <2>1 DEF OneCommand
    <3>2. QED
      BY <1>2, <1>3, <1>4, <1>5, <1>6, <3>1, PrepareMoves, OtherMoves
  <2>2. CASE (\E r \in Procs : Run(r)) \/ Clean \/ Edit \/ Remove \/ UNCHANGED vars
    BY <1>7, <2>2 DEF Run, Clean, Edit, Remove, vars, AllIdle, At, OneCommand
  <2>3. QED
    BY <2>1, <2>2 DEF Next, Rest

(* How a step moves a command through build().                             *)
SameList(c, d) == d.arts = c.arts /\ d.reported = c.reported /\ d.start = c.start
Away(c, d) ==
  /\ d.at \notin UpperPhases
  /\ \/ d.at \notin ArtifactPhases /\ d.reported = {}
     \/ /\ c.at \in ArtifactPhases /\ d.at \in ArtifactPhases
        /\ d.arts \subseteq c.arts /\ d.reported = c.reported /\ d.start = c.start
     \/ c.at \in PreparePhases /\ d.reported = c.reported
Advances(c, d) == SameList(c, d) /\ d.art = c.art /\ c.at \in UpperPhases /\ d.at \in UpperPhases
Picks(c, d) ==
  /\ c.at = "next_artifact" /\ d.at \in {"outfile", "trash_upper"}
  /\ d.art \in c.arts /\ d.arts = c.arts \ {d.art}
  /\ d.reported = c.reported /\ d.start = c.start
Reports(c, d) ==
  /\ c.at \in UpperPhases /\ d.at = "next_artifact"
  /\ d.arts = c.arts /\ d.reported = c.reported \cup {c.art} /\ d.start = c.start

LEMMA PartNames ==
  /\ {"idle", "next_profile"} \cap ArtifactPhases = {}
  /\ "next_artifact" \in ArtifactPhases /\ "next_profile" \in PreparePhases
  /\ PreparePhases \cap ArtifactPhases = {}
  /\ RootPhases \cap ArtifactPhases = {}
  /\ Making \subseteq UpperPhases /\ UpperPhases \subseteq ArtifactPhases
  /\ {"next_artifact", "next_profile", "idle"} \cap UpperPhases = {}
BY DEF ArtifactPhases, PreparePhases, RootPhases, UpperPhases, Making

LEMMA RaiseAway ==
  ASSUME NEW c \in CommandType
  PROVE  c.at # "idle" => Away(c, Raise(c))
<1>1. CASE ~c.keep
  BY <1>1, PartNames DEF Raise, Idle, Away
<1>2. CASE c.keep /\ c.at \in PreparePhases
  BY <1>2, PartNames DEF Raise, CommandType, Away
<1>3. CASE c.keep /\ c.at \notin PreparePhases
  <2>1. c.at # "idle" => c.at \in ArtifactPhases
    BY <1>3 DEF CommandType, Phases
  <2>2. QED
    BY <1>3, <2>1, PartNames DEF Raise, CommandType, Away
<1>4. QED
  BY <1>1, <1>2, <1>3

LEMMA PrepareAway ==
  ASSUME TypeOK, NEW q \in Procs, Prepare(q)
  PROVE  Away(cmd[q], cmd'[q])
<1>0. cmd[q] \in CommandType
  BY DEF TypeOK
<1> USE PartNames
<1>1. cmd[q].at \in PreparePhases
  BY DEF Prepare, BeginProfile, KeepStage3, TrashRoot, Untar, Link, SyncPortage, Decide, Emerge,
     GenpackPrepare, WriteDone, Verify, Shell, ToArtifacts, At, PreparePhases, RootPhases
<1>2. CASE \E phase \in RootPhases \cup {"next_artifact"} : Goto(q, phase)
  <2> PICK phase \in RootPhases \cup {"next_artifact"} : Goto(q, phase)
    BY <1>2
  <2>1. cmd'[q].at = phase /\ cmd'[q].reported = cmd[q].reported
    BY <1>0, Becomes DEF Goto, CommandType
  <2>2. phase \notin UpperPhases
    BY PhaseNames
  <2>3. QED
    BY <1>1, <2>1, <2>2 DEF Away
<1>3. CASE \E d \in CommandType : /\ Become(q, d) /\ d.at \in PreparePhases
                                  /\ d.reported = cmd[q].reported
  BY <1>1, <1>3, Becomes DEF Away
<1>4. CASE Become(q, Raise(cmd[q]))
  BY <1>0, <1>1, <1>4, Becomes, RaiseAway DEF PreparePhases, RootPhases
<1>5. CASE Become(q, Idle)
  BY <1>5, Becomes DEF Idle, Away
<1>6. CASE BeginProfile(q)
  <2> PICK p \in cmd[q].todo :
        Become(q, [cmd[q] EXCEPT !.at = IF cmd[q].fetched THEN "stage3" ELSE "portage",
                                 !.fetched = TRUE, !.prof = p, !.todo = @ \ {p}])
    BY <1>6 DEF BeginProfile
  <2> DEFINE d == [cmd[q] EXCEPT !.at = IF cmd[q].fetched THEN "stage3" ELSE "portage",
                               !.fetched = TRUE, !.prof = p, !.todo = @ \ {p}]
  <2>1. d.at \in {"stage3", "portage"} /\ d.reported = cmd[q].reported
    BY <1>0 DEF CommandType
  <2>2. cmd'[q] = d
    BY Becomes
  <2>3. QED
    BY <1>1, <2>1, <2>2 DEF Away, PreparePhases, RootPhases
<1>7. CASE Link(q)
  <2>1. cmd'[q].at = "decide" /\ cmd'[q].reported = cmd[q].reported
    BY <1>0, <1>7 DEF Link, Become, TypeOK, CommandType
  <2>2. QED
    BY <1>1, <2>1 DEF Away, PreparePhases, RootPhases
<1>8. CASE ProfileReady(q)
  <2>1. cmd'[q] = [cmd[q] EXCEPT !.at = "next_profile", !.prof = None,
                                 !.prepared = @ \cup {cmd[q].prof}]
    BY <1>8 DEF ProfileReady, Become, TypeOK
  <2>2. cmd'[q].at = "next_profile" /\ cmd'[q].reported = cmd[q].reported
    BY <1>0, <2>1 DEF CommandType
  <2>3. QED
    BY <1>1, <2>2 DEF Away
<1>9. QED
  BY <1>2, <1>4, <1>5, <1>6, <1>7, <1>8
  DEF Prepare, SyncPortage, KeepStage3, TrashRoot, Untar, Decide, Emerge, GenpackPrepare,
      WriteDone, Verify, Shell, ToArtifacts, RootPhases

(* The steps between two phases of build() of one artifact.                *)
LEMMA GotoAdvances ==
  ASSUME TypeOK, NEW q \in Procs, NEW phase \in UpperPhases, Goto(q, phase), cmd[q].at \in UpperPhases
  PROVE  Advances(cmd[q], cmd'[q]) /\ cmd'[q].at = phase
BY DEF TypeOK, CommandType, Goto, Become, Advances, SameList

LEMMA ReportReports ==
  ASSUME TypeOK, NEW q \in Procs, Report(q), cmd[q].at \in UpperPhases
  PROVE  Reports(cmd[q], cmd'[q])
BY DEF TypeOK, CommandType, Report, Become, Reports

LEMMA CheckMoves ==
  ASSUME TypeOK, NEW q \in Procs, CheckArtifact(q)
  PROVE  \/ Away(cmd[q], cmd'[q])
         \/ /\ Picks(cmd[q], cmd'[q])
            /\ ProfileOf[cmd'[q].art] \in cmd[q].prepared
            /\ cmd'[q].at = "outfile" =>
                 LET a == cmd'[q].art IN
                 /\ upper[a].time # NoFile /\ UpToDate(a)
                 /\ DoneTime(root[ProfileOf[a]]) # NoFile
<1>0. cmd[q] \in CommandType /\ cmd[q].at = "next_artifact"
  BY DEF TypeOK, CheckArtifact, At
<1>1. PICK a \in cmd[q].arts :
        LET chosen == [cmd[q] EXCEPT !.arts = @ \ {a}, !.art = a] IN
        /\ ProfileOf[a] \in cmd[q].prepared
        /\ \/ Become(q, Raise(chosen))
           \/ /\ Become(q, [chosen EXCEPT !.at = "outfile"])
              /\ upper[a].time # NoFile /\ UpToDate(a)
              /\ DoneTime(root[ProfileOf[a]]) # NoFile
           \/ Become(q, [chosen EXCEPT !.at = "trash_upper"])
  BY DEF CheckArtifact
<1> DEFINE chosen == [cmd[q] EXCEPT !.arts = @ \ {a}, !.art = a]
<1>2. /\ chosen \in CommandType /\ chosen.at = "next_artifact" /\ chosen.art = a
      /\ chosen.arts = cmd[q].arts \ {a} /\ chosen.reported = cmd[q].reported
      /\ chosen.start = cmd[q].start
  BY <1>0 DEF CommandType
<1>3. \A phase \in {"outfile", "trash_upper"} :
        LET d == [chosen EXCEPT !.at = phase] IN
        /\ d.at = phase /\ d.art = a /\ d.arts = chosen.arts
        /\ d.reported = chosen.reported /\ d.start = chosen.start
  BY <1>2 DEF CommandType
<1> HIDE DEF chosen
<1>4. \/ cmd'[q] = Raise(chosen)
      \/ /\ cmd'[q] = [chosen EXCEPT !.at = "outfile"]
         /\ upper[a].time # NoFile /\ UpToDate(a) /\ DoneTime(root[ProfileOf[a]]) # NoFile
      \/ cmd'[q] = [chosen EXCEPT !.at = "trash_upper"]
  BY <1>1, Becomes DEF chosen
<1>5. CASE cmd'[q] = Raise(chosen)
  <2>1. Away(chosen, Raise(chosen))
    BY <1>2, RaiseAway
  <2>2. QED
    BY <1>0, <1>2, <1>5, <2>1, PartNames DEF Away
<1>6. CASE /\ cmd'[q] = [chosen EXCEPT !.at = "outfile"]
           /\ upper[a].time # NoFile /\ UpToDate(a) /\ DoneTime(root[ProfileOf[a]]) # NoFile
  <2>1. cmd'[q].at = "outfile" /\ cmd'[q].art = a /\ Picks(cmd[q], cmd'[q])
    BY <1>0, <1>2, <1>3, <1>6 DEF Picks
  <2>2. QED
    BY <1>1, <1>6, <2>1
<1>7. CASE cmd'[q] = [chosen EXCEPT !.at = "trash_upper"]
  <2>1. cmd'[q].at = "trash_upper" /\ cmd'[q].art = a /\ Picks(cmd[q], cmd'[q])
    BY <1>0, <1>2, <1>3, <1>7 DEF Picks
  <2>2. QED
    BY <1>1, <2>1
<1>8. QED
  BY <1>4, <1>5, <1>6, <1>7

LEMMA QuietAway ==
  ASSUME TypeOK, NEW q \in Procs,
         SkipUnprepared(q) \/ EndCommand(q) \/ StartSome(q) \/ Mishap(q)
  PROVE  Away(cmd[q], cmd'[q])
<1>0. cmd[q] \in CommandType
  BY DEF TypeOK
<1> USE PartNames
<1>1. CASE SkipUnprepared(q)
  <2> PICK a \in cmd[q].arts : Become(q, [cmd[q] EXCEPT !.arts = @ \ {a}])
    BY <1>1 DEF SkipUnprepared
  <2>1. /\ cmd'[q].at = "next_artifact" /\ cmd'[q].arts = cmd[q].arts \ {a}
        /\ cmd'[q].reported = cmd[q].reported /\ cmd'[q].start = cmd[q].start
    BY <1>0, <1>1 DEF SkipUnprepared, At, Become, TypeOK, CommandType
  <2>2. QED
    BY <1>1, <2>1 DEF Away, SkipUnprepared, At
<1>2. CASE StartSome(q)
  <2> PICK kind \in Kinds, keep \in BOOLEAN, A \in SUBSET Jobs[q] \ {{}} :
        Start(q, kind, keep, A)
    BY <1>2 DEF StartSome
  <2>1. cmd'[q].at = "next_profile" /\ cmd'[q].reported = {}
    BY DEF Start, Become, TypeOK, Idle
  <2>2. QED
    BY <2>1 DEF Away
<1>3. CASE Become(q, Idle)
  BY <1>3, Becomes DEF Idle, Away
<1>4. CASE Become(q, Raise(cmd[q])) /\ cmd[q].at # "idle"
  BY <1>0, <1>4, Becomes, RaiseAway
<1>5. QED
  BY <1>1, <1>2, <1>3, <1>4 DEF EndCommand, Mishap

(* What the steps do to the upper directories and the outfiles.            *)
SameBuild(a) ==
  /\ upper'[a].time = upper[a].time /\ upper'[a].gen = upper[a].gen
  /\ upper'[a].json = upper[a].json /\ upper'[a].pkgs = upper[a].pkgs
  /\ upper'[a].files = upper[a].files
Copied(q, a) ==
  /\ Copyup(q) /\ a = cmd[q].art /\ clock' = clock + 1 /\ UNCHANGED <<src, root, out>>
  /\ upper'[a] = [NoUpper EXCEPT !.time = clock', !.gen = root[ProfileOf[a]].gen,
                                 !.json = cmd[q].start[BuildJson(a)].ver]
Synced(q, a) ==
  /\ a = cmd[q].art /\ UNCHANGED <<clock, src, root, out>>
  /\ \/ /\ SyncPackages(q)
        /\ upper'[a] = [upper[a] EXCEPT !.pkgs = src[Packages].ver]
     \/ /\ SyncArtifact(q)
        /\ upper'[a] = [upper[a] EXCEPT !.files = src[Files(a)].ver]
BeginsPack(q, o) ==
  /\ PackBegin(q) /\ o = OutfileOf[cmd[q].art] /\ clock' = clock + 1
  /\ out'[o] = [time |-> clock', whole |-> FALSE, of |-> cmd[q].art, tree |-> upper[cmd[q].art]]

LEMMA UppersStep ==
  ASSUME TypeOK, [Next]_vars, NEW a \in Artifacts
  PROVE  \/ SameBuild(a) \/ upper'[a] = NoUpper
         \/ \E q \in Procs : Copied(q, a) \/ Synced(q, a)
<1>1. CASE \E q \in Procs : TrashUpper(q)
  BY <1>1 DEF TrashUpper, TypeOK, SameBuild
<1>2. CASE \E q \in Procs : Copyup(q)
  BY <1>2 DEF Copyup, Stamp, TypeOK, SameBuild, Copied
<1>3. CASE \E q \in Procs : SyncPackages(q) \/ SyncArtifact(q)
  BY <1>3 DEF SyncPackages, SyncArtifact, TypeOK, SameBuild, Synced
<1>4. CASE \E q \in Procs : Finish(q)
  BY <1>4 DEF Finish, TypeOK, TreeType, SameBuild
<1>5. CASE \E q \in Procs : Run(q)
  BY <1>5 DEF Run, TypeOK, TreeType, SameBuild
<1>6. CASE Clean
  BY <1>6 DEF Clean
<1>7. CASE UNCHANGED upper
  BY <1>7 DEF SameBuild
<1>8. QED
  BY <1>1, <1>2, <1>3, <1>4, <1>5, <1>6, <1>7, UppersMove DEF Fill

LEMMA OutfilesStep ==
  ASSUME TypeOK, [Next]_vars, NEW o \in Outfiles
  PROVE  \/ out'[o].tree = out[o].tree /\ out'[o].time = out[o].time
         \/ \E q \in Procs : BeginsPack(q, o)
<1>1. CASE \E q \in Procs : PackBegin(q)
  BY <1>1 DEF PackBegin, Stamp, TypeOK, BeginsPack
<1>2. CASE \E q \in Procs : PackEnd(q)
  BY <1>2 DEF PackEnd, TypeOK, ImageType
<1>3. CASE UNCHANGED out
  BY <1>3
<1>4. ASSUME NEW q \in Procs, Prepare(q) PROVE UNCHANGED out
  BY <1>4
  DEF Prepare, BeginProfile, KeepStage3, TrashRoot, Untar, Link, SyncPortage, Decide, Emerge, GenpackPrepare,
      WriteDone, Verify, Shell, ToArtifacts
<1>5. ASSUME NEW q \in Procs, Build(q), ~PackBegin(q), ~PackEnd(q) PROVE UNCHANGED out
  BY <1>5
  DEF Build, SkipUnprepared, CheckArtifact, TrashUpper, Copyup, SyncPackages, SyncArtifact, Finish,
      CheckOutfile, EndCommand
<1>6. QED
  BY <1>1, <1>2, <1>3, <1>4, <1>5
  DEF Next, StartSome, Start, Mishap, Run, Clean, Edit, Remove, Rest, vars

(* While a command runs, the sources it reads early are those it started   *)
(* with.                                                                   *)
EarlyStart(c) ==
  c.at # "idle" =>
    \A s \in Sources \ (LateSources \cup Trees) : c.start[s].ver = src[s].ver
StartsInv == \A q \in Procs : EarlyStart(cmd[q])

LEMMA OthersMove ==
  ASSUME TypeOK, NEW q \in Procs, NEW r \in Procs \ {q}, Prepare(r) \/ Build(r) \/ Mishap(r)
  PROVE  cmd'[q] = cmd[q]
BY DEF Prepare, Build, BeginProfile, KeepStage3, TrashRoot, Untar, Link, SyncPortage, Decide,
   Emerge, GenpackPrepare, WriteDone, Verify, Shell, ToArtifacts, SkipUnprepared,
   CheckArtifact, TrashUpper, Copyup, SyncPackages, SyncArtifact, Finish, CheckOutfile,
   PackBegin, PackEnd, EndCommand, Mishap, Goto, Report, ProfileReady, Become, TypeOK

LEMMA StartsMove ==
  ASSUME TypeOK, [Next]_vars, NEW q \in Procs
  PROVE  \/ cmd'[q].start = cmd[q].start /\ (cmd[q].at = "idle" => cmd'[q].at = "idle")
         \/ cmd'[q] = Idle
         \/ UNCHANGED src /\ cmd'[q].start = src
<1>0. cmd[q] \in CommandType
  BY DEF TypeOK
<1>1. CASE \E r \in Procs : StartSome(r)
  <2> PICK r \in Procs : StartSome(r)
    BY <1>1
  <2> PICK kind \in Kinds, keep \in BOOLEAN, A \in SUBSET Jobs[r] \ {{}} :
        Start(r, kind, keep, A)
    BY DEF StartSome
  <2>1. CASE r = q
    BY <2>1 DEF Start, Become, TypeOK, Idle
  <2>2. CASE r # q
    BY <2>2 DEF Start, Become, TypeOK
  <2>3. QED
    BY <2>1, <2>2
<1>2. CASE UNCHANGED cmd
  BY <1>2
<1>3. CASE Prepare(q) \/ Build(q) \/ Mishap(q)
  <2>0. cmd[q].at # "idle"
    BY <1>3 DEF Prepare, Build, BeginProfile, KeepStage3, TrashRoot, Untar, Link, SyncPortage, Decide,
      Emerge, GenpackPrepare, WriteDone, Verify, Shell, ToArtifacts, SkipUnprepared,
      CheckArtifact, TrashUpper, Copyup, SyncPackages, SyncArtifact, Finish, CheckOutfile,
      PackBegin, PackEnd, EndCommand, Mishap, At
  <2>1. \A c \in CommandType : Raise(c) = Idle \/ Raise(c).start = c.start
    BY DEF Raise, CommandType
  <2>2. \A phase : Goto(q, phase) => cmd'[q].start = cmd[q].start
    BY <1>0 DEF Goto, Become, TypeOK, CommandType
  <2>3. Report(q) \/ ProfileReady(q) => cmd'[q].start = cmd[q].start
    <3>1. ASSUME Report(q) PROVE cmd'[q].start = cmd[q].start
      BY <1>0, <3>1 DEF Report, Become, TypeOK, CommandType
    <3>2. ASSUME ProfileReady(q) PROVE cmd'[q].start = cmd[q].start
      <4>1. cmd'[q] = [cmd[q] EXCEPT !.at = "next_profile", !.prof = None,
                                     !.prepared = @ \cup {cmd[q].prof}]
        BY <3>2 DEF ProfileReady, Become, TypeOK
      <4>2. QED
        BY <1>0, <4>1 DEF CommandType
    <3>3. QED
      BY <3>1, <3>2
  <2>4. Become(q, Raise(cmd[q])) \/ Become(q, Idle) =>
          cmd'[q] = Idle \/ cmd'[q].start = cmd[q].start
    BY <1>0, <2>1, Becomes
  <2>5. CASE BeginProfile(q) \/ SkipUnprepared(q) \/ Link(q)
    <3>1. CASE BeginProfile(q)
      BY <1>0, <2>0, <3>1 DEF BeginProfile, Become, TypeOK, CommandType
    <3>2. CASE SkipUnprepared(q)
      BY <1>0, <2>0, <3>2 DEF SkipUnprepared, Become, TypeOK, CommandType
    <3>3. CASE Link(q)
      BY <1>0, <2>0, <3>3 DEF Link, Become, TypeOK, CommandType
    <3>4. QED
      BY <2>5, <3>1, <3>2, <3>3
  <2>6. CASE CheckArtifact(q)
    <3> PICK a \in cmd[q].arts :
          LET chosen == [cmd[q] EXCEPT !.arts = @ \ {a}, !.art = a] IN
          \/ Become(q, Raise(chosen))
          \/ Become(q, [chosen EXCEPT !.at = "outfile"])
          \/ Become(q, [chosen EXCEPT !.at = "trash_upper"])
      BY <2>6 DEF CheckArtifact
    <3> DEFINE chosen == [cmd[q] EXCEPT !.arts = @ \ {a}, !.art = a]
    <3>1. chosen \in CommandType /\ chosen.start = cmd[q].start
      BY <1>0 DEF CommandType
    <3>2. \A phase \in {"outfile", "trash_upper"} : [chosen EXCEPT !.at = phase].start = chosen.start
      BY <3>1 DEF CommandType
    <3> HIDE DEF chosen
    <3>3. \/ cmd'[q] = Raise(chosen)
          \/ \E phase \in {"outfile", "trash_upper"} : cmd'[q] = [chosen EXCEPT !.at = phase]
      BY Becomes DEF chosen
    <3>4. QED
      BY <2>0, <2>1, <3>1, <3>2, <3>3
  <2>7. QED
    BY <1>3, <2>0, <2>2, <2>3, <2>4, <2>5, <2>6
    DEF Prepare, Build, SyncPortage, KeepStage3, TrashRoot, Untar, Decide, Emerge, GenpackPrepare,
        WriteDone, Verify, Shell, ToArtifacts, TrashUpper, Copyup, SyncPackages, SyncArtifact, Finish,
        CheckOutfile, PackBegin, PackEnd, EndCommand, Mishap
<1>4. CASE \E r \in Procs \ {q} : Prepare(r) \/ Build(r) \/ Mishap(r)
  BY <1>4, OthersMove
<1>5. QED
  BY <1>1, <1>2, <1>3, <1>4 DEF Next, Run, Clean, Edit, Remove, Rest, vars

LEMMA StartsStep ==
  ASSUME TypeOK, OneCommand, StartsInv, [Next]_vars
  PROVE  StartsInv'
<1> SUFFICES ASSUME NEW q \in Procs, cmd'[q].at # "idle",
                    NEW s \in Sources \ (LateSources \cup Trees)
             PROVE  cmd'[q].start[s].ver = src'[s].ver
  BY DEF StartsInv, EarlyStart
<1>1. CASE cmd'[q].start = cmd[q].start /\ cmd[q].at # "idle"
  <2>1. src'[s] = src[s] /\ cmd[q].start[s].ver = src[s].ver
    BY <1>1, EarlySourcesStay DEF StartsInv, EarlyStart, Trees
  <2>2. QED
    BY <1>1, <2>1
<1>2. CASE UNCHANGED src /\ cmd'[q].start = src
  BY <1>2
<1>3. cmd'[q] # Idle
  BY DEF Idle
<1>4. QED
  BY <1>1, <1>2, <1>3, StartsMove

LEMMA PastRootsStep ==
  ASSUME TypeOK, TypeOK', PastRoots, [Next]_vars
  PROVE  PastRoots'
<1>0. clock \in Nat /\ clock' \in {clock, clock + 1}
  BY SourcesGrow, SourceNames DEF TypeOK
<1>1. ASSUME NEW s \in Sources
      PROVE  src'[s].mtime <= clock' /\ src'[s].ver >= src[s].ver /\ src'[s].mtime >= src[s].mtime
  <2>1. /\ src[s].mtime \in Nat /\ src[s].ver \in Nat /\ src[s].mtime <= clock
        /\ src'[s].mtime \in Nat /\ src'[s].ver \in Nat
    BY DEF TypeOK, PastRoots
  <2>2. QED
    BY <1>0, <2>1, SourcesGrow
<1>2. ASSUME NEW p \in Profiles
      PROVE  root'[p].gen <= clock'
  <2>1. root[p].gen \in Nat /\ root[p].gen <= clock
    BY DEF TypeOK, RootType, PastRoots
  <2>2. root'[p].gen \in {root[p].gen, 0, clock'}
    BY RootsStep DEF SameRecord, Recorded
  <2>3. QED
    BY <1>0, <2>1, <2>2
<1>3. ASSUME NEW q \in Procs, NEW s \in Sources
      PROVE  cmd'[q].start[s].ver <= src'[s].ver /\ cmd'[q].start[s].mtime <= src'[s].mtime
  <2>1. /\ src[s].ver \in Nat /\ src'[s].ver \in Nat /\ cmd[q].start[s].ver \in Nat
        /\ src[s].mtime \in Nat /\ src'[s].mtime \in Nat /\ cmd[q].start[s].mtime \in Nat
        /\ cmd[q].start[s].ver <= src[s].ver /\ src'[s].ver >= src[s].ver
        /\ cmd[q].start[s].mtime <= src[s].mtime /\ src'[s].mtime >= src[s].mtime
    BY <1>1 DEF TypeOK, CommandType, PastRoots
  <2>2. \/ cmd'[q].start[s] = cmd[q].start[s] \/ cmd'[q].start[s] = src[s]
        \/ cmd'[q].start[s].ver = 0 /\ cmd'[q].start[s].mtime = 0
    <3>1. Idle.start = [t \in Sources |-> [ver |-> 0, mtime |-> 0]]
      BY DEF Idle, NoFile
    <3>2. \/ cmd'[q].start = cmd[q].start \/ cmd'[q].start = Idle.start
          \/ cmd'[q].start = src
      BY StartsMove
    <3>3. QED
      BY <3>1, <3>2
  <2>3. QED
    BY <2>1, <2>2
<1>4. QED
  BY <1>1, <1>2, <1>3 DEF PastRoots

LEMMA EmptyTree == NoUpper = [time |-> 0, gen |-> 0, json |-> 0, pkgs |-> 0, files |-> 0,
                              complete |-> FALSE, booted |-> FALSE]
BY DEF NoUpper, NoFile

LEMMA PastTreesStep ==
  ASSUME TypeOK, TypeOK', OwnOutfiles, PastRoots, PastTrees, [Next]_vars
  PROVE  PastTrees'
<1> SUFFICES ASSUME NEW a \in Artifacts
             PROVE  PastTree(a, upper[a])' /\ PastTree(a, Outfile(a).tree)' /\ Outfile(a).time' <= clock'
  BY DEF PastTrees
<1> DEFINE Versions == {src[BuildJson(a)].ver, src[Files(a)].ver, src[Packages].ver}
<1>0. /\ clock \in Nat /\ clock' \in {clock, clock + 1}
      /\ OutfileOf[a] \in Outfiles /\ ProfileOf[a] \in Profiles
      /\ \A s \in {BuildJson(a), Files(a), Packages} :
           s \in Sources /\ src[s].ver \in Nat /\ src'[s].ver \in Nat /\ src'[s].ver >= src[s].ver
  <2>1. OutfileOf[a] \in Outfiles /\ ProfileOf[a] \in Profiles
    BY ConstantsAssumption
  <2>2. \A s \in Sources : src[s].ver \in Nat /\ src'[s].ver \in Nat /\ src'[s].ver >= src[s].ver
    BY SourcesGrow DEF TypeOK
  <2>3. QED
    BY <2>1, <2>2, SourceNames, SourcesGrow DEF TypeOK
(* A tree that is past stays past.                                         *)
<1>1. ASSUME NEW t \in TreeType, PastTree(a, t), NEW u, u.time = t.time, u.gen = t.gen,
             u.json = t.json, u.pkgs = t.pkgs, u.files = t.files
      PROVE  /\ u.time <= clock' /\ u.gen <= clock' /\ u.json <= src'[BuildJson(a)].ver
             /\ u.files <= src'[Files(a)].ver /\ u.pkgs <= src'[Packages].ver
  BY <1>0, <1>1 DEF TreeType, PastTree
<1>2. /\ upper[a] \in TreeType /\ upper'[a] \in TreeType /\ PastTree(a, upper[a])
      /\ Outfile(a) \in ImageType /\ Outfile(a).tree \in TreeType
      /\ PastTree(a, Outfile(a).tree) /\ Outfile(a).time \in Nat /\ Outfile(a).time <= clock
  BY <1>0 DEF TypeOK, PastTrees, Outfile, ImageType
<1>3. PastTree(a, upper[a])'
  <2>1. CASE SameBuild(a)
    BY <1>1, <1>2, <2>1 DEF SameBuild, PastTree
  <2>2. CASE upper'[a] = NoUpper
    BY <1>0, <2>2, EmptyTree DEF PastTree
  <2>3. CASE \E q \in Procs : Copied(q, a)
    <3> PICK q \in Procs : Copied(q, a)
      BY <2>3
    <3>1. /\ upper'[a].time = clock' /\ upper'[a].gen = root[ProfileOf[a]].gen
          /\ upper'[a].json = cmd[q].start[BuildJson(a)].ver
          /\ upper'[a].pkgs = 0 /\ upper'[a].files = 0 /\ clock' = clock + 1 /\ src' = src
      BY EmptyTree DEF Copied
    <3>2. /\ root[ProfileOf[a]].gen \in Nat /\ root[ProfileOf[a]].gen <= clock
          /\ cmd[q].start[BuildJson(a)].ver <= src[BuildJson(a)].ver
      BY <1>0 DEF TypeOK, RootType, PastRoots
    <3>3. QED
      BY <1>0, <3>1, <3>2 DEF PastTree
  <2>4. CASE \E q \in Procs : Synced(q, a)
    <3> PICK q \in Procs : Synced(q, a)
      BY <2>4
    <3>1. /\ upper'[a].time = upper[a].time /\ upper'[a].gen = upper[a].gen
          /\ upper'[a].json = upper[a].json
          /\ upper'[a].pkgs \in {upper[a].pkgs, src[Packages].ver}
          /\ upper'[a].files \in {upper[a].files, src[Files(a)].ver}
          /\ clock' = clock /\ src' = src
      BY <1>2 DEF Synced, TreeType
    <3>2. QED
      BY <1>0, <1>2, <3>1 DEF PastTree
  <2>5. QED
    BY <2>1, <2>2, <2>3, <2>4, UppersStep
<1>4. PastTree(a, Outfile(a).tree)' /\ Outfile(a).time' <= clock'
  <2>1. CASE Outfile(a).tree' = Outfile(a).tree /\ Outfile(a).time' = Outfile(a).time
    BY <1>0, <1>1, <1>2, <2>1 DEF PastTree
  <2>2. CASE \E q \in Procs : BeginsPack(q, OutfileOf[a])
    <3> PICK q \in Procs : BeginsPack(q, OutfileOf[a])
      BY <2>2
    <3>1. cmd[q].art = a
      BY DEF BeginsPack, PackBegin, At, TypeOK, UpperPhases, OwnOutfiles
    <3>2. Outfile(a).tree' = upper[a] /\ Outfile(a).time' = clock'
      BY <3>1 DEF BeginsPack, Outfile
    <3>3. QED
      BY <1>0, <1>1, <1>2, <3>2 DEF PastTree
  <2>3. QED
    BY <1>0, <2>1, <2>2, OutfilesStep DEF Outfile
<1>5. QED
  BY <1>3, <1>4

(* What an upper directory holds of a source or a root is the latest,      *)
(* unless that is newer than the packages file.                            *)
AtWork(a, phases) == \E q \in Procs : cmd[q].at \in phases /\ cmd[q].art = a
SeenSource(time, ver, s) == src[s].mtime < time => ver = src[s].ver
SeenGen(time, gen, p) == root[p].gen # 0 /\ root[p].gen < time => gen = root[p].gen
SeenUpper(a) ==
  LET u == upper[a] IN
  u.time # NoFile =>
    /\ SeenSource(u.time, u.json, BuildJson(a))
    /\ AtWork(a, {"sync_packages"}) \/ SeenSource(u.time, u.pkgs, Packages)
    /\ AtWork(a, {"sync_packages", "sync_artifact"}) \/ SeenSource(u.time, u.files, Files(a))
    /\ SeenGen(u.time, u.gen, ProfileOf[a])
SeenUppersInv == \A a \in Artifacts : SeenUpper(a)

LEMMA LaterSource ==
  ASSUME TypeOK, OneCommand, [Next]_vars, NEW time \in Nat, time <= clock, NEW ver,
         NEW s \in Sources \ Trees,
         SeenSource(time, ver, s)
  PROVE  SeenSource(time, ver, s)'
<1>1. clock \in Nat /\ (src'[s] = src[s] \/ src'[s].mtime = clock + 1)
  BY SourcesStep DEF TypeOK, Changed
<1>2. QED
  BY <1>1 DEF SeenSource

LEMMA LaterGen ==
  ASSUME TypeOK, [Next]_vars, NEW time \in Nat, time <= clock, NEW gen, NEW p \in Profiles,
         SeenGen(time, gen, p)
  PROVE  SeenGen(time, gen, p)'
<1>1. clock \in Nat /\ root'[p].gen \in {root[p].gen, 0, clock + 1}
  BY RootsStep DEF TypeOK, SameRecord, Recorded
<1>2. QED
  BY <1>1 DEF SeenGen

(* Between the packages file and the outfile a command just goes on.       *)
LEMMA MakingStep ==
  ASSUME TypeOK, OneCommand, [Next]_vars, NEW q \in Procs, cmd[q].at \in Making
  PROVE  \/ SyncPackages(q) \/ SyncArtifact(q) \/ Finish(q) \/ CheckOutfile(q)
         \/ PackBegin(q) \/ PackEnd(q)
         \/ UNCHANGED <<root, upper, out, cmd>>
<1>1. CASE \E r \in Procs : Prepare(r)
  <2>1. Prepare(q)
    BY <1>1 DEF OneCommand
  <2>2. FALSE
    BY <2>1 DEF Prepare, BeginProfile, KeepStage3, TrashRoot, Untar, Link, SyncPortage, Decide, Emerge,
     GenpackPrepare, WriteDone, Verify, Shell, ToArtifacts, At, Making
  <2>3. QED
    BY <2>2
<1>2. CASE \E r \in Procs : Build(r)
  <2>1. Build(q)
    BY <1>2 DEF OneCommand
  <2>2. QED
    BY <2>1 DEF Build, SkipUnprepared, CheckArtifact, TrashUpper, Copyup, EndCommand, At, Making
<1>3. CASE \E r \in Procs : StartSome(r) \/ Mishap(r) \/ Run(r)
  <2>1. StartSome(q) \/ Mishap(q) \/ Run(q)
    BY <1>3 DEF OneCommand
  <2>2. FALSE
    BY <2>1 DEF StartSome, Start, Mishap, Run, At, Making, OneCommand
  <2>3. QED
    BY <2>2
<1>4. CASE Clean
  BY <1>4 DEF Clean, AllIdle, At, Making
<1>5. CASE Edit \/ Remove \/ UNCHANGED vars
  BY <1>5 DEF Edit, Remove, vars
<1>6. QED
  BY <1>1, <1>2, <1>3, <1>4, <1>5 DEF Next, Rest

LEMMA SeenUppersStep ==
  ASSUME TypeOK, TypeOK', OneCommand, PastRoots, PastTrees, StartsInv, SeenUppersInv, [Next]_vars
  PROVE  SeenUppersInv'
<1> SUFFICES ASSUME NEW a \in Artifacts, upper'[a].time # NoFile
             PROVE  SeenUpper(a)'
  BY DEF SeenUppersInv, SeenUpper
<1>0. /\ ProfileOf[a] \in Profiles
      /\ Files(a) \in Sources \ Trees /\ Packages \in Sources \ Trees
      /\ BuildJson(a) \in Sources \ (LateSources \cup Trees)
      /\ upper[a] \in TreeType /\ upper[a].time \in Nat /\ upper[a].time <= clock
      /\ clock \in Nat /\ SeenUpper(a)
  <2>1. ProfileOf[a] \in Profiles
    BY ConstantsAssumption
  <2>2. /\ BuildJson(a) \in Sources \ (LateSources \cup Trees)
        /\ Files(a) \in Sources \ Trees /\ Packages \in Sources \ Trees
    BY SourceNames DEF BuildJson, LateSources, Trees, Portage, Overlay, Packages, Files
  <2>3. upper[a] \in TreeType /\ upper[a].time \in Nat
    BY DEF TypeOK, TreeType
  <2>4. QED
    BY <2>1, <2>2, <2>3, SourceNames DEF TypeOK, SeenUppersInv, PastTrees, PastTree
<1>1. CASE \E q \in Procs : Copied(q, a)
  <2> PICK q \in Procs : Copied(q, a)
    BY <1>1
  <2>1. /\ upper'[a].time = clock + 1 /\ upper'[a].gen = root[ProfileOf[a]].gen
        /\ upper'[a].json = cmd[q].start[BuildJson(a)].ver /\ src' = src /\ root' = root
    BY EmptyTree DEF Copied
  <2>2. cmd'[q].at = "sync_packages" /\ cmd'[q].art = a /\ cmd[q].at # "idle"
    BY DEF Copied, Copyup, At, Goto, Become, TypeOK, CommandType
  <2>3. AtWork(a, {"sync_packages"})' /\ AtWork(a, {"sync_packages", "sync_artifact"})'
    BY <2>2 DEF AtWork
  <2>4. cmd[q].start[BuildJson(a)].ver = src[BuildJson(a)].ver
    BY <1>0, <2>2 DEF StartsInv, EarlyStart
  <2>5. SeenSource(upper[a].time, upper[a].json, BuildJson(a))'
    BY <2>1, <2>4 DEF SeenSource
  <2>6. SeenGen(upper[a].time, upper[a].gen, ProfileOf[a])'
    BY <2>1 DEF SeenGen
  <2>7. QED
    BY <2>3, <2>5, <2>6 DEF SeenUpper
<1>2. CASE \E q \in Procs : Synced(q, a)
  <2> PICK q \in Procs : Synced(q, a)
    BY <1>2
  <2>1. /\ upper'[a].time = upper[a].time /\ upper'[a].gen = upper[a].gen
        /\ upper'[a].json = upper[a].json /\ src' = src /\ root' = root
    BY <1>0 DEF Synced, TreeType
  <2>2. /\ SeenSource(upper[a].time, upper[a].json, BuildJson(a))'
        /\ SeenGen(upper[a].time, upper[a].gen, ProfileOf[a])'
    BY <1>0, <2>1 DEF SeenUpper, SeenSource, SeenGen
  <2>3. CASE SyncPackages(q)
    <3>1. upper'[a].pkgs = src[Packages].ver
      BY <1>0, <2>3 DEF Synced, SyncPackages, TreeType, TypeOK
    <3>2. cmd'[q].at = "sync_artifact" /\ cmd'[q].art = a
      BY <2>3 DEF Synced, SyncPackages, Goto, Become, TypeOK, CommandType
    <3>3. AtWork(a, {"sync_packages", "sync_artifact"})' /\ SeenSource(upper[a].time, upper[a].pkgs, Packages)'
      BY <2>1, <3>1, <3>2 DEF AtWork, SeenSource
    <3>4. QED
      BY <2>2, <3>3 DEF SeenUpper
  <2>4. CASE SyncArtifact(q)
    <3>1. upper'[a].files = src[Files(a)].ver /\ upper'[a].pkgs = upper[a].pkgs
      BY <1>0, <2>4 DEF Synced, SyncArtifact, TreeType, TypeOK
    <3>2. ~AtWork(a, {"sync_packages"})
      BY <2>4 DEF SyncArtifact, At, AtWork, OneCommand
    <3>3. /\ SeenSource(upper[a].time, upper[a].files, Files(a))'
          /\ SeenSource(upper[a].time, upper[a].pkgs, Packages)'
      BY <1>0, <2>1, <3>1, <3>2 DEF SeenSource, SeenUpper
    <3>4. QED
      BY <2>2, <3>3 DEF SeenUpper
  <2>5. QED
    BY <2>3, <2>4 DEF Synced
<1>3. CASE /\ SameBuild(a) /\ ~ \E q \in Procs : Synced(q, a)
  <2>1. /\ SeenSource(upper[a].time, upper[a].json, BuildJson(a))'
        /\ SeenGen(upper[a].time, upper[a].gen, ProfileOf[a])'
    <3>1. /\ SeenSource(upper[a].time, upper[a].json, BuildJson(a))
          /\ SeenGen(upper[a].time, upper[a].gen, ProfileOf[a])
      BY <1>0, <1>3 DEF SeenUpper, SameBuild
    <3>2. PICK t \in Nat, j \in {upper[a].json}, g \in {upper[a].gen} : t = upper[a].time
      BY <1>0
    <3>3. /\ SeenSource(t, j, BuildJson(a))' /\ SeenGen(t, g, ProfileOf[a])'
      <4>1. SeenSource(t, j, BuildJson(a)) /\ SeenGen(t, g, ProfileOf[a])
        BY <3>1, <3>2
      <4>2. t <= clock
        BY <1>0, <3>2
      <4>3. SeenSource(t, j, BuildJson(a))'
        BY <1>0, <4>1, <4>2, LaterSource
      <4>4. SeenGen(t, g, ProfileOf[a])'
        BY <1>0, <4>1, <4>2, LaterGen
      <4>5. QED
        BY <4>3, <4>4
    <3>4. QED
      BY <1>3, <3>2, <3>3 DEF SameBuild, SeenSource, SeenGen
  <2>2. ASSUME NEW s \in {Packages, Files(a)}, NEW v, SeenSource(upper[a].time, v, s)
        PROVE  \A t : t = upper'[a].time => (SeenSource(t, v, s))'
    <3>1. PICK t \in Nat : t = upper[a].time
      BY <1>0
    <3>2. SeenSource(t, v, s)'
      BY <1>0, <2>2, <3>1, LaterSource
    <3>3. QED
      BY <1>3, <3>1, <3>2 DEF SameBuild
  <2>3. ASSUME AtWork(a, {"sync_packages"}), ~AtWork(a, {"sync_packages"})'
        PROVE  FALSE
    <3>1. PICK q \in Procs : cmd[q].at = "sync_packages" /\ cmd[q].art = a
      BY <2>3 DEF AtWork
    <3>2. SyncPackages(q) \/ UNCHANGED cmd
      BY <3>1, MakingStep DEF Making, SyncPackages, SyncArtifact, Finish, CheckOutfile, PackBegin, PackEnd, At
    <3>3. ~UNCHANGED cmd
      BY <2>3 DEF AtWork
    <3>4. Synced(q, a)
      BY <3>1, <3>2, <3>3 DEF SyncPackages, Synced, TypeOK
    <3>5. QED
      BY <1>3, <3>4
  <2>4. ASSUME AtWork(a, {"sync_packages", "sync_artifact"}), ~AtWork(a, {"sync_packages", "sync_artifact"})'
        PROVE  FALSE
    <3>1. PICK q \in Procs : cmd[q].at \in {"sync_packages", "sync_artifact"} /\ cmd[q].art = a
      BY <2>4 DEF AtWork
    <3>2. SyncPackages(q) \/ SyncArtifact(q) \/ UNCHANGED cmd
      BY <3>1, MakingStep DEF Making, SyncPackages, SyncArtifact, Finish, CheckOutfile, PackBegin, PackEnd, At
    <3>3. ~UNCHANGED cmd
      BY <2>4 DEF AtWork
    <3>4. Synced(q, a)
      BY <3>1, <3>2, <3>3 DEF SyncPackages, SyncArtifact, Synced, TypeOK
    <3>5. QED
      BY <1>3, <3>4
  <2>5. /\ AtWork(a, {"sync_packages"})' \/ SeenSource(upper[a].time, upper[a].pkgs, Packages)
        /\ \/ AtWork(a, {"sync_packages", "sync_artifact"})'
           \/ SeenSource(upper[a].time, upper[a].files, Files(a))
    BY <1>0, <1>3, <2>3, <2>4 DEF SeenUpper, SameBuild
  <2>6. /\ AtWork(a, {"sync_packages"})' \/ SeenSource(upper[a].time, upper[a].pkgs, Packages)'
        /\ \/ AtWork(a, {"sync_packages", "sync_artifact"})'
           \/ SeenSource(upper[a].time, upper[a].files, Files(a))'
    <3>1. PICK v, w : v = upper[a].pkgs /\ w = upper[a].files
      OBVIOUS
    <3>2. v = upper'[a].pkgs /\ w = upper'[a].files
      BY <1>3, <3>1 DEF SameBuild
    <3>3. /\ SeenSource(upper[a].time, v, Packages) => SeenSource(upper[a].time, v, Packages)'
          /\ SeenSource(upper[a].time, w, Files(a)) => SeenSource(upper[a].time, w, Files(a))'
      BY <2>2 DEF SeenSource
    <3>4. QED
      BY <2>5, <3>1, <3>2, <3>3 DEF SeenSource
  <2>7. QED
    BY <2>1, <2>6 DEF SeenUpper
<1>4. QED
  BY <1>1, <1>2, <1>3, UppersStep, EmptyTree DEF NoFile

(* An outfile that is newer than the build is the build's whole image, and *)
(* so is every build that no command has in hand.                          *)
Packed(a) ==
  /\ Outfile(a).whole /\ Outfile(a).of = a /\ Outfile(a).time > upper[a].time
  /\ Outfile(a).tree = [upper[a] EXCEPT !.booted = FALSE]
Settled(a) == upper[a].time # NoFile /\ ~AtWork(a, Making) => upper[a].complete /\ Packed(a)
NewRoot(a) == root[ProfileOf[a]].gen # 0 => root[ProfileOf[a]].gen >= Outfile(a).tree.gen

(* What is made is, phase by phase, no older than what the command started *)
(* with nor than what the outfile has.                                     *)
Made(c) ==
  LET a == c.art
      new == upper[a]
      old == Outfile(a).tree
  IN /\ c.at = "copyup" => new.time = NoFile
     /\ c.at \in Making =>
          /\ new.time # NoFile
          /\ new.gen = root[ProfileOf[a]].gen /\ new.gen >= old.gen
          /\ new.json >= c.start[BuildJson(a)].ver /\ new.json >= old.json
     /\ c.at \in Making \ {"sync_packages"} =>
          new.pkgs >= c.start[Packages].ver /\ new.pkgs >= old.pkgs
     /\ c.at \in Making \ {"sync_packages", "sync_artifact"} =>
          new.files >= c.start[Files(a)].ver /\ new.files >= old.files
     /\ c.at \in {"sync_packages", "sync_artifact", "finish"} =>
          ~new.booted /\ Outfile(a).time <= new.time
     /\ c.at \in {"outfile", "pack", "packing"} => new.complete
     /\ c.at = "outfile" => IF OutfileUpToDate(a) THEN Packed(a) ELSE ~new.booted
     /\ c.at = "pack" => ~new.booted
     /\ c.at = "packing" =>
          /\ Outfile(a).of = a /\ old = new /\ Outfile(a).time > new.time /\ ~new.booted
Listed(q) ==
  LET c == cmd[q] IN
  /\ c.at \notin ArtifactPhases => c.reported = {}
  /\ c.reported \cap c.arts = {}
  /\ c.at \in UpperPhases => c.art \notin c.arts \cup c.reported
  /\ \A a \in c.reported : Fresh(q, a)
PackInv ==
  /\ \A a \in Artifacts : Settled(a) /\ NewRoot(a)
  /\ \A q \in Procs : Made(cmd[q]) /\ Listed(q)

LEMMA NewRootStep ==
  ASSUME TypeOK, TypeOK', PastRoots, PastTrees, SeenUppersInv, PackInv, [Next]_vars, NEW a \in Artifacts,
         Outfile(a).tree' = Outfile(a).tree
  PROVE  NewRoot(a)'
<1>1. ProfileOf[a] \in Profiles /\ OutfileOf[a] \in Outfiles
  BY ConstantsAssumption
<1>2. /\ clock \in Nat /\ root[ProfileOf[a]].gen \in Nat /\ Outfile(a).tree.gen \in Nat
      /\ Outfile(a).tree.gen <= clock
  BY <1>1 DEF TypeOK, RootType, ImageType, TreeType, Outfile, PastTrees, PastTree
<1>3. root'[ProfileOf[a]].gen \in {root[ProfileOf[a]].gen, 0, clock + 1}
  BY <1>1, RootsStep DEF SameRecord, Recorded
<1>4. NewRoot(a)
  BY DEF PackInv
<1>5. QED
  BY <1>2, <1>3, <1>4 DEF NewRoot

(* Steps that leave the builds and the outfiles alone.                     *)
LEMMA QuietMade ==
  ASSUME TypeOK, PackInv, UNCHANGED <<upper, out>>, NEW q \in Procs,
         \/ cmd'[q].at \notin UpperPhases
         \/ cmd'[q] = cmd[q] /\ UNCHANGED root
  PROVE  Made(cmd[q])'
<1>1. CASE cmd'[q].at \notin UpperPhases
  BY <1>1 DEF Made, Making, UpperPhases
<1>2. CASE cmd'[q] = cmd[q] /\ UNCHANGED root
  <2>1. Made(cmd[q])
    BY DEF PackInv
  <2>2. QED
    BY <1>2, <2>1 DEF Made, Outfile, Packed, OutfileUpToDate
<1>3. QED
  BY <1>1, <1>2

LEMMA QuietSettled ==
  ASSUME PackInv, UNCHANGED <<upper, out>>, NEW a \in Artifacts,
         \A q \in Procs : cmd[q].at \in Making => cmd'[q] = cmd[q]
  PROVE  Settled(a)'
<1>1. ~AtWork(a, Making)' => ~AtWork(a, Making)
  BY DEF AtWork
<1>2. QED
  BY <1>1 DEF PackInv, Settled, Packed, Outfile

(* A report stays fresh while nothing is written to what it is about.      *)
LEMMA FreshStays ==
  ASSUME NEW q \in Procs, NEW a \in Artifacts, Fresh(q, a), Outfile(a)' = Outfile(a),
         SameRecord(ProfileOf[a]), cmd'[q].start = cmd[q].start
  PROVE  Fresh(q, a)'
BY DEF Fresh, TreeNoticed, Outfile, SameRecord

LEMMA BuildRecord ==
  ASSUME TypeOK, NEW q \in Procs, Build(q) \/ Mishap(q), NEW p \in Profiles
  PROVE  SameRecord(p)
<1>1. CASE CheckArtifact(q)
  <2>1. PICK a \in cmd[q].arts : QueryDone(ProfileOf[a]) \/ UNCHANGED root
    BY <1>1 DEF CheckArtifact
  <2>2. ProfileOf[a] \in Profiles
    BY ConstantsAssumption DEF TypeOK, CommandType
  <2>3. QED
    BY <2>1, <2>2, QueryRecord DEF SameRecord
<1>2. CASE ~CheckArtifact(q)
  BY <1>2 DEF Build, SkipUnprepared, TrashUpper, Copyup, SyncPackages, SyncArtifact, Finish,
     CheckOutfile, PackBegin, PackEnd, EndCommand, Mishap, SameRecord
<1>3. QED
  BY <1>1, <1>2

LEMMA AwayListed ==
  ASSUME TypeOK, PackInv, UNCHANGED out, NEW q \in Procs, Away(cmd[q], cmd'[q]),
         cmd[q].at \in ArtifactPhases => \A p \in Profiles : SameRecord(p)
  PROVE  Listed(q)'
<1>1. Listed(q) /\ cmd[q] \in CommandType
  BY DEF PackInv, TypeOK
<1>2. CASE cmd'[q].reported = {}
  BY <1>2 DEF Away, Listed
<1>3. CASE /\ cmd[q].at \in ArtifactPhases /\ cmd'[q].at \in ArtifactPhases
           /\ cmd'[q].arts \subseteq cmd[q].arts /\ cmd'[q].reported = cmd[q].reported
           /\ cmd'[q].start = cmd[q].start
  <2>1. ASSUME NEW a \in cmd[q].reported PROVE Fresh(q, a)'
    <3>1. a \in Artifacts /\ ProfileOf[a] \in Profiles /\ Fresh(q, a)
      BY <1>1, ConstantsAssumption DEF CommandType, Listed
    <3>2. QED
      BY <1>3, <3>1, FreshStays DEF Outfile
  <2>2. QED
    BY <1>1, <1>3, <2>1 DEF Away, Listed
<1>4. CASE cmd[q].at \in PreparePhases /\ cmd'[q].reported = cmd[q].reported
  BY <1>1, <1>2, <1>4, PartNames DEF Listed
<1>5. QED
  BY <1>2, <1>3, <1>4 DEF Away

LEMMA AwayStep ==
  ASSUME TypeOK, TypeOK', OneCommand, PastRoots, PastTrees, SeenUppersInv, PackInv, [Next]_vars,
         UNCHANGED <<upper, out>>, NEW q \in Procs, Away(cmd[q], cmd'[q]), cmd[q].at \notin Making,
         cmd[q].at \in ArtifactPhases => \A p \in Profiles : SameRecord(p)
  PROVE  PackInv'
<1>1. \A a \in Artifacts : Settled(a)' /\ NewRoot(a)'
  BY QuietSettled, NewRootStep DEF OneCommand, OwnOutfiles, Outfile
<1>2. Made(cmd[q])' /\ Listed(q)'
  BY QuietMade, AwayListed DEF Away
<1>3. QED
  BY <1>1, <1>2 DEF PackInv, OneCommand

LEMMA StillStep ==
  ASSUME TypeOK, TypeOK', PastRoots, PastTrees, SeenUppersInv, PackInv, [Next]_vars,
         UNCHANGED <<upper, out, root, cmd>>
  PROVE  PackInv'
<1>1. \A a \in Artifacts : Settled(a)' /\ NewRoot(a)'
  BY QuietSettled, NewRootStep DEF Outfile
<1>2. ASSUME NEW q \in Procs PROVE Made(cmd[q])' /\ Listed(q)'
  <2>1. Made(cmd[q])'
    BY QuietMade
  <2>2. Listed(q)'
    BY DEF PackInv, Listed, Fresh, TreeNoticed
  <2>3. QED
    BY <2>1, <2>2
<1>3. QED
  BY <1>1, <1>2 DEF PackInv

(* A build that is found up to date is as good as one just made.           *)
LEMMA FoundIsMade ==
  ASSUME TypeOK, RootInv, ReadyInv, PastRoots, PastTrees, SeenUppersInv, PackInv, OneCommand,
         NEW q \in Procs, cmd[q].at = "next_artifact", NEW a \in Artifacts,
         upper[a].time # NoFile, UpToDate(a), DoneTime(root[ProfileOf[a]]) # NoFile
  PROVE  /\ upper[a].complete /\ Packed(a)
         /\ upper[a].gen = root[ProfileOf[a]].gen
         /\ upper[a].json >= cmd[q].start[BuildJson(a)].ver
         /\ upper[a].pkgs >= cmd[q].start[Packages].ver
         /\ upper[a].files >= cmd[q].start[Files(a)].ver
<1> DEFINE p == ProfileOf[a] u == upper[a]
<1>0. /\ p \in Profiles /\ BuildJson(a) \in Sources /\ Files(a) \in Sources /\ Packages \in Sources
      /\ u \in TreeType /\ root[p] \in RootType
  BY ConstantsAssumption, SourceNames DEF TypeOK
<1>1. ~AtWork(a, Making) /\ ~AtWork(a, {"sync_packages"}) /\ ~AtWork(a, {"sync_packages", "sync_artifact"})
  BY DEF AtWork, Making, OneCommand
<1>2. u.complete /\ Packed(a)
  BY <1>1 DEF PackInv, Settled
<1>3. DoneTime(root[p]) = root[p].gen /\ root[p].gen # 0
  BY <1>0 DEF RootInv, CleanRoot, DoneTime, DoneIsStale, NoFile, RootType
<1>4. /\ root[p].gen < u.time /\ src[BuildJson(a)].mtime < u.time /\ src[Files(a)].mtime < u.time
      /\ src[Packages].mtime < u.time
  <2>1. /\ root[p].gen \in Nat /\ u.time \in Nat /\ src[BuildJson(a)].mtime \in Nat
        /\ src[Files(a)].mtime \in Nat /\ src[Packages].mtime \in Nat
    BY <1>0 DEF TypeOK, RootType, TreeType
  <2>2. u.time > Later(root[p].gen, Later(Later(src[BuildJson(a)].mtime, src[Files(a)].mtime),
                                          src[Packages].mtime))
    BY <1>3 DEF UpToDate, ArtifactTime
  <2>3. QED
    BY <2>1, <2>2 DEF Later
<1>5. u.gen = root[p].gen /\ u.json = src[BuildJson(a)].ver /\ u.pkgs = src[Packages].ver
      /\ u.files = src[Files(a)].ver
  BY <1>1, <1>3, <1>4 DEF SeenUppersInv, SeenUpper, SeenSource, SeenGen
<1>6. \A s \in Sources : /\ cmd[q].start[s].ver \in Nat /\ src[s].ver \in Nat
                         /\ cmd[q].start[s].ver <= src[s].ver
  BY DEF TypeOK, CommandType, PastRoots
<1>7. QED
  BY <1>0, <1>2, <1>5, <1>6

(* A step of a command on one artifact.                                    *)
LEMMA OwnStep ==
  ASSUME TypeOK, TypeOK', OneCommand, PastRoots, PastTrees, SeenUppersInv, PackInv, [Next]_vars,
         NEW q \in Procs, NEW a \in Artifacts,
         \A b \in Artifacts \ {a} : upper'[b] = upper[b] /\ Outfile(b)' = Outfile(b),
         cmd[q].at \in Making => cmd[q].art = a,
         Settled(a)', NewRoot(a)', Made(cmd[q])', Listed(q)'
  PROVE  PackInv'
<1>1. ASSUME NEW b \in Artifacts \ {a} PROVE Settled(b)' /\ NewRoot(b)'
  <2>1. ~AtWork(b, Making)
    BY DEF AtWork, OneCommand
  <2>2. Settled(b)'
    BY <2>1 DEF PackInv, Settled, Packed, Outfile
  <2>3. NewRoot(b)'
    BY NewRootStep
  <2>4. QED
    BY <2>2, <2>3
<1>2. QED
  BY <1>1 DEF PackInv, OneCommand

LEMMA AdvanceListed ==
  ASSUME TypeOK, PackInv, NEW q \in Procs, Advances(cmd[q], cmd'[q]), NEW a \in Artifacts, a = cmd[q].art,
         \A b \in Artifacts \ {a} : Outfile(b)' = Outfile(b),
         \A p \in Profiles : SameRecord(p)
  PROVE  Listed(q)'
<1>1. Listed(q) /\ cmd[q] \in CommandType
  BY DEF PackInv, TypeOK
<1>2. ASSUME NEW b \in cmd[q].reported PROVE Fresh(q, b)'
  <2>1. b \in Artifacts /\ b # a /\ ProfileOf[b] \in Profiles /\ Fresh(q, b)
    BY <1>1, ConstantsAssumption DEF CommandType, Listed, Advances
  <2>2. QED
    BY <2>1, FreshStays DEF Advances, SameList
<1>3. QED
  BY <1>1, <1>2, PartNames DEF Advances, SameList, Listed

LEMMA ReportListed ==
  ASSUME TypeOK, PackInv, NEW q \in Procs, Reports(cmd[q], cmd'[q]), NEW a \in Artifacts, a = cmd[q].art,
         \A b \in Artifacts \ {a} : Outfile(b)' = Outfile(b),
         \A p \in Profiles : SameRecord(p), Fresh(q, a)'
  PROVE  Listed(q)'
<1>1. Listed(q) /\ cmd[q] \in CommandType
  BY DEF PackInv, TypeOK
<1>2. ASSUME NEW b \in cmd[q].reported PROVE Fresh(q, b)'
  <2>1. b \in Artifacts /\ b # a /\ ProfileOf[b] \in Profiles /\ Fresh(q, b)
    BY <1>1, ConstantsAssumption DEF CommandType, Listed, Reports
  <2>2. QED
    BY <2>1, FreshStays DEF Reports
<1>3. QED
  BY <1>1, <1>2, PartNames DEF Reports, Listed

LEMMA PickStep ==
  ASSUME TypeOK, TypeOK', OneCommand, RootInv, ReadyInv, PastRoots, PastTrees, SeenUppersInv, PackInv,
         [Next]_vars, NEW q \in Procs, CheckArtifact(q), Picks(cmd[q], cmd'[q]),
         cmd'[q].at = "outfile" =>
           LET a == cmd'[q].art IN
           /\ upper[a].time # NoFile /\ UpToDate(a)
           /\ DoneTime(root[ProfileOf[a]]) # NoFile
  PROVE  PackInv'
<1>0. cmd[q] \in CommandType /\ Listed(q) /\ cmd[q].at = "next_artifact"
  BY DEF TypeOK, PackInv, Picks
<1> PICK a \in Artifacts : a = cmd'[q].art
  BY <1>0 DEF Picks, CommandType
<1>1. UNCHANGED <<upper, out>> /\ \A p \in Profiles : SameRecord(p)
  BY BuildRecord DEF Build, CheckArtifact
<1>2. Outfile(a)' = Outfile(a) /\ ~AtWork(a, Making) /\ ProfileOf[a] \in Profiles
  BY <1>0, <1>1, ConstantsAssumption DEF Outfile, AtWork, Making, OneCommand, OwnOutfiles
<1>3. Settled(a)' /\ NewRoot(a)'
  <2>1. Settled(a)'
    BY <1>1, <1>2 DEF PackInv, Settled, Packed, Outfile
  <2>2. QED
    BY <1>2, <2>1, NewRootStep
<1>4. Listed(q)'
  <2>1. ASSUME NEW b \in cmd[q].reported PROVE Fresh(q, b)'
    <3>1. b \in Artifacts /\ ProfileOf[b] \in Profiles /\ Fresh(q, b)
      BY <1>0, ConstantsAssumption DEF CommandType, Listed
    <3>2. QED
      BY <1>1, <3>1, FreshStays DEF Picks, Outfile
  <2>2. QED
    BY <1>0, <2>1, PartNames DEF Picks, Listed, UpperPhases
<1>5. Made(cmd[q])'
  <2>1. CASE cmd'[q].at = "trash_upper"
    BY <2>1 DEF Made, Making
  <2>2. CASE cmd'[q].at = "outfile"
    <3>1. /\ upper[a].complete /\ Packed(a)
          /\ upper[a].gen = root[ProfileOf[a]].gen
          /\ upper[a].json >= cmd[q].start[BuildJson(a)].ver
          /\ upper[a].pkgs >= cmd[q].start[Packages].ver
          /\ upper[a].files >= cmd[q].start[Files(a)].ver
          /\ upper[a].time # NoFile
      BY <1>0, <2>2, FoundIsMade
    <3>2. upper[a] \in TreeType
      BY DEF TypeOK
    <3>3. LET old == Outfile(a).tree IN
          /\ upper[a].gen >= old.gen /\ upper[a].json >= old.json
          /\ upper[a].pkgs >= old.pkgs /\ upper[a].files >= old.files
      BY <3>1, <3>2 DEF Packed, TreeType
    <3>4. root'[ProfileOf[a]].gen = root[ProfileOf[a]].gen /\ cmd'[q].start = cmd[q].start
      BY <1>1, <1>2 DEF SameRecord, Picks
    <3>5. OutfileUpToDate(a) /\ (OutfileUpToDate(a) /\ Packed(a))'
      BY <1>1, <3>1 DEF OutfileUpToDate, Packed, Outfile
    <3>6. /\ upper'[a] = upper[a] /\ Outfile(a)' = Outfile(a)
      BY <1>1, <1>2
    <3>7. QED
      BY <2>2, <3>1, <3>3, <3>4, <3>5, <3>6 DEF Made, Making
  <2>3. QED
    BY <2>1, <2>2 DEF Picks
<1>6. QED
  BY <1>0, <1>1, <1>3, <1>4, <1>5, OwnStep DEF Outfile, Making

LEMMA TrashUpperStep ==
  ASSUME TypeOK, TypeOK', OneCommand, PastRoots, PastTrees, SeenUppersInv, PackInv, [Next]_vars,
         NEW q \in Procs, TrashUpper(q)
  PROVE  PackInv'
<1> PICK a \in Artifacts : a = cmd[q].art
  BY DEF TrashUpper, At, TypeOK, UpperPhases
<1>1. Advances(cmd[q], cmd'[q]) /\ cmd'[q].at = "copyup" /\ cmd[q].at = "trash_upper"
  BY GotoAdvances DEF TrashUpper, At, UpperPhases
<1>2. upper'[a].time = NoFile /\ \A b \in Artifacts \ {a} : upper'[b] = upper[b]
  BY EmptyTree DEF TrashUpper, TypeOK, NoFile
<1>3. UNCHANGED out /\ (\A b \in Artifacts : Outfile(b)' = Outfile(b)) /\ \A p \in Profiles : SameRecord(p)
  BY BuildRecord DEF Build, TrashUpper, Outfile
<1>4. Settled(a)' /\ NewRoot(a)'
  BY <1>2, <1>3, NewRootStep DEF Settled
<1>5. Made(cmd[q])' /\ Listed(q)'
  BY <1>1, <1>2, <1>3, AdvanceListed DEF Made, Advances, Making
<1>6. QED
  BY <1>1, <1>2, <1>3, <1>4, <1>5, OwnStep DEF Making

LEMMA CopyupStep ==
  ASSUME TypeOK, TypeOK', OneCommand, ScopeInv, ReadyInv, PastRoots, PastTrees, StartsInv, SeenUppersInv,
         PackInv, [Next]_vars, NEW q \in Procs, Copyup(q)
  PROVE  PackInv'
<1> PICK a \in Artifacts : a = cmd[q].art
  BY DEF Copyup, At, TypeOK, UpperPhases
<1>1. Advances(cmd[q], cmd'[q]) /\ cmd'[q].at = "sync_packages" /\ cmd[q].at = "copyup"
  BY GotoAdvances DEF Copyup, At, UpperPhases
<1>2. /\ upper'[a].time = clock + 1 /\ upper'[a].gen = root[ProfileOf[a]].gen
      /\ upper'[a].json = cmd[q].start[BuildJson(a)].ver /\ ~upper'[a].booted
      /\ \A b \in Artifacts \ {a} : upper'[b] = upper[b]
  BY EmptyTree DEF Copyup, Stamp, TypeOK
<1>3. UNCHANGED out /\ (\A b \in Artifacts : Outfile(b)' = Outfile(b)) /\ \A p \in Profiles : SameRecord(p)
  BY BuildRecord DEF Build, Copyup, Outfile
<1>4. AtWork(a, Making)'
  BY <1>1 DEF AtWork, Advances, Making
<1>5. Settled(a)' /\ NewRoot(a)'
  BY <1>3, <1>4, NewRootStep DEF Settled
<1>6. Made(cmd[q])'
  <2>1. /\ ProfileOf[a] \in Profiles /\ root[ProfileOf[a]].gen # 0
        /\ BuildJson(a) \in Sources \ (LateSources \cup Trees)
    <3>1. ProfileOf[a] \in Profiles
      BY ConstantsAssumption
    <3>2. ProfileOf[a] \in cmd[q].prepared
      BY <1>1 DEF ScopeInv, Scope, UpperPhases
    <3>3. BuildJson(a) \in Sources \ (LateSources \cup Trees)
      BY SourceNames DEF BuildJson, LateSources, Trees, Portage, Overlay, Packages, Files
    <3>4. QED
      BY <3>1, <3>2, <3>3 DEF ReadyInv
  <2>2. root[ProfileOf[a]].gen >= Outfile(a).tree.gen
    BY <2>1 DEF PackInv, NewRoot
  <2>3. cmd[q].start[BuildJson(a)].ver = src[BuildJson(a)].ver
    BY <1>1, <2>1 DEF StartsInv, EarlyStart
  <2>4. /\ clock \in Nat /\ src[BuildJson(a)].ver \in Nat /\ Outfile(a).time \in Nat
        /\ Outfile(a).time <= clock /\ Outfile(a).tree.json <= src[BuildJson(a)].ver
    BY <2>1, ConstantsAssumption DEF TypeOK, ImageType, Outfile, PastTrees, PastTree
  <2>5. root'[ProfileOf[a]].gen = root[ProfileOf[a]].gen
    BY <1>3, <2>1 DEF SameRecord
  <2>6. /\ cmd'[q].art = a /\ cmd'[q].start = cmd[q].start
    BY <1>1 DEF Advances, SameList
  <2>7. /\ upper'[a].time # NoFile /\ upper'[a].gen >= Outfile(a).tree.gen
        /\ upper'[a].json >= cmd[q].start[BuildJson(a)].ver /\ upper'[a].json >= Outfile(a).tree.json
        /\ Outfile(a).time <= upper'[a].time
    BY <1>2, <2>2, <2>3, <2>4 DEF NoFile
  <2>8. Outfile(a)' = Outfile(a)
    BY <1>3
  <2>9. QED
    BY <1>1, <1>2, <2>5, <2>6, <2>7, <2>8 DEF Made, Making
<1>7. Listed(q)'
  BY <1>1, <1>3, AdvanceListed
<1>8. QED
  BY <1>1, <1>2, <1>3, <1>5, <1>6, <1>7, OwnStep DEF Making

(* What the steps that fill an upper directory have in common.             *)
LEMMA FillStep ==
  ASSUME TypeOK, TypeOK', OneCommand, PastRoots, PastTrees, SeenUppersInv, PackInv, [Next]_vars,
         NEW q \in Procs, SyncPackages(q) \/ SyncArtifact(q) \/ Finish(q),
         NEW a \in Artifacts, a = cmd[q].art, Made(cmd[q])',
         cmd'[q].at = "outfile" \/ cmd'[q].at \in {"sync_artifact", "finish"}
  PROVE  PackInv'
<1>1. Advances(cmd[q], cmd'[q])
  BY GotoAdvances DEF SyncPackages, SyncArtifact, Finish, At, UpperPhases
<1>2. \A b \in Artifacts \ {a} : upper'[b] = upper[b]
  BY DEF SyncPackages, SyncArtifact, Finish, TypeOK
<1>3. UNCHANGED out /\ (\A b \in Artifacts : Outfile(b)' = Outfile(b)) /\ \A p \in Profiles : SameRecord(p)
  BY BuildRecord DEF Build, SyncPackages, SyncArtifact, Finish, Outfile
<1>4. AtWork(a, Making)'
  BY <1>1 DEF AtWork, Advances, Making
<1>5. Settled(a)' /\ NewRoot(a)' /\ Listed(q)'
  BY <1>1, <1>3, <1>4, NewRootStep, AdvanceListed DEF Settled
<1>6. QED
  BY <1>2, <1>3, <1>5, OwnStep

(* The sources a build reads are no older than what the command started    *)
(* with, nor than what the outfile has.                                    *)
LEMMA SourcesAdvance ==
  ASSUME TypeOK, PastRoots, PastTrees, NEW q \in Procs, NEW a \in Artifacts
  PROVE  /\ src[Packages].ver >= cmd[q].start[Packages].ver /\ src[Packages].ver >= Outfile(a).tree.pkgs
         /\ src[Files(a)].ver >= cmd[q].start[Files(a)].ver /\ src[Files(a)].ver >= Outfile(a).tree.files
<1>1. Packages \in Sources /\ Files(a) \in Sources /\ OutfileOf[a] \in Outfiles
  BY SourceNames, ConstantsAssumption
<1>2. \A s \in Sources : /\ src[s].ver \in Nat /\ cmd[q].start[s].ver \in Nat
                         /\ cmd[q].start[s].ver <= src[s].ver
  BY DEF TypeOK, CommandType, PastRoots
<1>3. /\ Outfile(a).tree.pkgs \in Nat /\ Outfile(a).tree.files \in Nat
      /\ Outfile(a).tree.files <= src[Files(a)].ver /\ Outfile(a).tree.pkgs <= src[Packages].ver
  BY <1>1 DEF TypeOK, ImageType, TreeType, Outfile, PastTrees, PastTree
<1>4. QED
  BY <1>1, <1>2, <1>3

LEMMA SyncStep ==
  ASSUME TypeOK, TypeOK', OneCommand, PastRoots, PastTrees, SeenUppersInv, PackInv, [Next]_vars,
         NEW q \in Procs, SyncPackages(q) \/ SyncArtifact(q) \/ Finish(q)
  PROVE  PackInv'
<1> PICK a \in Artifacts : a = cmd[q].art
  BY DEF SyncPackages, SyncArtifact, Finish, At, TypeOK, UpperPhases
<1>0. upper[a] \in TreeType /\ Made(cmd[q]) /\ cmd[q] \in CommandType
  BY DEF TypeOK, PackInv
<1>1. Advances(cmd[q], cmd'[q])
  BY GotoAdvances DEF SyncPackages, SyncArtifact, Finish, At, UpperPhases
<1>2. cmd'[q].art = a /\ cmd'[q].start = cmd[q].start /\ Outfile(a)' = Outfile(a)
      /\ root'[ProfileOf[a]].gen = root[ProfileOf[a]].gen
  BY <1>1 DEF Advances, SameList, SyncPackages, SyncArtifact, Finish, Outfile
<1>3. CASE SyncPackages(q)
  <2>1. /\ cmd[q].at = "sync_packages" /\ cmd'[q].at = "sync_artifact"
        /\ upper'[a] = [upper[a] EXCEPT !.pkgs = src[Packages].ver]
    BY <1>3, GotoAdvances DEF SyncPackages, At, TypeOK, UpperPhases
  <2>2. /\ upper'[a].pkgs = src[Packages].ver
        /\ upper'[a].time = upper[a].time /\ upper'[a].gen = upper[a].gen
        /\ upper'[a].json = upper[a].json /\ upper'[a].booted = upper[a].booted
    BY <1>0, <2>1 DEF TreeType
  <2>3. Made(cmd[q])'
    BY <1>0, <1>2, <2>1, <2>2, SourcesAdvance DEF Made, Making
  <2>4. QED
    BY <1>3, <2>1, <2>3, FillStep
<1>4. CASE SyncArtifact(q)
  <2>1. /\ cmd[q].at = "sync_artifact" /\ cmd'[q].at = "finish"
        /\ upper'[a] = [upper[a] EXCEPT !.files = src[Files(a)].ver]
    BY <1>4, GotoAdvances DEF SyncArtifact, At, TypeOK, UpperPhases
  <2>2. /\ upper'[a].files = src[Files(a)].ver /\ upper'[a].pkgs = upper[a].pkgs
        /\ upper'[a].time = upper[a].time /\ upper'[a].gen = upper[a].gen
        /\ upper'[a].json = upper[a].json /\ upper'[a].booted = upper[a].booted
    BY <1>0, <2>1 DEF TreeType
  <2>3. Made(cmd[q])'
    BY <1>0, <1>2, <2>1, <2>2, SourcesAdvance DEF Made, Making
  <2>4. QED
    BY <1>4, <2>1, <2>3, FillStep
<1>5. CASE Finish(q)
  <2>1. /\ cmd[q].at = "finish" /\ cmd'[q].at = "outfile"
        /\ upper'[a] = [upper[a] EXCEPT !.complete = TRUE]
    BY <1>5, GotoAdvances DEF Finish, At, TypeOK, UpperPhases
  <2>2. /\ upper'[a].files = upper[a].files /\ upper'[a].pkgs = upper[a].pkgs
        /\ upper'[a].time = upper[a].time /\ upper'[a].gen = upper[a].gen
        /\ upper'[a].json = upper[a].json /\ upper'[a].booted = upper[a].booted
        /\ upper'[a].complete
    BY <1>0, <2>1 DEF TreeType
  <2>3. ~OutfileUpToDate(a)'
    <3>1. Outfile(a).time <= upper[a].time /\ Outfile(a).time \in Nat /\ upper[a].time \in Nat
      BY <1>0, <2>1, ConstantsAssumption DEF Made, TypeOK, ImageType, TreeType, Outfile
    <3>2. QED
      BY <1>2, <2>2, <3>1 DEF OutfileUpToDate, Outfile
  <2>4. Made(cmd[q])'
    BY <1>0, <1>2, <2>1, <2>2, <2>3 DEF Made, Making
  <2>5. QED
    BY <1>5, <2>1, <2>4, FillStep
<1>6. QED
  BY <1>3, <1>4, <1>5

(* The report of a build whose image is the outfile.                       *)
LEMMA PackedIsFresh ==
  ASSUME TypeOK, TypeOK', ScopeInv, ReadyInv, PastRoots, SeenRootsInv, PackInv,
         NEW q \in Procs, Reports(cmd[q], cmd'[q]), NEW a \in Artifacts, a = cmd[q].art,
         cmd[q].at \in {"outfile", "packing"},
         Outfile(a).whole', Outfile(a).of' = a,
         Outfile(a).tree' = [upper[a] EXCEPT !.booted = FALSE],
         SameRecord(ProfileOf[a])
  PROVE  Fresh(q, a)'
<1> PICK p \in Profiles : p = ProfileOf[a]
  BY ConstantsAssumption
<1>1. upper[a] \in TreeType /\ Made(cmd[q]) /\ p \in cmd[q].prepared
  BY DEF TypeOK, PackInv, ScopeInv, Scope, UpperPhases
<1>2. /\ Outfile(a).tree.complete' /\ ~Outfile(a).tree.booted'
      /\ Outfile(a).tree.gen' = upper[a].gen /\ Outfile(a).tree.json' = upper[a].json
      /\ Outfile(a).tree.files' = upper[a].files /\ Outfile(a).tree.pkgs' = upper[a].pkgs
  BY <1>1 DEF Made, TreeType
<1>3. /\ upper[a].gen = root[p].gen /\ upper[a].json >= cmd[q].start[BuildJson(a)].ver
      /\ upper[a].files >= cmd[q].start[Files(a)].ver /\ upper[a].pkgs >= cmd[q].start[Packages].ver
  BY <1>1 DEF Made, Making
<1>4. /\ root[p].prof = src[ProfileDir(p)].ver
      /\ \A t \in Trees : src[t].mtime <= root[p].gen
  BY <1>1 DEF SeenRootsInv, RootsCurrent, CurrentRoot, SeenRoot
<1>5. /\ root[p].prof >= cmd[q].start[ProfileDir(p)].ver
      /\ \A t \in Trees : cmd[q].start[t].mtime <= root[p].gen
  <2>1. /\ root[p].gen \in Nat
        /\ \A s \in Sources : /\ src[s].ver \in Nat /\ cmd[q].start[s].ver \in Nat
                              /\ src[s].mtime \in Nat /\ cmd[q].start[s].mtime \in Nat
                              /\ cmd[q].start[s].ver <= src[s].ver
                              /\ cmd[q].start[s].mtime <= src[s].mtime
    BY DEF TypeOK, RootType, CommandType, PastRoots
  <2>2. QED
    BY <1>4, <2>1, SourceNames
<1>6. cmd'[q].start = cmd[q].start
  BY DEF Reports
<1>7. QED
  BY <1>2, <1>3, <1>5, <1>6 DEF Fresh, TreeNoticed, SameRecord, Outfile

LEMMA CheckOutfileStep ==
  ASSUME TypeOK, TypeOK', OneCommand, ScopeInv, ReadyInv, PastRoots, PastTrees, SeenRootsInv,
         SeenUppersInv, PackInv, [Next]_vars, NEW q \in Procs, CheckOutfile(q)
  PROVE  PackInv'
<1> PICK a \in Artifacts : a = cmd[q].art
  BY DEF CheckOutfile, At, TypeOK, UpperPhases
<1>0. /\ upper[a] \in TreeType /\ Made(cmd[q]) /\ cmd[q] \in CommandType
      /\ cmd[q].at = "outfile" /\ ProfileOf[a] \in Profiles
  BY ConstantsAssumption DEF TypeOK, PackInv, CheckOutfile, At
<1>1. UNCHANGED <<upper, out>> /\ (\A b \in Artifacts : Outfile(b)' = Outfile(b))
      /\ \A p \in Profiles : SameRecord(p)
  BY BuildRecord DEF Build, CheckOutfile, Outfile
<1>2. NewRoot(a)'
  BY <1>1, NewRootStep
<1>3. CASE OutfileUpToDate(a)
  <2>1. Reports(cmd[q], cmd'[q])
    BY <1>0, <1>3, ReportReports DEF CheckOutfile, UpperPhases
  <2>2. Packed(a) /\ upper[a].complete
    BY <1>0, <1>3 DEF Made
  <2>3. Settled(a)'
    BY <1>1, <2>2 DEF Settled, Packed, Outfile
  <2>4. Fresh(q, a)'
    BY <1>0, <1>1, <2>1, <2>2, PackedIsFresh DEF Packed
  <2>5. Listed(q)'
    BY <1>1, <2>1, <2>4, ReportListed
  <2>6. Made(cmd[q])'
    BY <2>1, PartNames DEF Reports, Made, Making
  <2>7. QED
    BY <1>1, <1>2, <2>3, <2>5, <2>6, OwnStep
<1>4. CASE ~OutfileUpToDate(a)
  <2>1. Advances(cmd[q], cmd'[q]) /\ cmd'[q].at = "pack"
    BY <1>0, <1>4, GotoAdvances DEF CheckOutfile, UpperPhases
  <2>2. cmd'[q].art = a /\ cmd'[q].start = cmd[q].start
    BY <2>1 DEF Advances, SameList
  <2>3. Settled(a)'
    BY <2>1, <2>2 DEF Settled, AtWork, Making
  <2>4. Made(cmd[q])'
    BY <1>0, <1>1, <1>4, <2>1, <2>2 DEF Made, Making, SameRecord
  <2>5. Listed(q)'
    BY <1>1, <2>1, AdvanceListed
  <2>6. QED
    BY <1>1, <1>2, <2>3, <2>4, <2>5, OwnStep
<1>5. QED
  BY <1>3, <1>4

LEMMA PackBeginStep ==
  ASSUME TypeOK, TypeOK', OneCommand, ScopeInv, ReadyInv, PastRoots, PastTrees,
         SeenUppersInv, PackInv, [Next]_vars, NEW q \in Procs, PackBegin(q)
  PROVE  PackInv'
<1> PICK a \in Artifacts : a = cmd[q].art
  BY DEF PackBegin, At, TypeOK, UpperPhases
<1>0. /\ upper[a] \in TreeType /\ Made(cmd[q]) /\ cmd[q] \in CommandType
      /\ cmd[q].at = "pack" /\ ProfileOf[a] \in Profiles /\ OutfileOf[a] \in Outfiles
      /\ upper[a].time <= clock /\ clock \in Nat
  BY ConstantsAssumption DEF TypeOK, PackInv, PackBegin, At, PastTrees, PastTree
<1>1. UNCHANGED upper /\ \A p \in Profiles : SameRecord(p)
  BY BuildRecord DEF Build, PackBegin
<1>2. \A b \in Artifacts \ {a} : Outfile(b)' = Outfile(b)
  BY DEF PackBegin, Outfile, OneCommand, OwnOutfiles, TypeOK
<1>3. /\ Outfile(a).time' = clock + 1 /\ Outfile(a).of' = a /\ Outfile(a).tree' = upper[a]
  BY <1>0 DEF PackBegin, Stamp, Outfile, TypeOK
<1>4. /\ Advances(cmd[q], cmd'[q]) /\ cmd'[q].at = "packing"
  BY <1>0, GotoAdvances DEF PackBegin, UpperPhases
<1>5. cmd'[q].art = a /\ cmd'[q].start = cmd[q].start
  BY <1>4 DEF Advances, SameList
<1>6. Settled(a)' /\ Listed(q)'
  BY <1>1, <1>2, <1>4, <1>5, AdvanceListed DEF Settled, AtWork, Making
<1>7. root'[ProfileOf[a]].gen = root[ProfileOf[a]].gen /\ upper[a].gen = root[ProfileOf[a]].gen
  BY <1>0, <1>1 DEF SameRecord, Made, Making
<1>8. NewRoot(a)'
  BY <1>0, <1>3, <1>7 DEF NewRoot, TreeType
<1>9. Made(cmd[q])'
  <2>1. upper[a].time \in Nat /\ upper[a].gen \in Nat /\ upper[a].json \in Nat
        /\ upper[a].pkgs \in Nat /\ upper[a].files \in Nat
    BY <1>0 DEF TreeType
  <2>2. clock + 1 > upper[a].time
    BY <1>0, <2>1
  <2>3. /\ upper[a].time # NoFile /\ upper[a].complete /\ ~upper[a].booted
        /\ upper[a].json >= cmd[q].start[BuildJson(a)].ver
        /\ upper[a].pkgs >= cmd[q].start[Packages].ver
        /\ upper[a].files >= cmd[q].start[Files(a)].ver
    BY <1>0 DEF Made, Making
  <2>4. upper'[a] = upper[a]
    BY <1>1
  <2>5. QED
    BY <1>3, <1>4, <1>5, <1>7, <2>1, <2>2, <2>3, <2>4 DEF Made, Making
<1>10. QED
  BY <1>1, <1>2, <1>6, <1>8, <1>9, OwnStep

LEMMA PackEndStep ==
  ASSUME TypeOK, TypeOK', OneCommand, ScopeInv, ReadyInv, PastRoots, PastTrees, SeenRootsInv,
         SeenUppersInv, PackInv, [Next]_vars, NEW q \in Procs, PackEnd(q)
  PROVE  PackInv'
<1> PICK a \in Artifacts : a = cmd[q].art
  BY DEF PackEnd, At, TypeOK, UpperPhases
<1>0. /\ upper[a] \in TreeType /\ Made(cmd[q]) /\ cmd[q] \in CommandType
      /\ cmd[q].at = "packing" /\ ProfileOf[a] \in Profiles /\ OutfileOf[a] \in Outfiles
  BY ConstantsAssumption DEF TypeOK, PackInv, PackEnd, At
<1>1. UNCHANGED upper /\ \A p \in Profiles : SameRecord(p)
  BY BuildRecord DEF Build, PackEnd
<1>2. \A b \in Artifacts \ {a} : Outfile(b)' = Outfile(b)
  BY DEF PackEnd, Outfile, OneCommand, OwnOutfiles, TypeOK
<1>3. /\ Outfile(a).whole' /\ Outfile(a).of' = Outfile(a).of
      /\ Outfile(a).tree' = Outfile(a).tree /\ Outfile(a).time' = Outfile(a).time
  BY <1>0 DEF PackEnd, Outfile, TypeOK, ImageType
<1>4. Reports(cmd[q], cmd'[q])
  BY <1>0, ReportReports DEF PackEnd, UpperPhases
<1>5. /\ Outfile(a).of = a /\ Outfile(a).tree = upper[a] /\ Outfile(a).time > upper[a].time
      /\ ~upper[a].booted /\ upper[a].complete
  BY <1>0 DEF Made
<1>6. upper[a] = [upper[a] EXCEPT !.booted = FALSE]
  BY <1>0, <1>5 DEF TreeType
<1>7. Settled(a)'
  BY <1>1, <1>3, <1>5, <1>6 DEF Settled, Packed
<1>8. NewRoot(a)'
  BY <1>3, NewRootStep
<1>9. Fresh(q, a)'
  BY <1>0, <1>1, <1>3, <1>4, <1>5, <1>6, PackedIsFresh
<1>10. Listed(q)'
  BY <1>1, <1>2, <1>4, <1>9, ReportListed
<1>11. Made(cmd[q])'
  BY <1>4, PartNames DEF Reports, Made, Making
<1>12. QED
  BY <1>1, <1>2, <1>7, <1>8, <1>10, <1>11, OwnStep

(* Booting a build, and cleaning, while no command runs.                   *)
LEMMA IdleStep ==
  ASSUME TypeOK, TypeOK', OneCommand, PastRoots, PastTrees, SeenUppersInv, PackInv, [Next]_vars,
         (\E q \in Procs : Run(q)) \/ Clean
  PROVE  PackInv'
<1>0. \A q \in Procs : cmd[q].at = "idle" /\ cmd'[q] = cmd[q]
  BY DEF Run, Clean, AllIdle, At, OneCommand
<1>1. UNCHANGED out
  BY DEF Run, Clean
<1>2. \A q \in Procs : Made(cmd[q])' /\ Listed(q)'
  BY <1>0 DEF PackInv, Made, Making, Listed, ArtifactPhases, UpperPhases
<1>3. ASSUME NEW a \in Artifacts PROVE Settled(a)' /\ NewRoot(a)'
  <2>1. upper[a] \in TreeType
    BY DEF TypeOK
  <2>2. \/ upper'[a].time = NoFile
        \/ upper'[a] = upper[a] \/ upper'[a] = [upper[a] EXCEPT !.booted = TRUE]
    BY EmptyTree DEF Run, Clean, TypeOK, NoFile
  <2>3. \/ upper'[a].time = NoFile
        \/ /\ upper'[a].time = upper[a].time /\ upper'[a].complete = upper[a].complete
           /\ [upper'[a] EXCEPT !.booted = FALSE] = [upper[a] EXCEPT !.booted = FALSE]
    BY <2>1, <2>2 DEF TreeType
  <2>4. ~AtWork(a, Making)
    BY <1>0 DEF AtWork, Making
  <2>5. Settled(a)'
    BY <1>1, <2>3, <2>4 DEF PackInv, Settled, Packed, Outfile
  <2>6. NewRoot(a)'
    BY <1>1, NewRootStep DEF Outfile
  <2>7. QED
    BY <2>5, <2>6
<1>4. QED
  BY <1>2, <1>3 DEF PackInv

LEMMA PackStep ==
  ASSUME TypeOK, TypeOK', OneCommand, RootInv, ScopeInv, ReadyInv, PastRoots, PastTrees, StartsInv,
         SeenRootsInv, SeenUppersInv, PackInv, [Next]_vars
  PROVE  PackInv'
<1>1. CASE \E q \in Procs : Prepare(q)
  <2> PICK q \in Procs : Prepare(q)
    BY <1>1
  <2>1. UNCHANGED <<upper, out>> /\ cmd[q].at \notin ArtifactPhases
    BY PartNames DEF Prepare, BeginProfile, KeepStage3, TrashRoot, Untar, Link, SyncPortage, Decide, Emerge,
       GenpackPrepare, WriteDone, Verify, Shell, ToArtifacts, At, ArtifactPhases, UpperPhases
  <2>2. QED
    BY <2>1, PrepareAway, PartNames, AwayStep
<1>2. CASE \E q \in Procs : SkipUnprepared(q) \/ EndCommand(q) \/ StartSome(q) \/ Mishap(q)
  <2> PICK q \in Procs : SkipUnprepared(q) \/ EndCommand(q) \/ StartSome(q) \/ Mishap(q)
    BY <1>2
  <2>1. UNCHANGED <<upper, out>> /\ cmd[q].at \notin Making
    BY DEF SkipUnprepared, EndCommand, StartSome, Start, Mishap, At, Making, OneCommand
  <2>2. \A p \in Profiles : SameRecord(p)
    BY DEF SkipUnprepared, EndCommand, StartSome, Start, Mishap, SameRecord
  <2>3. QED
    BY <2>1, <2>2, QuietAway, AwayStep
<1>3. CASE \E q \in Procs : CheckArtifact(q)
  <2> PICK q \in Procs : CheckArtifact(q)
    BY <1>3
  <2>1. UNCHANGED <<upper, out>> /\ cmd[q].at \notin Making /\ \A p \in Profiles : SameRecord(p)
    BY BuildRecord DEF Build, CheckArtifact, At, Making
  <2>2. QED
    BY <2>1, CheckMoves, AwayStep, PickStep
<1>4. CASE \E q \in Procs : \/ TrashUpper(q) \/ Copyup(q) \/ SyncPackages(q) \/ SyncArtifact(q)
                            \/ Finish(q) \/ CheckOutfile(q) \/ PackBegin(q) \/ PackEnd(q)
  BY <1>4, TrashUpperStep, CopyupStep, SyncStep, CheckOutfileStep, PackBeginStep, PackEndStep
<1>5. CASE (\E q \in Procs : Run(q)) \/ Clean
  BY <1>5, IdleStep
<1>6. CASE Edit \/ Remove \/ UNCHANGED vars
  <2>1. UNCHANGED <<upper, out, root, cmd>>
    BY <1>6 DEF Edit, Remove, vars
  <2>2. QED
    BY <2>1, StillStep
<1>7. QED
  BY <1>1, <1>2, <1>3, <1>4, <1>5, <1>6 DEF Next, Build, Rest

FreshInv ==
  /\ RootInv /\ ScopeInv /\ ReadyInv
  /\ PastRoots /\ PastTrees /\ StartsInv /\ FetchInv
  /\ SeenRootsInv /\ SeenUppersInv /\ PackInv

LEMMA FreshInit == Init => FreshInv
<1> SUFFICES ASSUME Init PROVE FreshInv
  OBVIOUS
<1>1. /\ clock = 1 /\ src = [s \in Sources |-> [ver |-> 1, mtime |-> 1]]
      /\ \A p \in Profiles : root[p] = NoRoot
      /\ \A a \in Artifacts : upper[a] = NoUpper /\ Outfile(a) = NoImage
      /\ \A q \in Procs : cmd[q] = Idle
  BY ConstantsAssumption DEF Init, Outfile
<1>2. /\ NoRoot.gen = 0 /\ NoImage.time = 0 /\ NoImage.tree = NoUpper
      /\ Idle.at = "idle" /\ Idle.prepared = {} /\ Idle.reported = {} /\ Idle.arts = {}
      /\ Idle.start = [s \in Sources |-> [ver |-> 0, mtime |-> 0]]
  BY DEF NoRoot, NoImage, Idle, NoFile
<1>3. RootInv /\ ScopeInv /\ ReadyInv
  BY <1>1, <1>2, IdleScope DEF RootInv, CleanRoot, NoRoot, NoFile, ScopeInv, ReadyInv
<1>4. PastRoots /\ StartsInv /\ FetchInv
  BY <1>1, <1>2, PhaseNames DEF PastRoots, StartsInv, EarlyStart, FetchInv, Fetching
<1>5. PastTrees
  BY <1>1, <1>2, EmptyTree, SourceNames DEF PastTrees, PastTree
<1>6. SeenRootsInv /\ SeenUppersInv
  BY <1>1, <1>2, EmptyTree DEF SeenRootsInv, SeenRoot, Scanned, Scanning, RootsCurrent, SeenUppersInv,
     SeenUpper, NoFile
<1>7. PackInv
  BY <1>1, <1>2, EmptyTree, ConstantsAssumption, PartNames
  DEF PackInv, Settled, NewRoot, Made, Making, Listed, NoFile
<1>8. QED
  BY <1>3, <1>4, <1>5, <1>6, <1>7 DEF FreshInv

LEMMA FreshStep == ASSUME TypeOK, TypeOK', OneCommand, FreshInv, [Next]_vars PROVE FreshInv'
<1>1. RootInv' /\ ScopeInv' /\ ReadyInv'
  BY RootStep, CommandsStep DEF FreshInv
<1>2. PastRoots' /\ PastTrees' /\ StartsInv' /\ FetchInv'
  BY PastRootsStep, PastTreesStep, StartsStep, FetchStep DEF FreshInv, OneCommand
<1>3. SeenRootsInv' /\ SeenUppersInv' /\ PackInv'
  BY <1>1, SeenRootsStep, SeenUppersStep, PackStep DEF FreshInv
<1>4. QED
  BY <1>1, <1>2, <1>3 DEF FreshInv

LEMMA FreshAlways == ASSUME OneCommand PROVE Spec => []FreshInv
BY FreshInit, FreshStep, TypeCorrect, PTL DEF Spec

(* Whatever a build command reports, after any history of edits, failures, *)
(* kills, shells and cleanups, is a whole image of a completed build from  *)
(* the root as it is and from sources no older than the command's start,   *)
(* up to a tree stamped no later than the root's .done: but for that, the  *)
(* time stamps genpack_artifact.py and genpack_profile.py compare are      *)
(* enough to decide what may be skipped.                                   *)
THEOREM ReportsAreFresh == ASSUME OneCommand PROVE Spec => []ReportedIsFresh
<1>1. FreshInv => ReportedIsFresh
  BY DEF FreshInv, PackInv, Listed, ReportedIsFresh
<1>2. QED
  BY <1>1, FreshAlways, PTL
-----------------------------------------------------------------------------
(* Part 5: nothing is built again without a reason.                        *)
(*                                                                         *)
(* Any number of processes on different profiles, any failures, and edits  *)
(* at any time but of what a running build reads late: an edit of those    *)
(* between the packages file and the copy is seen both by this build and   *)
(* as a reason for the next.                                               *)
LateSourcesStill == LiveEdits \cap LateSources = {}

(* Under a command the packages file and the files of the artifacts stay.  *)
LEMMA LateSourcesStay ==
  ASSUME TypeOK, LateSourcesStill, [Next]_vars, NEW q \in Procs, cmd[q].at # "idle",
         NEW s \in LateSources
  PROVE  src'[s] = src[s]
<1>0. s \in Sources \ Trees
  BY SourceNames DEF LateSources, Packages, Files, Trees, Portage, Overlay
<1>1. CASE \E r \in Procs : SyncPortage(r) \/ Link(r)
  BY <1>0, <1>1, TreesMove DEF Refetched, Trees
<1>2. CASE Edit
  <2>1. PICK t \in LiveEdits :
          src' = [src EXCEPT ![t] = [ver |-> src[t].ver + 1, mtime |-> clock']]
    BY <1>2 DEF Edit, AllIdle, At
  <2>2. t # s
    BY <2>1 DEF LateSourcesStill
  <2>3. QED
    BY <1>0, <2>1, <2>2 DEF TypeOK
<1>3. ~Remove
  BY DEF Remove, AllIdle, At
<1>4. QED
  BY <1>1, <1>2, <1>3, SourcesMove DEF SourcesStay

(* Processes have artifacts and upper directories of their own.            *)
LEMMA OwnArtifacts ==
  ASSUME NEW q \in Procs, NEW r \in Procs, q # r
  PROVE  Jobs[q] \cap Jobs[r] = {}
BY DisjointProfiles DEF JobProfiles

GrownInv == PastRoots /\ \A s \in Sources : src[s].ver >= 1

LEMMA GrownStep ==
  ASSUME TypeOK, TypeOK', GrownInv, [Next]_vars
  PROVE  GrownInv'
<1>1. PastRoots'
  BY PastRootsStep DEF GrownInv
<1>2. \A s \in Sources : src'[s].ver >= 1
  BY SourcesGrow DEF GrownInv, PastRoots, TypeOK
<1>3. QED
  BY <1>1, <1>2 DEF GrownInv

(* What a build was made from is older than its packages file, as long as  *)
(* it is still the latest.                                                 *)
OlderSource(time, ver, s) == ver <= src[s].ver /\ (ver = src[s].ver => src[s].mtime < time)
MadeBefore(a) ==
  LET u == upper[a] IN
  /\ u.complete => u.time # NoFile
  /\ u.time # NoFile =>
       /\ u.gen < u.time
       /\ OlderSource(u.time, u.json, BuildJson(a))
       /\ OlderSource(u.time, u.files, Files(a))
       /\ OlderSource(u.time, u.pkgs, Packages)
UnderWay == {"sync_packages", "sync_artifact"}
ReasonGiven(q) ==
  LET a == cmd[q].art IN
  /\ cmd[q].at \in UnderWay =>
       src[Packages].mtime < upper[a].time /\ src[Files(a)].mtime < upper[a].time
  /\ cmd[q].at \in UnderWay \cup {"finish"} => upper[a].time # NoFile
  /\ cmd[q].at = "trash_upper" => ~UpperIsCurrent(a)
RebuildInv == GrownInv /\ (\A a \in Artifacts : MadeBefore(a)) /\ \A q \in Procs : ReasonGiven(q)

LEMMA OlderStays ==
  ASSUME TypeOK, GrownInv, [Next]_vars, NEW s \in Sources, NEW time \in Nat, NEW ver \in Nat,
         OlderSource(time, ver, s)
  PROVE  OlderSource(time, ver, s)'
<1>1. src[s].ver \in Nat /\ (src'[s] = src[s] \/ src'[s].ver = src[s].ver + 1)
  BY SourcesGrow DEF TypeOK
<1>2. QED
  BY <1>1 DEF OlderSource

(* Only the end of build() completes a build.                              *)
LEMMA CompletedByFinish ==
  ASSUME TypeOK, [Next]_vars, NEW a \in Artifacts, upper'[a].complete
  PROVE  upper[a].complete \/ \E q \in Procs : At(q, "finish") /\ a = cmd[q].art
<1>0. upper[a] \in TreeType
  BY DEF TypeOK
<1>1. CASE \E q \in Procs : Copyup(q) \/ SyncPackages(q) \/ SyncArtifact(q) \/ TrashUpper(q)
  <2> PICK q \in Procs : Copyup(q) \/ SyncPackages(q) \/ SyncArtifact(q) \/ TrashUpper(q)
    BY <1>1
  <2>1. CASE TrashUpper(q)
    BY <2>1, EmptyTree DEF TrashUpper, TypeOK
  <2>2. CASE Copyup(q)
    BY <2>2, EmptyTree DEF Copyup, TypeOK
  <2>3. CASE SyncPackages(q)
    BY <1>0, <2>3 DEF SyncPackages, TypeOK, TreeType
  <2>4. CASE SyncArtifact(q)
    BY <1>0, <2>4 DEF SyncArtifact, TypeOK, TreeType
  <2>5. QED
    BY <2>1, <2>2, <2>3, <2>4
<1>2. CASE \E q \in Procs : Finish(q)
  BY <1>2 DEF Finish, TypeOK
<1>3. CASE \E q \in Procs : Run(q)
  <2> PICK q \in Procs, b \in Artifacts :
        upper' = [upper EXCEPT ![b].booted = TRUE] \/ UNCHANGED upper
    BY <1>3, ConstantsAssumption DEF Run
  <2>1. QED
    BY <1>0 DEF TypeOK, TreeType
<1>4. CASE Clean
  BY <1>4, EmptyTree DEF Clean
<1>5. CASE UNCHANGED upper
  BY <1>5
<1>6. QED
  BY <1>1, <1>2, <1>3, <1>4, <1>5, UppersMove DEF Fill

LEMMA MadeBeforeStep ==
  ASSUME TypeOK, TypeOK', RebuildInv, [Next]_vars, NEW a \in Artifacts
  PROVE  MadeBefore(a)'
<1>0. /\ ProfileOf[a] \in Profiles /\ MadeBefore(a) /\ clock \in Nat
      /\ upper[a] \in TreeType /\ upper'[a] \in TreeType
      /\ BuildJson(a) \in Sources /\ Files(a) \in Sources /\ Packages \in Sources
  BY ConstantsAssumption, SourceNames DEF TypeOK, RebuildInv
<1>1. \A s \in Sources : /\ src[s].ver \in Nat /\ src[s].ver >= 1 /\ src[s].mtime \in Nat
                         /\ src[s].mtime <= clock
  BY DEF TypeOK, RebuildInv, GrownInv, PastRoots
<1>2. CASE upper'[a] = NoUpper
  BY <1>2, EmptyTree DEF MadeBefore, NoFile
<1>3. CASE \E q \in Procs : Copied(q, a)
  <2> PICK q \in Procs : Copied(q, a)
    BY <1>3
  <2>1. /\ upper'[a].time = clock + 1 /\ upper'[a].gen = root[ProfileOf[a]].gen
        /\ upper'[a].json = cmd[q].start[BuildJson(a)].ver /\ upper'[a].files = 0 /\ upper'[a].pkgs = 0
        /\ src' = src
    BY EmptyTree DEF Copied
  <2>2. /\ root[ProfileOf[a]].gen \in Nat /\ root[ProfileOf[a]].gen <= clock
        /\ cmd[q].start[BuildJson(a)].ver \in Nat /\ cmd[q].start[BuildJson(a)].ver <= src[BuildJson(a)].ver
    BY <1>0 DEF TypeOK, RootType, CommandType, RebuildInv, GrownInv, PastRoots
  <2>3. QED
    BY <1>0, <1>1, <2>1, <2>2 DEF MadeBefore, OlderSource, NoFile
<1>4. CASE \E q \in Procs : Synced(q, a)
  <2> PICK q \in Procs : Synced(q, a)
    BY <1>4
  <2>1. /\ upper'[a].time = upper[a].time /\ upper'[a].gen = upper[a].gen
        /\ upper'[a].json = upper[a].json /\ upper'[a].complete = upper[a].complete
        /\ upper'[a].pkgs \in {upper[a].pkgs, src[Packages].ver}
        /\ upper'[a].files \in {upper[a].files, src[Files(a)].ver}
        /\ src' = src
    BY <1>0 DEF Synced, TreeType
  <2>2. src[Packages].mtime < upper[a].time /\ src[Files(a)].mtime < upper[a].time
    BY DEF Synced, SyncPackages, SyncArtifact, At, UnderWay, RebuildInv, ReasonGiven
  <2>3. QED
    BY <1>0, <1>1, <2>1, <2>2 DEF MadeBefore, OlderSource
<1>5. CASE SameBuild(a) /\ (upper'[a].complete => upper[a].complete \/ upper[a].time # NoFile)
  <2>1. PICK t \in Nat, g \in Nat, j \in Nat, f \in Nat, k \in Nat :
          /\ t = upper[a].time /\ g = upper[a].gen /\ j = upper[a].json
          /\ f = upper[a].files /\ k = upper[a].pkgs
    BY <1>0 DEF TreeType
  <2>2. t # NoFile => /\ OlderSource(t, j, BuildJson(a))' /\ OlderSource(t, f, Files(a))'
                      /\ OlderSource(t, k, Packages)'
    BY <1>0, <2>1, OlderStays DEF MadeBefore, RebuildInv
  <2>3. QED
    BY <1>0, <1>5, <2>1, <2>2 DEF SameBuild, MadeBefore, OlderSource
<1>6. upper'[a].complete => upper[a].complete \/ upper[a].time # NoFile
  BY CompletedByFinish DEF At, RebuildInv, ReasonGiven
<1>7. QED
  BY <1>2, <1>3, <1>4, <1>5, <1>6, UppersStep

(* What is under way is left alone by the other processes.                 *)
LEMMA OthersKeepUppers ==
  ASSUME TypeOK, ScopeInv, NEW q \in Procs, NEW a \in Jobs[q], NEW r \in Procs \ {q},
         Prepare(r) \/ Build(r) \/ StartSome(r) \/ Mishap(r) \/ Run(r)
  PROVE  upper'[a] = upper[a]
<1>0. a \in Artifacts /\ a \notin Jobs[r]
  BY ConstantsAssumption, OwnArtifacts
<1>1. cmd[r].at \in UpperPhases => cmd[r].art # a
  BY <1>0 DEF ScopeInv, Scope
<1>2. CASE Copyup(r) \/ SyncPackages(r) \/ SyncArtifact(r) \/ TrashUpper(r) \/ Finish(r)
  BY <1>0, <1>1, <1>2
  DEF Copyup, SyncPackages, SyncArtifact, TrashUpper, Finish, At, UpperPhases, TypeOK
<1>3. CASE Run(r)
  BY <1>0, <1>3 DEF Run, TypeOK
<1>4. CASE UNCHANGED upper
  BY <1>4
<1>5. QED
  BY <1>2, <1>3, <1>4, QuietUppers DEF Fill

LEMMA NotItsCommand ==
  ASSUME TypeOK, [Next]_vars, NEW q \in Procs, ~(Prepare(q) \/ Build(q) \/ StartSome(q) \/ Mishap(q))
  PROVE  cmd'[q] = cmd[q]
<1>1. ASSUME NEW r \in Procs \ {q}, Prepare(r) \/ Build(r) \/ StartSome(r) \/ Mishap(r)
      PROVE  cmd'[q] = cmd[q]
  BY <1>1, OthersMove DEF StartSome, Start, Become, TypeOK
<1>2. CASE (\E r \in Procs : Run(r)) \/ Clean \/ Edit \/ Remove \/ Rest \/ UNCHANGED vars
  BY <1>2 DEF Run, Clean, Edit, Remove, Rest, vars
<1>3. QED
  BY <1>1, <1>2 DEF Next

(* A command at work on an artifact, and a step that is not its own.       *)
LEMMA NotItsTurn ==
  ASSUME TypeOK, ScopeInv, [Next]_vars, NEW q \in Procs, cmd[q].at \in UpperPhases
  PROVE  \/ cmd'[q] = cmd[q] /\ upper'[cmd[q].art] = upper[cmd[q].art] /\ ~WriteDone(q)
         \/ Prepare(q) \/ Build(q) \/ StartSome(q) \/ Mishap(q)
<1>0. cmd[q].art \in Jobs[q] /\ ~At(q, "idle") /\ ~At(q, "write_done")
  BY DEF ScopeInv, Scope, At, UpperPhases
<1>1. ASSUME NEW r \in Procs \ {q}, Prepare(r) \/ Build(r) \/ StartSome(r) \/ Mishap(r) \/ Run(r)
      PROVE  cmd'[q] = cmd[q] /\ upper'[cmd[q].art] = upper[cmd[q].art]
  <2>1. CASE StartSome(r) \/ Run(r)
    BY <1>0, <1>1, <2>1, OthersKeepUppers DEF StartSome, Start, Run, Become, TypeOK
  <2>2. QED
    BY <1>0, <1>1, <2>1, OthersKeepUppers, OthersMove
<1>2. CASE Run(q) \/ Clean
  BY <1>0, <1>2 DEF Run, Clean, AllIdle
<1>3. CASE UNCHANGED <<cmd, upper>>
  BY <1>0, <1>3 DEF WriteDone
<1>4. QED
  BY <1>0, <1>1, <1>2, <1>3 DEF Next, Edit, Remove, Rest, vars, WriteDone

(* The root of an artifact at work stays what it is.                       *)
LEMMA RootStays ==
  ASSUME TypeOK, ScopeInv, ReadyInv', [Next]_vars, NEW q \in Procs,
         cmd[q].at \in UpperPhases, cmd'[q] = cmd[q]
  PROVE  root'[ProfileOf[cmd[q].art]].gen = root[ProfileOf[cmd[q].art]].gen
<1> DEFINE p == ProfileOf[cmd[q].art]
<1>1. p \in Profiles /\ p \in JobProfiles(q) /\ p \in cmd'[q].prepared
  BY ConstantsAssumption DEF ScopeInv, Scope, JobProfiles
<1>2. root'[p].gen # 0
  BY <1>1 DEF ReadyInv
<1>3. ~Recorded(p)
  <2> SUFFICES ASSUME NEW r \in Procs, WriteDone(r), p = cmd[r].prof PROVE FALSE
    BY DEF Recorded
  <2>1. cmd[r].at \in RootPhases /\ r # q
    BY DEF WriteDone, At, RootPhases, UpperPhases
  <2>2. p \in JobProfiles(r)
    BY <2>1 DEF ScopeInv, Scope
  <2>3. QED
    BY <1>1, <2>1, <2>2, DisjointProfiles
<1>4. QED
  BY <1>1, <1>2, <1>3, RootsStep DEF SameRecord

(* A reason to build again stays one.                                      *)
LEMMA ReasonStays ==
  ASSUME TypeOK, RebuildInv, [Next]_vars, NEW a \in Artifacts, upper'[a] = upper[a],
         root'[ProfileOf[a]].gen = root[ProfileOf[a]].gen, UpperIsCurrent(a)'
  PROVE  UpperIsCurrent(a)
<1>0. BuildJson(a) \in Sources /\ Files(a) \in Sources /\ Packages \in Sources
  BY SourceNames
<1>1. /\ upper[a].complete /\ upper[a].gen = root[ProfileOf[a]].gen
      /\ upper[a].json = src'[BuildJson(a)].ver /\ upper[a].files = src'[Files(a)].ver
      /\ upper[a].pkgs = src'[Packages].ver
  BY DEF UpperIsCurrent
<1>2. /\ upper[a].json <= src[BuildJson(a)].ver /\ upper[a].files <= src[Files(a)].ver
      /\ upper[a].pkgs <= src[Packages].ver
  BY <1>1 DEF RebuildInv, MadeBefore, OlderSource
<1>3. \A s \in Sources : src[s].ver \in Nat /\ (src'[s].ver = src[s].ver \/ src'[s].ver = src[s].ver + 1)
  BY SourcesGrow DEF TypeOK
<1>4. QED
  BY <1>0, <1>1, <1>2, <1>3 DEF UpperIsCurrent

(* What CheckArtifact sends to the trash is not current.                   *)
LEMMA ChecksForReason ==
  ASSUME TypeOK, RootInv, ReadyInv, RebuildInv, NEW q \in Procs, CheckArtifact(q),
         cmd'[q].at = "trash_upper"
  PROVE  ReasonGiven(q)'
<1>0. cmd[q] \in CommandType
  BY DEF TypeOK
<1>1. PICK a \in cmd[q].arts :
        LET chosen == [cmd[q] EXCEPT !.arts = @ \ {a}, !.art = a]
            built == upper[a].time # NoFile
            lost == built /\ DoneTime(root[ProfileOf[a]]) = NoFile
        IN /\ ProfileOf[a] \in cmd[q].prepared
           /\ QueryDone(ProfileOf[a]) \/ UNCHANGED root
           /\ \/ Become(q, Raise(chosen))
              \/ Become(q, [chosen EXCEPT !.at = "outfile"])
              \/ /\ ~lost /\ ~(built /\ UpToDate(a))
                 /\ Become(q, [chosen EXCEPT !.at = "trash_upper"])
  BY DEF CheckArtifact
<1> DEFINE chosen == [cmd[q] EXCEPT !.arts = @ \ {a}, !.art = a]
           p == ProfileOf[a]
<1>2. a \in Artifacts /\ p \in Profiles /\ chosen \in CommandType
  BY <1>0, <1>1, ConstantsAssumption DEF CommandType
<1>3. cmd'[q] # Raise(chosen) /\ cmd'[q] # [chosen EXCEPT !.at = "outfile"]
  <2>1. Raise(chosen).at # "trash_upper"
    BY <1>2 DEF Raise, Idle, CommandType
  <2>2. [chosen EXCEPT !.at = "outfile"].at # "trash_upper"
    BY <1>2 DEF CommandType
  <2>3. QED
    BY <2>1, <2>2
<1>4. /\ cmd'[q] = [chosen EXCEPT !.at = "trash_upper"]
      /\ upper[a].time = NoFile \/ (DoneTime(root[p]) # NoFile /\ ~UpToDate(a))
  BY <1>1, <1>3, Becomes
<1>5. cmd'[q].art = a
  BY <1>0, <1>4 DEF CommandType
<1>6. root'[p].gen = root[p].gen /\ upper' = upper /\ src' = src
  BY <1>1, <1>2, QueryKeepsGen DEF CheckArtifact
<1>7. ASSUME UpperIsCurrent(a) PROVE FALSE
  <2>1. /\ upper[a].time # NoFile /\ upper[a].gen = root[p].gen /\ upper[a].gen < upper[a].time
        /\ src[BuildJson(a)].mtime < upper[a].time /\ src[Files(a)].mtime < upper[a].time
        /\ src[Packages].mtime < upper[a].time
    BY <1>2, <1>7 DEF UpperIsCurrent, RebuildInv, MadeBefore, OlderSource
  <2>2. DoneTime(root[p]) # NoFile /\ ~UpToDate(a)
    BY <1>4, <2>1
  <2>3. root[p].gen # 0
    BY <1>1 DEF ReadyInv
  <2>4. DoneTime(root[p]) = root[p].gen
    BY <1>2, <2>2, <2>3 DEF RootInv, CleanRoot, DoneTime, DoneIsStale, NoFile
  <2>5. QED
    BY <2>1, <2>2, <2>4 DEF UpToDate, ArtifactTime, Later
<1>8. UpperIsCurrent(a)' => UpperIsCurrent(a)
  BY <1>6 DEF UpperIsCurrent
<1>9. "trash_upper" \notin UnderWay \cup {"finish"}
  BY DEF UnderWay
<1>10. QED
  BY <1>5, <1>7, <1>8, <1>9 DEF ReasonGiven

(* The steps of a command that bring it to work on an artifact.            *)
LEMMA OwnReason ==
  ASSUME TypeOK, TypeOK', RootInv, ScopeInv, ReadyInv, RebuildInv, [Next]_vars, NEW q \in Procs,
         Prepare(q) \/ Build(q) \/ StartSome(q) \/ Mishap(q)
  PROVE  ReasonGiven(q)'
<1> DEFINE Watched == UnderWay \cup {"finish", "trash_upper"}
<1>0. Watched = {"sync_packages", "sync_artifact", "finish", "trash_upper"} /\ Watched \subseteq UpperPhases
  BY DEF UnderWay, UpperPhases
<1>1. CASE cmd'[q].at \notin Watched
  BY <1>0, <1>1 DEF ReasonGiven, UnderWay
<1> SUFFICES ASSUME cmd'[q].at \in Watched PROVE ReasonGiven(q)'
  BY <1>1
<1>2. ~Prepare(q) /\ ~SkipUnprepared(q) /\ ~EndCommand(q) /\ ~StartSome(q) /\ ~Mishap(q)
  BY <1>0, PrepareAway, QuietAway DEF Away
<1>3. CASE CheckArtifact(q)
  <2>1. cmd'[q].at = "trash_upper"
    BY <1>0, <1>3, CheckMoves DEF Away, Picks
  <2>2. QED
    BY <1>3, <2>1, ChecksForReason
<1>4. CASE TrashUpper(q) \/ Finish(q) \/ CheckOutfile(q) \/ PackBegin(q) \/ PackEnd(q)
  <2>0. cmd[q].at \in UpperPhases /\ {"copyup", "outfile", "pack", "packing"} \subseteq UpperPhases
    BY <1>4 DEF TrashUpper, Finish, CheckOutfile, PackBegin, PackEnd, At, UpperPhases
  <2>1. cmd'[q].at \in {"copyup", "outfile", "pack", "packing", "next_artifact"}
    <3>1. CASE Report(q)
      BY <2>0, <3>1, ReportReports DEF Reports
    <3>2. CASE \E phase \in {"copyup", "outfile", "pack", "packing"} : Goto(q, phase)
      BY <2>0, <3>2, GotoAdvances
    <3>3. QED
      BY <1>4, <3>1, <3>2 DEF TrashUpper, Finish, CheckOutfile, PackBegin, PackEnd
  <2>2. QED
    BY <1>0, <2>1
<1>5. CASE Copyup(q) \/ SyncPackages(q) \/ SyncArtifact(q)
  <2>1. PICK a \in Artifacts : a = cmd[q].art
    BY <1>5 DEF TypeOK, Copyup, SyncPackages, SyncArtifact, At, UpperPhases
  <2>2. Packages \in Sources /\ Files(a) \in Sources /\ src' = src
    BY <1>5, SourceNames DEF Copyup, SyncPackages, SyncArtifact
  <2>3. /\ src[Packages].mtime \in Nat /\ src[Packages].mtime <= clock
        /\ src[Files(a)].mtime \in Nat /\ src[Files(a)].mtime <= clock
        /\ clock \in Nat /\ upper[a] \in TreeType
    BY <2>2 DEF TypeOK, RebuildInv, GrownInv, PastRoots
  <2>4. /\ cmd'[q].art = a
        /\ cmd'[q].at = IF At(q, "copyup") THEN "sync_packages"
                        ELSE IF At(q, "sync_packages") THEN "sync_artifact" ELSE "finish"
    BY <1>5, <2>1
    DEF Copyup, SyncPackages, SyncArtifact, At, Goto, Become, TypeOK, CommandType
  <2>5. /\ src[Packages].mtime < upper'[a].time /\ src[Files(a)].mtime < upper'[a].time
        /\ upper'[a].time # NoFile
    <3>1. CASE Copyup(q)
      BY <2>1, <2>3, <3>1, EmptyTree DEF Copyup, Stamp, TypeOK, NoFile
    <3>2. CASE SyncPackages(q)
      <4>1. src[Packages].mtime < upper[a].time /\ src[Files(a)].mtime < upper[a].time
            /\ upper[a].time # NoFile
        BY <2>1, <3>2 DEF SyncPackages, At, UnderWay, RebuildInv, ReasonGiven
      <4>2. upper'[a].time = upper[a].time
        BY <2>1, <2>3, <3>2 DEF SyncPackages, TypeOK, TreeType
      <4>3. QED
        BY <4>1, <4>2
    <3>3. CASE SyncArtifact(q)
      <4>1. src[Packages].mtime < upper[a].time /\ src[Files(a)].mtime < upper[a].time
            /\ upper[a].time # NoFile
        BY <2>1, <3>3 DEF SyncArtifact, At, UnderWay, RebuildInv, ReasonGiven
      <4>2. upper'[a].time = upper[a].time
        BY <2>1, <2>3, <3>3 DEF SyncArtifact, TypeOK, TreeType
      <4>3. QED
        BY <4>1, <4>2
    <3>4. QED
      BY <1>5, <3>1, <3>2, <3>3
  <2>6. cmd'[q].at # "trash_upper"
    BY <2>4
  <2>7. QED
    BY <2>2, <2>4, <2>5, <2>6 DEF ReasonGiven
<1>6. QED
  BY <1>2, <1>3, <1>4, <1>5 DEF Build

LEMMA ReasonGivenStep ==
  ASSUME TypeOK, TypeOK', LateSourcesStill, RootInv, ScopeInv, ReadyInv, ReadyInv', RebuildInv,
         [Next]_vars, NEW q \in Procs
  PROVE  ReasonGiven(q)'
<1>1. CASE Prepare(q) \/ Build(q) \/ StartSome(q) \/ Mishap(q)
  BY <1>1, OwnReason
<1> SUFFICES ASSUME ~(Prepare(q) \/ Build(q) \/ StartSome(q) \/ Mishap(q)) PROVE ReasonGiven(q)'
  BY <1>1
<1>2. CASE cmd[q].at \in UpperPhases
  <2>1. cmd'[q] = cmd[q] /\ upper'[cmd[q].art] = upper[cmd[q].art]
    BY <1>2, NotItsTurn
  <2>2. PICK a \in Artifacts : a = cmd[q].art
    BY <1>2 DEF TypeOK
  <2>3. root'[ProfileOf[a]].gen = root[ProfileOf[a]].gen
    BY <1>2, <2>1, <2>2, RootStays
  <2>4. src'[Packages] = src[Packages] /\ src'[Files(a)] = src[Files(a)]
    <3>1. cmd[q].at # "idle" /\ Packages \in LateSources /\ Files(a) \in LateSources
      BY <1>2, PhaseNames DEF LateSources
    <3>2. QED
      BY <3>1, LateSourcesStay
  <2>5. UpperIsCurrent(a)' => UpperIsCurrent(a)
    BY <2>1, <2>2, <2>3, ReasonStays
  <2>6. ReasonGiven(q)
    BY DEF RebuildInv
  <2>7. QED
    BY <2>1, <2>2, <2>4, <2>5, <2>6 DEF ReasonGiven
<1>3. CASE cmd[q].at \notin UpperPhases
  <2>1. cmd'[q].at \notin UpperPhases
    <3>1. cmd'[q] = cmd[q]
      BY NotItsCommand
    <3>2. QED
      BY <1>3, <3>1
  <2>2. QED
    BY <2>1 DEF ReasonGiven, UnderWay, UpperPhases
<1>4. QED
  BY <1>2, <1>3

(* A build is made again only when it is incomplete, or its root or one of *)
(* its sources is not what it was made from.                               *)
THEOREM RebuildsAreNeeded ==
  ASSUME LateSourcesStill
  PROVE  Spec => NoNeedlessRebuild
<1> DEFINE Inv == TypeOK /\ RootInv /\ ScopeInv /\ ReadyInv /\ RebuildInv
<1>1. Init => Inv
  <2> SUFFICES ASSUME Init PROVE Inv
    OBVIOUS
  <2>1. TypeOK
    BY InitType
  <2>2. RootInv /\ ScopeInv /\ ReadyInv
    <3>1. RootInv
      BY DEF Init, RootInv, CleanRoot, NoRoot, NoFile
    <3>2. ScopeInv
      BY IdleScope DEF Init, ScopeInv
    <3>3. ReadyInv
      BY DEF Init, ReadyInv, Idle
    <3>4. QED
      BY <3>1, <3>2, <3>3
  <2>3. GrownInv
    <3>1. /\ clock = 1 /\ \A s \in Sources : src[s].ver = 1 /\ src[s].mtime = 1
          /\ \A p \in Profiles : root[p].gen = 0
          /\ \A q \in Procs, s \in Sources : cmd[q].start[s].ver = 0 /\ cmd[q].start[s].mtime = 0
      BY DEF Init, NoRoot, Idle, NoFile
    <3>2. QED
      BY <3>1 DEF GrownInv, PastRoots
  <2>4. ASSUME NEW a \in Artifacts PROVE MadeBefore(a)
    BY EmptyTree DEF Init, MadeBefore, NoFile
  <2>5. ASSUME NEW q \in Procs PROVE ReasonGiven(q)
    <3>1. cmd[q].at = "idle"
      BY DEF Init, Idle
    <3>2. QED
      BY <3>1 DEF ReasonGiven, UnderWay
  <2>6. QED
    BY <2>1, <2>2, <2>3, <2>4, <2>5 DEF RebuildInv
<1>2. Inv /\ TypeOK' /\ [Next]_vars => Inv'
  <2> SUFFICES ASSUME Inv, TypeOK', [Next]_vars PROVE Inv'
    OBVIOUS
  <2>1. RootInv' /\ ScopeInv' /\ ReadyInv'
    BY RootStep, CommandsStep
  <2>2. GrownInv'
    BY GrownStep DEF RebuildInv
  <2>3. ASSUME NEW a \in Artifacts PROVE MadeBefore(a)'
    BY MadeBeforeStep
  <2>4. ASSUME NEW q \in Procs PROVE ReasonGiven(q)'
    BY <2>1, ReasonGivenStep
  <2>5. QED
    BY <2>1, <2>2, <2>3, <2>4 DEF RebuildInv
<1>3. Inv => \A q \in Procs : TrashUpper(q) => ~UpperIsCurrent(cmd[q].art)
  BY DEF RebuildInv, ReasonGiven, TrashUpper, At
<1>4. QED
  BY <1>1, <1>2, <1>3, TypeCorrect, PTL DEF Spec, NoNeedlessRebuild
-----------------------------------------------------------------------------
(* Part 6: an outfile never goes back to older sources.                    *)
(*                                                                         *)
(* Any processes, failures, edits and removals, as long as no two          *)
(* artifacts share an outfile.  A build is completed only with parts that  *)
(* are no older than what is in the outfile, each by itself.               *)
NewestRoot(a) ==
  LET gen == root[ProfileOf[a]].gen IN
  gen # 0 => gen >= upper[a].gen /\ gen >= Outfile(a).tree.gen
NewerBuild(a) ==
  LET new == upper[a]
      old == Outfile(a).tree
  IN /\ new.time # NoFile => new.json >= old.json /\ new.gen >= old.gen
     /\ new.complete => new.time # NoFile /\ new.pkgs >= old.pkgs /\ new.files >= old.files
NewerParts(q) ==
  LET a == cmd[q].art
      new == upper[a]
      old == Outfile(a).tree
  IN /\ cmd[q].at \in {"sync_packages", "sync_artifact", "finish"} => new.time # NoFile
     /\ cmd[q].at \in {"sync_artifact", "finish"} => new.pkgs >= old.pkgs
     /\ cmd[q].at = "finish" => new.files >= old.files
NewerStart(q) ==
  cmd[q].at # "idle" => \A a \in Jobs[q] :
    /\ cmd[q].start[BuildJson(a)].ver >= upper[a].json
    /\ cmd[q].start[BuildJson(a)].ver >= Outfile(a).tree.json
RegressInv ==
  /\ PastRoots /\ PastTrees
  /\ \A a \in Artifacts : NewestRoot(a) /\ NewerBuild(a)
  /\ \A q \in Procs : NewerParts(q) /\ NewerStart(q)

(* The two trees of an artifact are made of numbers.                       *)
LEMMA TreeNumbers ==
  ASSUME TypeOK, NEW a \in Artifacts
  PROVE  /\ upper[a] \in TreeType /\ Outfile(a).tree \in TreeType
         /\ ProfileOf[a] \in Profiles /\ OutfileOf[a] \in Outfiles
         /\ root[ProfileOf[a]].gen \in Nat /\ clock \in Nat
BY ConstantsAssumption DEF TypeOK, Outfile, ImageType, RootType

(* An outfile is made from the build of its artifact, at "pack".           *)
LEMMA OwnPack ==
  ASSUME TypeOK, OwnOutfiles, [Next]_vars, NEW a \in Artifacts
  PROVE  \/ Outfile(a).tree' = Outfile(a).tree
         \/ /\ Outfile(a).tree' = upper[a] /\ upper' = upper /\ root' = root /\ src' = src
            /\ clock' = clock + 1
            /\ \E q \in Procs : PackBegin(q) /\ cmd[q].art = a
<1>1. CASE \E q \in Procs : BeginsPack(q, OutfileOf[a])
  <2> PICK q \in Procs : BeginsPack(q, OutfileOf[a])
    BY <1>1
  <2>1. cmd[q].art = a
    BY DEF BeginsPack, PackBegin, At, TypeOK, UpperPhases, OwnOutfiles
  <2>2. Outfile(a).tree' = upper[a] /\ clock' = clock + 1
    BY <2>1 DEF BeginsPack, Outfile
  <2>3. UNCHANGED <<upper, root, src>> /\ PackBegin(q)
    BY DEF BeginsPack, PackBegin
  <2>4. QED
    BY <2>1, <2>2, <2>3
<1>2. QED
  BY <1>1, OutfilesStep, TreeNumbers DEF Outfile

LEMMA NewestRootStep ==
  ASSUME TypeOK, TypeOK', OwnOutfiles, RegressInv, [Next]_vars, NEW a \in Artifacts
  PROVE  NewestRoot(a)'
<1>1. /\ ProfileOf[a] \in Profiles /\ clock \in Nat /\ root[ProfileOf[a]].gen \in Nat
      /\ upper[a].gen \in Nat /\ upper[a].gen <= clock
      /\ Outfile(a).tree.gen \in Nat /\ Outfile(a).tree.gen <= clock /\ NewestRoot(a)
  BY TreeNumbers DEF TreeType, RegressInv, PastTrees, PastTree
<1>2. root'[ProfileOf[a]].gen \in {root[ProfileOf[a]].gen, 0, clock + 1}
  BY <1>1, RootsStep DEF SameRecord, Recorded
<1>3. \/ upper'[a].gen = upper[a].gen
      \/ upper'[a].gen = 0
      \/ upper'[a].gen = root[ProfileOf[a]].gen /\ root' = root
  <2>1. CASE SameBuild(a)
    BY <2>1 DEF SameBuild
  <2>2. CASE upper'[a] = NoUpper
    BY <2>2, EmptyTree
  <2>3. CASE \E q \in Procs : Copied(q, a)
    BY <2>3, EmptyTree DEF Copied
  <2>4. CASE \E q \in Procs : Synced(q, a)
    BY <2>4, TreeNumbers DEF Synced, TreeType
  <2>5. QED
    BY <2>1, <2>2, <2>3, <2>4, UppersStep
<1>4. Outfile(a).tree.gen' \in {Outfile(a).tree.gen, upper[a].gen}
  BY OwnPack
<1>5. QED
  BY <1>1, <1>2, <1>3, <1>4 DEF NewestRoot

(* The build of a command at work is that of its own artifact, and its     *)
(* root is prepared.                                                       *)
LEMMA CopiesNewer ==
  ASSUME TypeOK, ScopeInv, ReadyInv, RegressInv, NEW q \in Procs, NEW a \in Artifacts, Copied(q, a)
  PROVE  /\ upper'[a].json >= Outfile(a).tree.json /\ upper'[a].gen >= Outfile(a).tree.gen
         /\ upper'[a].complete = FALSE
<1>1. cmd[q].at = "copyup" /\ a = cmd[q].art /\ a \in Jobs[q] /\ ProfileOf[a] \in cmd[q].prepared
  BY DEF Copied, Copyup, At, ScopeInv, Scope, UpperPhases
<1>2. root[ProfileOf[a]].gen # 0
  BY <1>1 DEF ReadyInv
<1>3. /\ upper'[a].gen = root[ProfileOf[a]].gen /\ upper'[a].complete = FALSE
      /\ upper'[a].json = cmd[q].start[BuildJson(a)].ver
  BY EmptyTree DEF Copied
<1>4. QED
  BY <1>1, <1>2, <1>3 DEF RegressInv, NewestRoot, NewerStart

LEMMA NewerBuildStep ==
  ASSUME TypeOK, TypeOK', OwnOutfiles, ScopeInv, ReadyInv, RegressInv, [Next]_vars, NEW a \in Artifacts
  PROVE  NewerBuild(a)'
<1>0. upper[a] \in TreeType /\ Outfile(a).tree \in TreeType /\ NewerBuild(a)
  BY TreeNumbers DEF RegressInv
<1>1. CASE Outfile(a).tree' = upper[a] /\ upper' = upper
  <2>1. PICK u \in TreeType : u = upper[a]
    BY <1>0
  <2>2. QED
    BY <1>0, <1>1, <2>1 DEF NewerBuild, TreeType
<1>2. CASE Outfile(a).tree' = Outfile(a).tree
  <2>1. CASE upper'[a] = NoUpper
    BY <2>1, EmptyTree DEF NewerBuild, NoFile
  <2>2. CASE \E q \in Procs : Copied(q, a)
    BY <1>2, <2>2, CopiesNewer DEF NewerBuild
  <2>3. CASE \E q \in Procs : Synced(q, a)
    <3> PICK q \in Procs : Synced(q, a)
      BY <2>3
    <3>1. /\ upper'[a].time = upper[a].time /\ upper'[a].gen = upper[a].gen
          /\ upper'[a].json = upper[a].json /\ upper'[a].complete = upper[a].complete
          /\ upper'[a].pkgs \in {upper[a].pkgs, src[Packages].ver}
          /\ upper'[a].files \in {upper[a].files, src[Files(a)].ver}
      BY <1>0 DEF Synced, TreeType
    <3>2. Outfile(a).tree.pkgs <= src[Packages].ver /\ Outfile(a).tree.files <= src[Files(a)].ver
      BY DEF RegressInv, PastTrees, PastTree
    <3>3. src[Packages].ver \in Nat /\ src[Files(a)].ver \in Nat
      BY SourceNames DEF TypeOK
    <3>4. QED
      BY <1>0, <1>2, <3>1, <3>2, <3>3 DEF NewerBuild, TreeType
  <2>4. CASE SameBuild(a)
    <3>1. upper'[a].complete =>
            upper[a].complete \/ (/\ upper[a].time # NoFile /\ upper[a].pkgs >= Outfile(a).tree.pkgs
                                  /\ upper[a].files >= Outfile(a).tree.files)
      BY CompletedByFinish DEF At, RegressInv, NewerParts
    <3>2. QED
      BY <1>0, <1>2, <2>4, <3>1 DEF NewerBuild, SameBuild
  <2>5. QED
    BY <2>1, <2>2, <2>3, <2>4, UppersStep
<1>3. QED
  BY <1>1, <1>2, OwnPack

LEMMA NewerStartStep ==
  ASSUME TypeOK, TypeOK', OwnOutfiles, ScopeInv, RegressInv, [Next]_vars, NEW q \in Procs
  PROVE  NewerStart(q)'
<1> SUFFICES ASSUME cmd'[q].at # "idle", NEW a \in Jobs[q]
             PROVE  /\ cmd'[q].start[BuildJson(a)].ver >= upper'[a].json
                    /\ cmd'[q].start[BuildJson(a)].ver >= Outfile(a).tree.json'
  BY DEF NewerStart
<1> DEFINE json == BuildJson(a)
<1>0. a \in Artifacts /\ json \in Sources
  BY ConstantsAssumption, SourceNames
<1>1. /\ Outfile(a).tree.json <= src[json].ver /\ upper[a].json <= src[json].ver
      /\ Outfile(a).tree.json \in Nat /\ upper[a].json \in Nat /\ src[json].ver \in Nat
      /\ cmd'[q].start[json].ver \in Nat
  BY <1>0, TreeNumbers DEF RegressInv, PastTrees, PastTree, TreeType, TypeOK, CommandType
<1>2. cmd'[q].start[json].ver >= upper[a].json /\ cmd'[q].start[json].ver >= Outfile(a).tree.json
  <2>1. CASE cmd'[q].start = cmd[q].start /\ cmd[q].at # "idle"
    BY <2>1 DEF RegressInv, NewerStart
  <2>2. CASE cmd'[q].start = src
    BY <1>0, <1>1, <2>2
  <2>3. cmd'[q] # Idle
    BY DEF Idle
  <2>4. QED
    BY <2>1, <2>2, <2>3, StartsMove
<1>3. upper'[a].json \in {upper[a].json, 0, cmd'[q].start[json].ver}
  <2>1. CASE SameBuild(a)
    BY <2>1 DEF SameBuild
  <2>2. CASE upper'[a] = NoUpper
    BY <2>2, EmptyTree
  <2>3. CASE \E r \in Procs : Copied(r, a)
    <3> PICK r \in Procs : Copied(r, a)
      BY <2>3
    <3>1. cmd[r].at = "copyup" /\ a = cmd[r].art
      BY DEF Copied, Copyup, At
    <3>2. a \in Jobs[r]
      BY <3>1 DEF ScopeInv, Scope, UpperPhases
    <3>3. r = q
      BY <3>2, OwnArtifacts
    <3>4. cmd'[q].start = cmd[q].start
      BY <3>1, <3>3, GotoAdvances DEF Copied, Copyup, UpperPhases, Advances, SameList
    <3>5. upper'[a].json = cmd[r].start[json].ver
      BY EmptyTree DEF Copied
    <3>6. QED
      BY <3>3, <3>4, <3>5
  <2>4. CASE \E r \in Procs : Synced(r, a)
    BY <1>0, <2>4, TreeNumbers DEF Synced, TreeType
  <2>5. QED
    BY <1>0, <2>1, <2>2, <2>3, <2>4, UppersStep
<1>4. Outfile(a).tree.json' \in {Outfile(a).tree.json, upper[a].json}
  BY <1>0, OwnPack
<1>5. QED
  BY <1>1, <1>2, <1>3, <1>4

LEMMA NewerPartsStep ==
  ASSUME TypeOK, TypeOK', OwnOutfiles, ScopeInv, RegressInv, [Next]_vars, NEW q \in Procs
  PROVE  NewerParts(q)'
<1> DEFINE Filling == {"sync_packages", "sync_artifact", "finish"}
<1> SUFFICES ASSUME cmd'[q].at \in Filling PROVE NewerParts(q)'
  BY DEF NewerParts
<1>0. Filling \subseteq UpperPhases
  BY DEF UpperPhases
<1>1. ASSUME cmd'[q] = cmd[q], upper'[cmd[q].art] = upper[cmd[q].art]
      PROVE  NewerParts(q)'
  <2>1. PICK a \in Artifacts : a = cmd[q].art
    BY <1>0, <1>1 DEF TypeOK
  <2>2. Outfile(a).tree' = Outfile(a).tree
    <3>1. ASSUME NEW r \in Procs, PackBegin(r), cmd[r].art = a PROVE FALSE
      <4>1. r # q /\ cmd[r].at = "pack" /\ cmd[q].at # "pack"
        BY <1>1, <3>1 DEF PackBegin, At
      <4>2. a \in Jobs[r] /\ a \in Jobs[q]
        BY <1>0, <1>1, <2>1, <3>1, <4>1 DEF ScopeInv, Scope, UpperPhases
      <4>3. QED
        BY <4>1, <4>2, OwnArtifacts
    <3>2. QED
      BY <3>1, OwnPack
  <2>3. NewerParts(q)
    BY DEF RegressInv
  <2>4. QED
    BY <1>1, <2>1, <2>2, <2>3 DEF NewerParts
<1>2. CASE Prepare(q) \/ Build(q) \/ StartSome(q) \/ Mishap(q)
  <2>1. ~Prepare(q) /\ ~SkipUnprepared(q) /\ ~EndCommand(q) /\ ~StartSome(q) /\ ~Mishap(q)
    BY <1>0, PrepareAway, QuietAway DEF Away
  <2>2. ~CheckArtifact(q)
    BY <1>0, CheckMoves DEF Away, Picks
  <2>3. ~(TrashUpper(q) \/ Finish(q) \/ CheckOutfile(q) \/ PackBegin(q) \/ PackEnd(q))
    <3> SUFFICES ASSUME TrashUpper(q) \/ Finish(q) \/ CheckOutfile(q) \/ PackBegin(q) \/ PackEnd(q)
                 PROVE  FALSE
      OBVIOUS
    <3>0. cmd[q].at \in UpperPhases /\ {"copyup", "outfile", "pack", "packing"} \subseteq UpperPhases
      BY DEF TrashUpper, Finish, CheckOutfile, PackBegin, PackEnd, At, UpperPhases
    <3>1. CASE Report(q)
      BY <3>0, <3>1, ReportReports DEF Reports
    <3>2. CASE \E phase \in {"copyup", "outfile", "pack", "packing"} : Goto(q, phase)
      BY <3>0, <3>2, GotoAdvances
    <3>3. QED
      BY <3>1, <3>2 DEF TrashUpper, Finish, CheckOutfile, PackBegin, PackEnd
  <2>4. Copyup(q) \/ SyncPackages(q) \/ SyncArtifact(q)
    BY <1>2, <2>1, <2>2, <2>3 DEF Build
  <2>5. PICK a \in Artifacts : a = cmd[q].art
    BY <2>4 DEF TypeOK, Copyup, SyncPackages, SyncArtifact, At, UpperPhases
  <2>6. /\ Packages \in Sources /\ Files(a) \in Sources
        /\ Outfile(a).tree' = Outfile(a).tree
    BY <2>4, SourceNames DEF Copyup, SyncPackages, SyncArtifact, Outfile
  <2>7. /\ Outfile(a).tree.pkgs <= src[Packages].ver /\ Outfile(a).tree.files <= src[Files(a)].ver
        /\ src[Packages].ver \in Nat /\ src[Files(a)].ver \in Nat
        /\ upper[a] \in TreeType /\ Outfile(a).tree \in TreeType
    BY <2>6, TreeNumbers DEF RegressInv, PastTrees, PastTree, TypeOK
  <2>8. cmd'[q].art = a /\ cmd[q].at \in UpperPhases
    BY <1>0, <2>4, <2>5, GotoAdvances DEF Copyup, SyncPackages, SyncArtifact, At, UpperPhases, Advances
  <2>9. CASE Copyup(q)
    <3>1. cmd'[q].at = "sync_packages"
      BY <2>8, <2>9, GotoAdvances DEF Copyup, UpperPhases
    <3>2. upper'[a].time # NoFile
      BY <2>5, <2>9, EmptyTree DEF Copyup, Stamp, TypeOK, NoFile
    <3>3. QED
      BY <2>8, <3>1, <3>2 DEF NewerParts
  <2>10. CASE SyncPackages(q)
    <3>1. cmd'[q].at = "sync_artifact"
      BY <2>8, <2>10, GotoAdvances DEF SyncPackages, UpperPhases
    <3>2. upper'[a].time = upper[a].time /\ upper'[a].pkgs = src[Packages].ver
      BY <2>5, <2>7, <2>10 DEF SyncPackages, TypeOK, TreeType
    <3>3. upper[a].time # NoFile
      BY <2>5, <2>10 DEF SyncPackages, At, RegressInv, NewerParts
    <3>4. QED
      BY <2>6, <2>7, <2>8, <3>1, <3>2, <3>3 DEF NewerParts, TreeType
  <2>11. CASE SyncArtifact(q)
    <3>1. cmd'[q].at = "finish"
      BY <2>8, <2>11, GotoAdvances DEF SyncArtifact, UpperPhases
    <3>2. /\ upper'[a].time = upper[a].time /\ upper'[a].pkgs = upper[a].pkgs
          /\ upper'[a].files = src[Files(a)].ver
      BY <2>5, <2>7, <2>11 DEF SyncArtifact, TypeOK, TreeType
    <3>3. upper[a].time # NoFile /\ upper[a].pkgs >= Outfile(a).tree.pkgs
      BY <2>5, <2>11 DEF SyncArtifact, At, RegressInv, NewerParts
    <3>4. QED
      BY <2>6, <2>7, <2>8, <3>1, <3>2, <3>3 DEF NewerParts, TreeType
  <2>12. QED
    BY <2>4, <2>9, <2>10, <2>11
<1>3. CASE ~(Prepare(q) \/ Build(q) \/ StartSome(q) \/ Mishap(q))
  <2>1. cmd'[q] = cmd[q]
    BY <1>3, NotItsCommand
  <2>2. cmd[q].at \in UpperPhases
    BY <1>0, <2>1
  <2>3. QED
    BY <1>1, <1>3, <2>1, <2>2, NotItsTurn
<1>4. QED
  BY <1>2, <1>3

LEMMA RegressStep ==
  ASSUME TypeOK, TypeOK', OwnOutfiles, ScopeInv, ReadyInv, RegressInv, [Next]_vars
  PROVE  RegressInv'
<1>1. PastRoots' /\ PastTrees'
  BY PastRootsStep, PastTreesStep DEF RegressInv
<1>2. QED
  BY <1>1, NewestRootStep, NewerBuildStep, NewerPartsStep, NewerStartStep DEF RegressInv

(* An outfile is never replaced by an image made from older sources or an  *)
(* older root (build and pack of genpack_artifact.py), whatever fails, is  *)
(* killed, edited or removed meanwhile.                                    *)
THEOREM OutfilesNeverRegress ==
  ASSUME OwnOutfiles
  PROVE  Spec => PackedNeverRegresses
<1> DEFINE Inv == RootInv /\ ScopeInv /\ ReadyInv /\ RegressInv
<1>1. Init => Inv
  <2> SUFFICES ASSUME Init PROVE Inv
    OBVIOUS
  <2>1. FreshInv
    BY FreshInit
  <2>2. ASSUME NEW a \in Artifacts PROVE NewestRoot(a) /\ NewerBuild(a)
    BY ConstantsAssumption, EmptyTree DEF Init, NewestRoot, NewerBuild, NoRoot, NoFile
  <2>3. ASSUME NEW q \in Procs PROVE NewerParts(q) /\ NewerStart(q)
    <3>1. cmd[q].at = "idle"
      BY DEF Init, Idle
    <3>2. QED
      BY <3>1 DEF NewerParts, NewerStart
  <2>4. QED
    BY <2>1, <2>2, <2>3 DEF FreshInv, RegressInv
<1>2. TypeOK /\ TypeOK' /\ Inv /\ [Next]_vars => Inv'
  BY RootStep, CommandsStep, RegressStep
<1>3. ASSUME TypeOK, RegressInv, [Next]_vars, NEW o \in Outfiles,
             out[o].tree.complete, out'[o].tree.complete
      PROVE  /\ out'[o].tree.json >= out[o].tree.json
             /\ out'[o].tree.files >= out[o].tree.files
             /\ out'[o].tree.pkgs >= out[o].tree.pkgs
             /\ out'[o].tree.gen >= out[o].tree.gen
  <2>1. CASE out'[o].tree = out[o].tree
    <3>1. out[o].tree \in TreeType
      BY <1>3 DEF TypeOK, ImageType
    <3>2. QED
      BY <2>1, <3>1 DEF TreeType
  <2>2. CASE \E q \in Procs : BeginsPack(q, o)
    <3> PICK q \in Procs : BeginsPack(q, o)
      BY <2>2
    <3>1. PICK a \in Artifacts : a = cmd[q].art
      BY <1>3 DEF BeginsPack, PackBegin, At, UpperPhases, TypeOK
    <3>2. o = OutfileOf[a] /\ out'[o].tree = upper[a]
      BY <3>1 DEF BeginsPack
    <3>3. NewerBuild(a)
      BY <1>3 DEF RegressInv
    <3>4. QED
      BY <1>3, <3>2, <3>3 DEF NewerBuild, Outfile
  <2>3. QED
    BY <1>3, <2>1, <2>2, OutfilesStep
<1>4. TypeOK /\ Inv /\ [Next]_vars =>
        [\A o \in Outfiles : out[o].tree.complete /\ out'[o].tree.complete =>
           /\ out'[o].tree.json >= out[o].tree.json
           /\ out'[o].tree.files >= out[o].tree.files
           /\ out'[o].tree.pkgs >= out[o].tree.pkgs
           /\ out'[o].tree.gen >= out[o].tree.gen]_vars
  BY <1>3
<1>5. QED
  BY <1>1, <1>2, <1>4, TypeCorrect, PTL DEF Spec, PackedNeverRegresses
=============================================================================
