-------------------------- MODULE ImageUpdateProofs --------------------------
(***************************************************************************)
(* Proofs about ImageUpdate, for any bounds and any mixture of the two     *)
(* installers and the inits.                                               *)
(***************************************************************************)
EXTENDS ImageUpdate, TLAPS

(* Part 1: types.  The installers' records first: what an update of one of *)
(* them leaves alone.                                                      *)
TasksOK ==
  /\ ins \in [Procs -> InstallerType]
  /\ \A q \in Procs : ins[q].at = "copying" => ins[q].file # NoFile
InstallersOK ==
  /\ TasksOK
  /\ \A q \in Procs : At(q, "idle") \/ boot = "up"

DiskOK ==
  /\ dir \in [Names -> Nat]
  /\ behind \in SUBSET [Names -> Nat]
  /\ durable \in SUBSET whole
  /\ whole \in SUBSET (Nat \ {NoFile})
  /\ copies \in Nat

MachineOK ==
  /\ boot \in BootPhases
  /\ running \in Nat /\ lastRun \in Nat /\ prev \in Nat
  /\ mishaps \in 0..MaxMishaps

LEMMA TypeParts == TypeOK <=> InstallersOK /\ DiskOK /\ MachineOK
BY DEF TypeOK, InstallersOK, TasksOK, DiskOK, MachineOK, At

(* What two records that differ in `at' and `result' only have in common.  *)
SameTask(i, j) ==
  i.kind = j.kind /\ i.source = j.source /\ i.good = j.good /\ i.cfg = j.cfg
    /\ i.file = j.file /\ i.had = j.had

LEMMA BecomeEffect ==
  ASSUME ins \in [Procs -> InstallerType], NEW q \in Procs, NEW i \in InstallerType,
         Become(q, i)
  PROVE  /\ ins' \in [Procs -> InstallerType]
         /\ ins'[q] = i
         /\ \A r \in Procs : r # q => ins'[r] = ins[r]
BY DEF Become

LEMMA GotoEffect ==
  ASSUME ins \in [Procs -> InstallerType], NEW q \in Procs, NEW phase \in InstallPhases,
         Goto(q, phase)
  PROVE  /\ ins' \in [Procs -> InstallerType]
         /\ ins'[q].at = phase /\ ins'[q].result = ins[q].result
         /\ SameTask(ins'[q], ins[q])
         /\ \A r \in Procs : r # q => ins'[r] = ins[r]
<1> DEFINE i == [ins[q] EXCEPT !.at = phase]
<1>1. /\ i \in InstallerType /\ i.at = phase /\ i.result = ins[q].result
      /\ SameTask(i, ins[q])
  BY DEF InstallerType, SameTask
<1>2. Become(q, i)
  BY DEF Goto
<1> HIDE DEF i
<1> QED
  BY <1>1, <1>2, BecomeEffect

LEMMA ReturnEffect ==
  ASSUME ins \in [Procs -> InstallerType], NEW q \in Procs,
         NEW result \in {"done", "failed", "killed"}, Return(q, result)
  PROVE  /\ ins' \in [Procs -> InstallerType]
         /\ ins'[q].at = "idle" /\ ins'[q].result = result
         /\ SameTask(ins'[q], ins[q])
         /\ \A r \in Procs : r # q => ins'[r] = ins[r]
<1> DEFINE i == [ins[q] EXCEPT !.at = "idle", !.result = result]
<1>1. /\ i \in InstallerType /\ i.at = "idle" /\ i.result = result
      /\ SameTask(i, ins[q])
  BY DEF InstallerType, InstallPhases, SameTask
<1>2. Become(q, i)
  BY DEF Return
<1> HIDE DEF i
<1> QED
  BY <1>1, <1>2, BecomeEffect

LEMMA ErroredType ==
  ASSUME NEW i \in InstallerType
  PROVE  /\ Errored(i) \in InstallerType
         /\ Errored(i).at = AfterError(i) /\ AfterError(i) # "copying"
         /\ Errored(i).result \in {i.result, "failed"}
         /\ AfterError(i) # "idle" => Errored(i).result = i.result
         /\ SameTask(Errored(i), i)
<1>1. AfterError(i) \in InstallPhases /\ AfterError(i) # "copying"
  BY DEF AfterError, InstallPhases
<1>2. PICK r \in {i.result, "failed"} :
        r = (IF AfterError(i) = "idle" THEN "failed" ELSE i.result)
  OBVIOUS
<1>3. r \in {"none", "done", "failed", "killed"}
  BY <1>2 DEF InstallerType
<1> DEFINE e == [i EXCEPT !.at = AfterError(i), !.result = r]
<1>4. e \in InstallerType /\ e.at = AfterError(i) /\ e.result = r /\ SameTask(e, i)
  BY <1>1, <1>3 DEF InstallerType, SameTask
<1>5. Errored(i) = e
  BY <1>2 DEF Errored
<1> HIDE DEF e
<1> QED
  BY <1>1, <1>2, <1>4, <1>5

LEMMA ErroredEffect ==
  ASSUME ins \in [Procs -> InstallerType], NEW q \in Procs, Become(q, Errored(ins[q]))
  PROVE  /\ ins' \in [Procs -> InstallerType]
         /\ ins'[q].at = AfterError(ins[q]) /\ ins'[q].at # "copying"
         /\ ins'[q].at # "idle" => ins'[q].result = ins[q].result
         /\ ins'[q].at = "idle" => ins'[q].result \in {ins[q].result, "failed"}
         /\ SameTask(ins'[q], ins[q])
         /\ \A r \in Procs : r # q => ins'[r] = ins[r]
<1>1. ins[q] \in InstallerType
  OBVIOUS
<1> QED
  BY <1>1, ErroredType, BecomeEffect

LEMMA IdleType == Idle \in InstallerType /\ Idle.at = "idle" /\ Idle.result = "none"
BY DEF Idle, InstallerType, InstallPhases, NoFile
-----------------------------------------------------------------------------
(* The directory operations keep the disk well typed.                      *)
LEMMA ChangeType ==
  ASSUME DiskOK, NEW d \in [Names -> Nat], Change(d)
  PROVE  dir' \in [Names -> Nat] /\ behind' \in SUBSET [Names -> Nat]
BY DEF DiskOK, Change

LEMMA RemoveType ==
  ASSUME DiskOK, NEW name \in Names, Remove(name)
  PROVE  dir' \in [Names -> Nat] /\ behind' \in SUBSET [Names -> Nat]
BY DEF DiskOK, Change, Remove, NoFile

LEMMA RenameType ==
  ASSUME DiskOK, NEW from \in Names, NEW to \in Names, Rename(from, to)
  PROVE  dir' \in [Names -> Nat] /\ behind' \in SUBSET [Names -> Nat]
BY DEF DiskOK, Change, Rename, NoFile

LEMMA InitType == Init => TypeOK
<1>1. Init => InstallersOK
  BY IdleType DEF Init, InstallersOK, TasksOK, At
<1>2. Init => DiskOK /\ MachineOK
  BY ConstantsAssumption DEF Init, DiskOK, MachineOK, NoFile, BootPhases
<1> QED
  BY <1>1, <1>2, TypeParts
-----------------------------------------------------------------------------
(* The steps of an installer.                                              *)
LEMMA InstallType ==
  ASSUME TypeOK, NEW q \in Procs, Install(q)
  PROVE  TypeOK'
<1>1. InstallersOK /\ DiskOK /\ MachineOK
  BY TypeParts
<1>2. ins \in [Procs -> InstallerType]
  BY <1>1 DEF InstallersOK, TasksOK
<1>3. ~At(q, "idle") /\ UNCHANGED <<machine, mishaps>>
  BY DEF Install, Check, RemoveOld, CopyBegin, CopyEnd, AskLosetup, SetAside, Place, Restore,
     Cleanup, CopyConfig, SyncDisk, At
<1>4. boot = "up" /\ MachineOK'
  BY <1>1, <1>3 DEF InstallersOK, MachineOK, machine
<1>5. SUFFICES DiskOK' /\ TasksOK'
  BY <1>3, <1>4 DEF TypeOK, InstallersOK, TasksOK, DiskOK, MachineOK, machine, At
<1>6. {"new", "img", "cur", "old", "cfg"} \subseteq Names
  BY DEF Names
<1>7. InstallPhases = {"idle", "check", "remove_old", "copy", "copying", "losetup",
                  "set_aside", "place", "handler", "cleanup", "config", "sync"}
  BY DEF InstallPhases
<1>8. CASE Check(q)
  BY <1>1, <1>2, <1>7, <1>8, GotoEffect, ReturnEffect DEF Check, DiskOK, disk, InstallersOK, TasksOK
<1>9. CASE RemoveOld(q)
  <2>1. TasksOK'
    BY <1>1, <1>2, <1>7, <1>9, GotoEffect DEF RemoveOld, InstallersOK, TasksOK
  <2>2. dir' \in [Names -> Nat] /\ behind' \in SUBSET [Names -> Nat]
    BY <1>1, <1>6, <1>9, RemoveType DEF RemoveOld, DiskOK
  <2> QED
    BY <1>1, <1>9, <2>1, <2>2 DEF RemoveOld, DiskOK
<1>10. CASE CopyBegin(q)
  <2>1. CASE CanCopy(ins[q]) /\ copies' = copies + 1
             /\ Change([dir EXCEPT !["new"] = copies'])
             /\ Become(q, [ins[q] EXCEPT !.at = "copying", !.file = copies'])
    <3> DEFINE i == [ins[q] EXCEPT !.at = "copying", !.file = copies']
               d == [dir EXCEPT !["new"] = copies']
    <3>1. copies' \in Nat /\ copies' # NoFile
      BY <1>1, <2>1 DEF DiskOK, NoFile
    <3>2. i \in InstallerType /\ i.file = copies'
      <4>1. ins[q] \in InstallerType
        BY <1>2
      <4> QED
        BY <1>7, <3>1, <4>1 DEF InstallerType
    <3>3. d \in [Names -> Nat]
      BY <1>1, <3>1 DEF DiskOK
    <3>4. Become(q, i) /\ Change(d)
      BY <2>1
    <3> HIDE DEF i, d
    <3>5. TasksOK'
      BY <1>1, <1>2, <3>1, <3>2, <3>4, BecomeEffect DEF InstallersOK, TasksOK
    <3>6. dir' \in [Names -> Nat] /\ behind' \in SUBSET [Names -> Nat]
      BY <1>1, <3>3, <3>4, ChangeType
    <3> QED
      BY <1>1, <1>10, <3>1, <3>5, <3>6 DEF CopyBegin, DiskOK
  <2>2. CASE Become(q, Errored(ins[q])) /\ UNCHANGED <<dir, behind, copies>>
    BY <1>1, <1>2, <1>10, <2>2, ErroredEffect DEF CopyBegin, DiskOK, InstallersOK, TasksOK
  <2> QED
    BY <1>10, <2>1, <2>2 DEF CopyBegin
<1>11. CASE CopyEnd(q)
  <2>1. TasksOK'
    BY <1>1, <1>2, <1>7, <1>11, GotoEffect DEF CopyEnd, InstallersOK, TasksOK
  <2>2. ins[q].file \in Nat \ {NoFile}
    BY <1>1, <1>2, <1>11 DEF CopyEnd, InstallersOK, TasksOK, At, InstallerType
  <2> QED
    BY <1>1, <1>11, <2>1, <2>2 DEF CopyEnd, DiskOK
<1>12. CASE AskLosetup(q)
  BY <1>1, <1>2, <1>7, <1>12, GotoEffect DEF AskLosetup, DiskOK, disk, InstallersOK, TasksOK
<1>13. CASE SetAside(q)
  <2>1. TasksOK'
    BY <1>1, <1>2, <1>7, <1>13, GotoEffect, ErroredEffect DEF SetAside, InstallersOK, TasksOK
  <2>2. dir' \in [Names -> Nat] /\ behind' \in SUBSET [Names -> Nat]
    BY <1>1, <1>6, <1>13, RenameType DEF SetAside, DiskOK
  <2> QED
    BY <1>1, <1>13, <2>1, <2>2 DEF SetAside, DiskOK
<1>14. CASE Place(q)
  <2>1. TasksOK'
    BY <1>1, <1>2, <1>7, <1>14, GotoEffect, ReturnEffect, ErroredEffect DEF Place, InstallersOK, TasksOK
  <2>2. dir' \in [Names -> Nat] /\ behind' \in SUBSET [Names -> Nat]
    BY <1>1, <1>6, <1>14, RenameType DEF Place, DiskOK
  <2> QED
    BY <1>1, <1>14, <2>1, <2>2 DEF Place, DiskOK
<1>15. CASE Restore(q)
  <2>1. TasksOK'
    BY <1>1, <1>2, <1>7, <1>15, GotoEffect, ReturnEffect DEF Restore, InstallersOK, TasksOK
  <2>2. dir' \in [Names -> Nat] /\ behind' \in SUBSET [Names -> Nat]
    BY <1>1, <1>6, <1>15, RenameType DEF Restore, DiskOK
  <2> QED
    BY <1>1, <1>15, <2>1, <2>2 DEF Restore, DiskOK
<1>16. CASE Cleanup(q)
  <2>1. TasksOK'
    BY <1>1, <1>2, <1>16, ReturnEffect DEF Cleanup, InstallersOK, TasksOK
  <2>2. dir' \in [Names -> Nat] /\ behind' \in SUBSET [Names -> Nat]
    BY <1>1, <1>6, <1>16, RemoveType DEF Cleanup, DiskOK
  <2> QED
    BY <1>1, <1>16, <2>1, <2>2 DEF Cleanup, DiskOK
<1>17. CASE CopyConfig(q)
  <2>1. TasksOK'
    BY <1>1, <1>2, <1>7, <1>17, GotoEffect, ErroredEffect DEF CopyConfig, InstallersOK, TasksOK
  <2>2. copies' \in Nat
    BY <1>1, <1>17 DEF CopyConfig, DiskOK
  <2>3. [dir EXCEPT !["cfg"] = copies'] \in [Names -> Nat]
    BY <1>1, <2>2 DEF DiskOK
  <2>4. dir' \in [Names -> Nat] /\ behind' \in SUBSET [Names -> Nat]
    BY <1>1, <1>17, <2>3, ChangeType DEF CopyConfig, DiskOK
  <2> QED
    BY <1>1, <1>17, <2>1, <2>2, <2>4 DEF CopyConfig, DiskOK
<1>18. CASE SyncDisk(q)
  <2>1. TasksOK'
    BY <1>1, <1>2, <1>18, ReturnEffect DEF SyncDisk, InstallersOK, TasksOK
  <2> QED
    BY <1>1, <1>18, <2>1 DEF SyncDisk, Sync, DiskOK
<1> QED
  BY <1>8, <1>9, <1>10, <1>11, <1>12, <1>13, <1>14, <1>15, <1>16, <1>17, <1>18 DEF Install
-----------------------------------------------------------------------------
(* Everything else that happens to installers, and the machine.            *)
LEMMA StartType ==
  ASSUME TypeOK, NEW q \in Procs, StartSome(q)
  PROVE  TypeOK'
<1>1. PICK kind \in Installers, source \in {"outside", "old"}, good \in BOOLEAN,
           withCfg \in WithConfig : Start(q, kind, source, good, withCfg)
  BY DEF StartSome
<1>2. InstallersOK /\ DiskOK /\ MachineOK
  BY TypeParts
<1> DEFINE i == [Idle EXCEPT !.at = "check", !.kind = kind, !.source = source,
                             !.good = good, !.cfg = withCfg, !.had = Exists("img")]
<1>3. i \in InstallerType /\ i.at = "check"
  <2>1. Exists("img") \in BOOLEAN
    BY DEF Exists
  <2>2. Idle \in InstallerType
    BY IdleType
  <2>3. kind \in {"cpp", "sh"} /\ withCfg \in BOOLEAN
    BY ConstantsAssumption
  <2> QED
    BY <2>1, <2>2, <2>3 DEF InstallerType, InstallPhases
<1>4. Become(q, i)
  BY <1>1 DEF Start
<1> HIDE DEF i
<1>5. TasksOK'
  BY <1>2, <1>3, <1>4, BecomeEffect DEF InstallersOK, TasksOK
<1> QED
  BY <1>1, <1>2, <1>5 DEF Start, TypeOK, InstallersOK, TasksOK, DiskOK, MachineOK, disk, At, NoFile

LEMMA MishapType ==
  ASSUME TypeOK, NEW q \in Procs, LosetupFails(q) \/ Fail(q) \/ Kill(q)
  PROVE  TypeOK'
<1>1. InstallersOK /\ DiskOK /\ MachineOK
  BY TypeParts
<1>2. ins \in [Procs -> InstallerType]
  BY <1>1 DEF InstallersOK, TasksOK
<1>3. ~At(q, "idle") /\ UNCHANGED <<disk, machine>> /\ mishaps' \in 0..MaxMishaps
  BY <1>1, ConstantsAssumption DEF LosetupFails, Fail, Kill, At, MachineOK
<1>4. SUFFICES TasksOK'
  BY <1>1, <1>3 DEF TypeOK, InstallersOK, TasksOK, DiskOK, MachineOK, disk, machine, At
<1>5. CASE LosetupFails(q)
  BY <1>1, <1>2, <1>5, GotoEffect DEF LosetupFails, InstallersOK, TasksOK, InstallPhases
<1>6. CASE Fail(q)
  <2> DEFINE i == [ins[q] EXCEPT !.calm = FALSE]
  <2>1. ins[q] \in InstallerType
    BY <1>2
  <2>2. i \in InstallerType
    BY <2>1 DEF InstallerType
  <2>3. Become(q, Errored(i))
    BY <1>6 DEF Fail
  <2> HIDE DEF i
  <2>4. Errored(i) \in InstallerType /\ Errored(i).at # "copying"
    BY <2>2, ErroredType
  <2> QED
    BY <1>1, <1>2, <2>3, <2>4, BecomeEffect DEF InstallersOK, TasksOK
<1>7. CASE Kill(q)
  BY <1>1, <1>2, <1>7, ReturnEffect DEF Kill, InstallersOK, TasksOK
<1> QED
  BY <1>5, <1>6, <1>7

LEMMA StopType ==
  ASSUME TypeOK, Stop
  PROVE  /\ TasksOK'
         /\ \A q \in Procs : At(q, "idle")'
         /\ copies' \in Nat /\ boot' \in BootPhases
         /\ running' \in Nat /\ lastRun' \in Nat /\ prev' \in Nat
BY IdleType DEF Stop, TypeOK, TasksOK, At, BootPhases, NoFile

LEMMA MachineType ==
  ASSUME TypeOK, Shutdown \/ PowerFailure \/ Boot \/ \E init \in Inits : PowerOn(init)
  PROVE  TypeOK'
<1>1. InstallersOK /\ DiskOK /\ MachineOK
  BY TypeParts
<1>2. CASE Shutdown
  <2>1. mishaps' \in 0..MaxMishaps
    BY <1>1, <1>2, ConstantsAssumption DEF Shutdown, MachineOK
  <2>2. DiskOK'
    BY <1>1, <1>2, StopType DEF Shutdown, Sync, DiskOK
  <2> QED
    BY <1>2, <2>1, <2>2, StopType DEF Shutdown, TypeOK, TasksOK, DiskOK, At
<1>3. CASE PowerFailure
  <2>1. mishaps' \in 0..MaxMishaps
    BY <1>1, <1>3, ConstantsAssumption DEF PowerFailure, MachineOK
  <2>2. DiskOK'
    BY <1>1, <1>3, StopType DEF PowerFailure, DiskOK
  <2> QED
    BY <1>3, <2>1, <2>2, StopType DEF PowerFailure, TypeOK, TasksOK, DiskOK, At
<1>4. CASE Boot
  <2>1. \A q \in Procs : At(q, "idle")
    BY <1>1, <1>4 DEF Boot, Preserve, Rotate, Mount, InstallersOK
  <2>2. InstallersOK'
    BY <1>1, <1>4, <2>1 DEF Boot, Preserve, Rotate, Mount, InstallersOK, TasksOK, At
  <2>3. MachineOK'
    BY <1>1, <1>4, ConstantsAssumption DEF Boot, Preserve, Rotate, Mount, MachineOK, DiskOK,
       BootPhases, Names
  <2>4. DiskOK'
    <3>1. CASE Preserve
      <4> DEFINE d == [dir EXCEPT !["old"] = dir["cur"], !["cur"] = NoFile]
      <4>1. d \in [Names -> Nat]
        BY <1>1 DEF DiskOK, NoFile, Names
      <4>2. dir' \in {d, dir} /\ behind' \in {{}, behind} /\ durable' \in {whole, durable}
        BY <3>1 DEF Preserve
      <4> HIDE DEF d
      <4> QED
        BY <1>1, <3>1, <4>1, <4>2 DEF Preserve, DiskOK
    <3>2. CASE Rotate
      <4>1. dir' \in [Names -> Nat] /\ behind' \in SUBSET [Names -> Nat]
        BY <1>1, <3>2, RemoveType, RenameType DEF Rotate, DiskOK, Names
      <4> QED
        BY <1>1, <3>2, <4>1 DEF Rotate, DiskOK
    <3>3. CASE Mount
      BY <1>1, <3>3 DEF Mount, DiskOK, disk
    <3> QED
      BY <1>4, <3>1, <3>2, <3>3 DEF Boot
  <2> QED
    BY <2>2, <2>3, <2>4 DEF TypeOK, InstallersOK, TasksOK, MachineOK, DiskOK, At
<1>5. CASE \E init \in Inits : PowerOn(init)
  BY <1>1, <1>5 DEF PowerOn, TypeOK, InstallersOK, TasksOK, MachineOK, DiskOK, BootPhases, disk, At
<1> QED
  BY <1>2, <1>3, <1>4, <1>5

LEMMA NextType == TypeOK /\ [Next]_vars => TypeOK'
<1>1. TypeOK /\ UNCHANGED vars => TypeOK'
  BY DEF TypeOK, vars, disk, machine, At
<1> QED
  BY <1>1, StartType, InstallType, MishapType, MachineType DEF Next

(* No step of an installer, a boot or a failure leaves the states the code *)
(* can be in: installers run only on a machine that is up.                 *)
THEOREM UpdateTypeCorrect == Spec => []TypeOK
<1> QED
  BY InitType, NextType, PTL DEF Spec
-----------------------------------------------------------------------------
(* Part 2: what survives.  From here on there is one installer at a time,  *)
(* and losetup answers.  RunningImageKept and ImageSurvives are not        *)
(* inductive: a boot must know that what it finds as system.cur is on the  *)
(* disk, an installer between its renames that system.cur is the image     *)
(* that runs, and a machine that is off where the last image went.         *)
OneInstaller == \A p, q \in Procs : p = q

SavedInv ==
  /\ \A d \in OnDisk : d["cur"] \in durable \cup {NoFile}
  /\ boot = "up" => running \in durable /\ lastRun = running
  /\ boot # "up" => durable = whole /\ \A d \in behind : d["img"] = dir["img"]

AsideInv ==
  \A q \in Procs :
    /\ At(q, "set_aside") => dir["img"] = running
    /\ At(q, "place") => dir["cur"] = running
    /\ At(q, "handler") /\ ins[q].kind # "cpp" => dir["cur"] = running

(* f is where the next boot leaves it: under system.cur or, if there is    *)
(* none, under system.old.                                                 *)
Put(f, d) == d["cur"] = f \/ (d["cur"] = NoFile /\ d["old"] = f)

PreviousInv ==
  /\ prev # NoFile => prev \in durable /\ \A d \in OnDisk : Put(prev, d)
  /\ prev # NoFile => \A q \in Procs : At(q, "idle")
  /\ boot # "up" /\ lastRun # NoFile =>
       lastRun \in durable /\ \A d \in OnDisk : d["img"] = lastRun \/ Put(lastRun, d)

KeepInv == SavedInv /\ RunningImageKept /\ ImageSurvives /\ AsideInv /\ PreviousInv

LEMMA InitKeep == Init => KeepInv
BY DEF Init, KeepInv, SavedInv, RunningImageKept, ImageSurvives, AsideInv, PreviousInv, OnDisk,
   Names, NoFile, At, Idle

(* While the machine is up it is enough that the directory a step leaves   *)
(* behind still names the running image.                                   *)
LEMMA UpStep ==
  ASSUME TypeOK, KeepInv, boot = "up", UNCHANGED <<boot, running, lastRun>>,
         durable \subseteq durable', OnDisk' \subseteq OnDisk \cup {dir'},
         running \in {dir'["img"], dir'["cur"]},
         dir'["cur"] \in durable' \cup {NoFile}
  PROVE  SavedInv' /\ RunningImageKept' /\ ImageSurvives'
<1>1. \A d \in OnDisk' : running \in {d["img"], d["cur"]}
                          /\ d["cur"] \in durable' \cup {NoFile}
  BY DEF KeepInv, SavedInv, RunningImageKept
<1>2. running \in durable'
  BY DEF KeepInv, SavedInv
<1>3. SavedInv' /\ RunningImageKept'
  BY <1>1, <1>2 DEF SavedInv, RunningImageKept, KeepInv
<1>4. ImageSurvives'
  BY <1>1, <1>2 DEF ImageSurvives
<1> QED
  BY <1>3, <1>4

LEMMA UpSame ==
  ASSUME TypeOK, KeepInv, boot = "up", UNCHANGED <<boot, running, lastRun, dir, behind, durable>>
  PROVE  SavedInv' /\ RunningImageKept' /\ ImageSurvives'
BY DEF KeepInv, SavedInv, RunningImageKept, ImageSurvives, OnDisk

LEMMA UpChange ==
  ASSUME TypeOK, KeepInv, boot = "up", UNCHANGED <<boot, running, lastRun, durable>>,
         NEW d \in [Names -> Nat], Change(d),
         running \in {d["img"], d["cur"]}, d["cur"] \in durable \cup {NoFile}
  PROVE  SavedInv' /\ RunningImageKept' /\ ImageSurvives'
<1>1. dir' = d /\ OnDisk' = OnDisk \cup {dir'}
  BY DEF Change, OnDisk
<1> QED
  BY <1>1, UpStep

(* The running image is named by system.img or system.cur, and is on disk. *)
LEMMA RunningNamed ==
  ASSUME TypeOK, KeepInv, boot = "up"
  PROVE  /\ running \in {dir["img"], dir["cur"]} /\ running # NoFile
         /\ running \in durable /\ dir["cur"] \in durable \cup {NoFile}
BY DEF TypeOK, KeepInv, SavedInv, RunningImageKept, OnDisk

LEMMA ErrorPhases ==
  ASSUME NEW i
  PROVE  /\ AfterError(i) \notin {"set_aside", "place"}
         /\ AfterError(i) = "handler" /\ i.kind # "cpp" => i.at = "place"
BY DEF AfterError

(* What a step of the only installer leaves of AsideInv to be shown.       *)
LEMMA AsideStep ==
  ASSUME OneInstaller, NEW q \in Procs,
         ins'[q].at = "set_aside" => dir'["img"] = running',
         ins'[q].at = "place" => dir'["cur"] = running',
         ins'[q].at = "handler" /\ ins'[q].kind # "cpp" => dir'["cur"] = running'
  PROVE  AsideInv'
BY DEF OneInstaller, AsideInv, At

LEMMA InstallKeeps ==
  ASSUME OneInstaller, TypeOK, KeepInv, NEW q \in Procs, Install(q)
  PROVE  KeepInv'
<1>1. ins \in [Procs -> InstallerType] /\ dir \in [Names -> Nat]
  BY DEF TypeOK
<1>2. boot = "up" /\ UNCHANGED machine /\ prev = NoFile
  BY DEF Install, Check, RemoveOld, CopyBegin, CopyEnd, AskLosetup, SetAside, Place, Restore,
     Cleanup, CopyConfig, SyncDisk, At, TypeOK, KeepInv, PreviousInv
<1>3. PreviousInv'
  BY <1>2 DEF PreviousInv, machine
<1>4. running \in {dir["img"], dir["cur"]} /\ running # NoFile
        /\ running \in durable /\ dir["cur"] \in durable \cup {NoFile}
  BY <1>2, RunningNamed
<1>5. UNCHANGED <<boot, running, lastRun>>
  BY <1>2 DEF machine
<1>6. InstallPhases = {"idle", "check", "remove_old", "copy", "copying", "losetup",
                  "set_aside", "place", "handler", "cleanup", "config", "sync"}
  BY DEF InstallPhases
<1>7. SUFFICES (SavedInv' /\ RunningImageKept' /\ ImageSurvives') /\ AsideInv'
  BY <1>3 DEF KeepInv
<1>8. CASE Check(q)
  <2>1. ins'[q].at \in {"remove_old", "idle"}
    BY <1>1, <1>6, <1>8, GotoEffect, ReturnEffect DEF Check
  <2> QED
    BY <1>2, <1>5, <1>8, <2>1, UpSame, AsideStep DEF Check, disk
<1>9. CASE RemoveOld(q)
  <2>1. ins'[q].at = "copy"
    BY <1>1, <1>6, <1>9, GotoEffect DEF RemoveOld
  <2>2. AsideInv'
    BY <2>1, AsideStep
  <2>3. CASE Exists("old")
    <3> DEFINE d == [dir EXCEPT !["old"] = NoFile]
    <3>1. d \in [Names -> Nat] /\ d["img"] = dir["img"] /\ d["cur"] = dir["cur"]
      BY <1>1 DEF Names, NoFile
    <3>2. Change(d) /\ UNCHANGED durable
      BY <1>9, <2>3 DEF RemoveOld, Remove
    <3> HIDE DEF d
    <3> QED
      BY <1>2, <1>4, <1>5, <2>2, <3>1, <3>2, UpChange
  <2>4. CASE ~Exists("old")
    BY <1>2, <1>5, <1>9, <2>2, <2>4, UpSame DEF RemoveOld
  <2> QED
    BY <2>3, <2>4
<1>10. CASE CopyBegin(q)
  <2>1. CASE CanCopy(ins[q]) /\ copies' = copies + 1
             /\ Change([dir EXCEPT !["new"] = copies'])
             /\ Become(q, [ins[q] EXCEPT !.at = "copying", !.file = copies'])
    <3> DEFINE d == [dir EXCEPT !["new"] = copies']
    <3>1. ins'[q].at = "copying"
      BY <1>1, <2>1 DEF Become, InstallerType
    <3>2. d \in [Names -> Nat] /\ d["img"] = dir["img"] /\ d["cur"] = dir["cur"]
      BY <1>1, <2>1 DEF TypeOK, Names
    <3>3. Change(d) /\ UNCHANGED durable
      BY <1>10, <2>1 DEF CopyBegin
    <3> HIDE DEF d
    <3> QED
      BY <1>2, <1>4, <1>5, <3>1, <3>2, <3>3, UpChange, AsideStep
  <2>2. CASE Become(q, Errored(ins[q])) /\ UNCHANGED <<dir, behind, copies>>
    <3>1. /\ ins'[q].at \notin {"set_aside", "place"}
          /\ ~(ins'[q].at = "handler" /\ ins'[q].kind # "cpp")
      BY <1>1, <1>10, <2>2, ErroredEffect, ErrorPhases DEF SameTask, CopyBegin, At
    <3> QED
      BY <1>2, <1>5, <1>10, <2>2, <3>1, UpSame, AsideStep DEF CopyBegin
  <2> QED
    BY <1>10, <2>1, <2>2 DEF CopyBegin
<1>11. CASE CopyEnd(q)
  <2>1. ins'[q].at = "losetup"
    BY <1>1, <1>6, <1>11, GotoEffect DEF CopyEnd
  <2> QED
    BY <1>2, <1>5, <1>11, <2>1, UpSame, AsideStep DEF CopyEnd
<1>12. CASE AskLosetup(q)
  <2>1. ins'[q].at = IF Looped THEN "set_aside" ELSE "place"
    BY <1>1, <1>6, <1>12, GotoEffect DEF AskLosetup
  <2>2. UNCHANGED <<dir, behind, durable>>
    BY <1>12 DEF AskLosetup, disk
  <2>3. Looped => dir["img"] = running
    BY DEF Looped
  <2>4. ~Looped => dir["cur"] = running
    BY <1>4 DEF Looped, Exists
  <2>5. AsideInv'
    BY <1>5, <2>1, <2>2, <2>3, <2>4, AsideStep
  <2> QED
    BY <1>2, <1>5, <2>2, <2>5, UpSame
<1>13. CASE SetAside(q)
  <2>1. dir["img"] = running /\ Exists("img")
    BY <1>4, <1>13 DEF SetAside, KeepInv, AsideInv, At, Exists
  <2>2. ins'[q].at = "place"
    BY <1>1, <1>6, <1>13, <2>1, GotoEffect DEF SetAside
  <2> DEFINE d == [dir EXCEPT !["cur"] = dir["img"], !["img"] = NoFile]
  <2>3. d \in [Names -> Nat] /\ d["cur"] = running
    BY <1>1, <2>1 DEF Names, NoFile
  <2>4. Change(d) /\ UNCHANGED durable
    BY <1>13, <2>1 DEF SetAside, Rename
  <2>5. dir' = d
    BY <2>4 DEF Change
  <2> HIDE DEF d
  <2> QED
    BY <1>2, <1>4, <1>5, <2>2, <2>3, <2>4, <2>5, UpChange, AsideStep
<1>14. CASE Place(q)
  <2>1. dir["cur"] = running
    BY <1>14 DEF Place, KeepInv, AsideInv
  <2>2. CASE Exists("new")
    <3>1. ins'[q].at \in {"config", "idle"}
      BY <1>1, <1>6, <1>14, <2>2, GotoEffect, ReturnEffect DEF Place
    <3> DEFINE d == [dir EXCEPT !["img"] = dir["new"], !["new"] = NoFile]
    <3>2. d \in [Names -> Nat] /\ d["cur"] = running
      BY <1>1, <2>1 DEF Names, NoFile
    <3>3. Change(d) /\ UNCHANGED durable
      BY <1>14, <2>2 DEF Place, Rename
    <3> HIDE DEF d
    <3> QED
      BY <1>2, <1>4, <1>5, <3>1, <3>2, <3>3, UpChange, AsideStep
  <2>3. CASE ~Exists("new")
    <3>1. ins'[q].at \notin {"set_aside", "place"}
      BY <1>1, <1>14, <2>3, ErroredEffect, ErrorPhases DEF Place
    <3> QED
      BY <1>2, <1>5, <1>14, <2>1, <2>3, <3>1, UpSame, AsideStep DEF Place
  <2> QED
    BY <2>2, <2>3
<1>15. CASE Restore(q)
  <2>1. ins'[q].at \in {"cleanup", "idle"}
    BY <1>1, <1>6, <1>15, GotoEffect, ReturnEffect DEF Restore
  <2>2. CASE Exists("cur") /\ (ins[q].kind = "cpp" => ~Exists("img"))
    <3> DEFINE d == [dir EXCEPT !["img"] = dir["cur"], !["cur"] = NoFile]
    <3>1. dir["cur"] = running
      BY <1>4, <1>15, <2>2 DEF Restore, KeepInv, AsideInv, Exists
    <3>2. d \in [Names -> Nat] /\ d["img"] = running /\ d["cur"] = NoFile
      BY <1>1, <3>1 DEF Names, NoFile
    <3>3. Change(d) /\ UNCHANGED durable
      BY <1>15, <2>2 DEF Restore, Rename
    <3> HIDE DEF d
    <3> QED
      BY <1>2, <1>4, <1>5, <2>1, <3>2, <3>3, UpChange, AsideStep
  <2>3. CASE ~(Exists("cur") /\ (ins[q].kind = "cpp" => ~Exists("img")))
    BY <1>2, <1>5, <1>15, <2>1, <2>3, UpSame, AsideStep DEF Restore
  <2> QED
    BY <2>2, <2>3
<1>16. CASE Cleanup(q)
  <2>1. ins'[q].at = "idle"
    BY <1>1, <1>16, ReturnEffect DEF Cleanup
  <2>2. CASE Exists("new")
    <3> DEFINE d == [dir EXCEPT !["new"] = NoFile]
    <3>1. d \in [Names -> Nat] /\ d["img"] = dir["img"] /\ d["cur"] = dir["cur"]
      BY <1>1 DEF Names, NoFile
    <3>2. Change(d) /\ UNCHANGED durable
      BY <1>16, <2>2 DEF Cleanup, Remove
    <3> HIDE DEF d
    <3> QED
      BY <1>2, <1>4, <1>5, <2>1, <3>1, <3>2, UpChange, AsideStep
  <2>3. CASE ~Exists("new")
    BY <1>2, <1>5, <1>16, <2>1, <2>3, UpSame, AsideStep DEF Cleanup
  <2> QED
    BY <2>2, <2>3
<1>17. CASE CopyConfig(q)
  <2>1. CASE Goto(q, "sync") /\ UNCHANGED <<dir, behind, copies>>
    BY <1>1, <1>2, <1>5, <1>6, <1>17, <2>1, GotoEffect, UpSame, AsideStep DEF CopyConfig
  <2>2. CASE Become(q, Errored(ins[q])) /\ UNCHANGED <<dir, behind, copies>>
    <3>1. /\ ins'[q].at \notin {"set_aside", "place"}
          /\ ~(ins'[q].at = "handler" /\ ins'[q].kind # "cpp")
      BY <1>1, <1>17, <2>2, ErroredEffect, ErrorPhases DEF SameTask, CopyConfig, At
    <3> QED
      BY <1>2, <1>5, <1>17, <2>2, <3>1, UpSame, AsideStep DEF CopyConfig
  <2>3. CASE copies' = copies + 1 /\ Change([dir EXCEPT !["cfg"] = copies']) /\ Goto(q, "sync")
    <3> DEFINE d == [dir EXCEPT !["cfg"] = copies']
    <3>1. ins'[q].at = "sync"
      BY <1>1, <1>6, <2>3, GotoEffect
    <3>2. d \in [Names -> Nat] /\ d["img"] = dir["img"] /\ d["cur"] = dir["cur"]
      BY <1>1, <2>3 DEF TypeOK, Names
    <3>3. Change(d) /\ UNCHANGED durable
      BY <1>17, <2>3 DEF CopyConfig
    <3> HIDE DEF d
    <3> QED
      BY <1>2, <1>4, <1>5, <3>1, <3>2, <3>3, UpChange, AsideStep
  <2> QED
    BY <1>17, <2>1, <2>2, <2>3 DEF CopyConfig
<1>18. CASE SyncDisk(q)
  <2>1. ins'[q].at = "idle"
    BY <1>1, <1>18, ReturnEffect DEF SyncDisk
  <2>2. OnDisk' = {dir'} /\ dir' = dir /\ durable \subseteq durable'
    BY <1>18 DEF SyncDisk, Sync, OnDisk, TypeOK
  <2> QED
    BY <1>2, <1>4, <1>5, <2>1, <2>2, UpStep, AsideStep DEF OnDisk
<1> QED
  BY <1>8, <1>9, <1>10, <1>11, <1>12, <1>13, <1>14, <1>15, <1>16, <1>17, <1>18 DEF Install
-----------------------------------------------------------------------------
LEMMA StartKeeps ==
  ASSUME OneInstaller, TypeOK, KeepInv, NEW q \in Procs, StartSome(q)
  PROVE  KeepInv'
<1>1. PICK kind \in Installers, source \in {"outside", "old"}, good \in BOOLEAN,
           withCfg \in WithConfig : Start(q, kind, source, good, withCfg)
  BY DEF StartSome
<1>2. ins'[q].at = "check"
  BY <1>1 DEF Start, Become, Idle, TypeOK
<1>3. boot = "up" /\ UNCHANGED <<boot, running, lastRun, dir, behind, durable>> /\ prev' = NoFile
  BY <1>1 DEF Start, disk
<1>4. SavedInv' /\ RunningImageKept' /\ ImageSurvives'
  BY <1>3, UpSame
<1>5. AsideInv'
  BY <1>2, AsideStep
<1>6. PreviousInv'
  BY <1>3 DEF PreviousInv
<1> QED
  BY <1>4, <1>5, <1>6 DEF KeepInv

LEMMA MishapKeeps ==
  ASSUME OneInstaller, ~LosetupMayFail, TypeOK, KeepInv, NEW q \in Procs,
         LosetupFails(q) \/ Fail(q) \/ Kill(q)
  PROVE  KeepInv'
<1>1. ins \in [Procs -> InstallerType]
  BY DEF TypeOK
<1>2. Fail(q) \/ Kill(q)
  BY DEF LosetupFails
<1>3. boot = "up" /\ UNCHANGED <<disk, machine>> /\ prev = NoFile
  BY <1>2 DEF Fail, Kill, At, TypeOK, KeepInv, PreviousInv
<1>4. SavedInv' /\ RunningImageKept' /\ ImageSurvives'
  BY <1>3, UpSame DEF disk, machine
<1>5. PreviousInv'
  BY <1>3 DEF PreviousInv, machine
<1>6. AsideInv'
  <2>1. CASE Kill(q)
    BY <1>1, <2>1, ReturnEffect, AsideStep DEF Kill
  <2>2. CASE Fail(q)
    <3> DEFINE i == [ins[q] EXCEPT !.calm = FALSE]
    <3>1. ins[q] \in InstallerType
      BY <1>1
    <3>2. i \in InstallerType /\ i.kind = ins[q].kind /\ i.at = ins[q].at
      BY <3>1 DEF InstallerType
    <3>3. Become(q, Errored(i))
      BY <2>2 DEF Fail
    <3> HIDE DEF i
    <3>4. ins'[q] = Errored(i)
      BY <1>1, <3>2, <3>3, ErroredType, BecomeEffect
    <3>5. ins'[q].at = AfterError(i) /\ ins'[q].kind = i.kind
      BY <3>2, <3>4, ErroredType DEF SameTask
    <3>6. ins'[q].at = "handler" /\ ins'[q].kind # "cpp" => dir["cur"] = running
      BY <3>2, <3>5, ErrorPhases DEF KeepInv, AsideInv, At
    <3> QED
      BY <1>3, <3>5, <3>6, ErrorPhases, AsideStep DEF disk, machine
  <2> QED
    BY <1>2, <2>1, <2>2
<1> QED
  BY <1>4, <1>5, <1>6 DEF KeepInv

(* An installer that is idle has nothing to keep.                          *)
LEMMA NoAside == (\A q \in Procs : At(q, "idle")) => AsideInv
BY DEF AsideInv, At

LEMMA StopKeeps ==
  ASSUME TypeOK, KeepInv, Shutdown \/ PowerFailure
  PROVE  KeepInv'
<1>1. /\ dir' \in OnDisk /\ OnDisk' = {dir'} /\ behind' = {}
      /\ durable \subseteq durable' /\ durable' = whole'
      /\ boot' = "off" /\ UNCHANGED <<lastRun, prev>>
      /\ \A q \in Procs : At(q, "idle")'
  BY StopType DEF Shutdown, PowerFailure, Sync, Stop, OnDisk, TypeOK
<1>2. SavedInv' /\ RunningImageKept'
  BY <1>1 DEF KeepInv, SavedInv, RunningImageKept, OnDisk
<1>3. ImageSurvives'
  BY <1>1 DEF KeepInv, ImageSurvives
<1>4. AsideInv'
  BY <1>1, NoAside DEF AsideInv, At
<1>5. PreviousInv'
  <2>1. prev # NoFile => prev \in durable /\ Put(prev, dir')
    BY <1>1 DEF KeepInv, PreviousInv
  <2>2. lastRun # NoFile => lastRun \in durable /\ (dir'["img"] = lastRun \/ Put(lastRun, dir'))
    BY <1>1 DEF KeepInv, PreviousInv, SavedInv, RunningImageKept, Put
  <2> QED
    BY <1>1, <2>1, <2>2 DEF PreviousInv, Put
<1> QED
  BY <1>2, <1>3, <1>4, <1>5 DEF KeepInv

(* The steps of a boot: system.cur, where there is one, becomes system.old *)
(* and system.img stays what it is.                                        *)
LEMMA RotateKeeps ==
  ASSUME TypeOK, KeepInv, Preserve \/ Rotate
  PROVE  KeepInv'
<1>1. /\ boot # "up" /\ boot' # "up"
      /\ UNCHANGED <<running, lastRun, prev, ins, whole>>
      /\ durable' = whole /\ durable = whole
  BY DEF Preserve, Rotate, KeepInv, SavedInv
<1>2. dir \in [Names -> Nat] /\ dir \in OnDisk
  BY DEF TypeOK, OnDisk
<1>3. /\ OnDisk' \subseteq OnDisk \cup {dir'} /\ dir' \in OnDisk'
      /\ \A d \in OnDisk' : d["img"] = dir'["img"]
      /\ \/ dir' = dir
         \/ /\ dir["cur"] # NoFile
            /\ dir'["img"] = dir["img"] /\ dir'["cur"] = dir["cur"] /\ dir'["old"] = NoFile
         \/ /\ dir["cur"] # NoFile
            /\ dir'["img"] = dir["img"] /\ dir'["cur"] = NoFile /\ dir'["old"] = dir["cur"]
  <2>1. \A d \in OnDisk : d["img"] = dir["img"]
    BY <1>1 DEF KeepInv, SavedInv, OnDisk
  <2>2. CASE Preserve
    BY <1>2, <2>1, <2>2 DEF Preserve, OnDisk, Exists, Names
  <2>3. CASE Rotate
    BY <1>2, <2>1, <2>3 DEF Rotate, Remove, Rename, Change, OnDisk, Exists, Names
  <2> QED
    BY <2>2, <2>3
<1>4. SavedInv'
  <2>1. dir["cur"] \in durable \cup {NoFile}
    BY <1>2 DEF KeepInv, SavedInv
  <2>2. \A d \in OnDisk' : d["cur"] \in durable' \cup {NoFile}
    BY <1>1, <1>3, <2>1 DEF KeepInv, SavedInv
  <2>3. behind' \subseteq OnDisk'
    BY DEF OnDisk
  <2> QED
    BY <1>1, <1>3, <2>2, <2>3 DEF SavedInv
<1>5. ImageSurvives'
  <2>1. dir["cur"] # NoFile => dir["cur"] \in durable
    BY <1>2 DEF KeepInv, SavedInv
  <2>2. \E name \in {"img", "cur", "old"} : dir'[name] \in durable'
    BY <1>1, <1>2, <1>3, <2>1 DEF KeepInv, ImageSurvives
  <2> QED
    BY <1>1, <1>3, <2>2 DEF KeepInv, ImageSurvives
<1>6. PreviousInv'
  <2>1. prev # NoFile => \A d \in OnDisk' : Put(prev, d)
    BY <1>2, <1>3 DEF KeepInv, PreviousInv, Put
  <2>2. lastRun # NoFile => \A d \in OnDisk' : d["img"] = lastRun \/ Put(lastRun, d)
    BY <1>1, <1>2, <1>3 DEF KeepInv, PreviousInv, Put
  <2> QED
    BY <1>1, <2>1, <2>2 DEF KeepInv, PreviousInv, Put, At
<1>7. RunningImageKept' /\ AsideInv'
  <2>1. \A q \in Procs : At(q, "idle")
    BY <1>1 DEF TypeOK
  <2> QED
    BY <1>1, <2>1 DEF RunningImageKept, AsideInv, At
<1> QED
  BY <1>4, <1>5, <1>6, <1>7 DEF KeepInv

LEMMA MountKeeps ==
  ASSUME TypeOK, KeepInv, Mount
  PROVE  KeepInv'
<1>1. boot = "mount" /\ UNCHANGED <<dir, behind, whole, durable, ins>>
  BY DEF Mount, disk
<1>2. \A q \in Procs : At(q, "idle")
  BY <1>1 DEF TypeOK
<1>3. OnDisk' = OnDisk /\ \A d \in OnDisk : d["img"] = dir["img"]
  BY <1>1 DEF KeepInv, SavedInv, OnDisk
<1>4. AsideInv'
  BY <1>1, <1>2 DEF AsideInv, At
<1>5. ImageSurvives'
  BY <1>1, <1>3 DEF KeepInv, ImageSurvives
<1>6. CASE dir["img"] \notin whole
  <2>1. boot' = "off" /\ UNCHANGED <<running, lastRun, prev>>
    BY <1>6 DEF Mount
  <2> QED
    BY <1>1, <1>3, <1>4, <1>5, <2>1 DEF KeepInv, SavedInv, RunningImageKept, PreviousInv, At
<1>7. CASE dir["img"] \in whole
  <2>1. /\ boot' = "up" /\ running' = dir["img"] /\ lastRun' = dir["img"]
        /\ prev' = IF lastRun \in {NoFile, dir["img"]} THEN prev ELSE lastRun
    BY <1>7 DEF Mount
  <2>2. SavedInv' /\ RunningImageKept'
    BY <1>1, <1>3, <1>7, <2>1 DEF KeepInv, SavedInv, RunningImageKept
  <2>3. prev' # NoFile => prev' \in durable /\ \A d \in OnDisk : Put(prev', d)
    BY <1>1, <1>3, <2>1 DEF KeepInv, PreviousInv
  <2>4. PreviousInv'
    BY <1>1, <1>2, <1>3, <2>1, <2>3 DEF PreviousInv, Put, At
  <2> QED
    BY <1>4, <1>5, <2>2, <2>4 DEF KeepInv
<1> QED
  BY <1>6, <1>7

LEMMA PowerOnKeeps ==
  ASSUME TypeOK, KeepInv, NEW init \in Inits, PowerOn(init)
  PROVE  KeepInv'
BY DEF PowerOn, disk, KeepInv, SavedInv, RunningImageKept, ImageSurvives, AsideInv, PreviousInv,
   OnDisk, Put, At

LEMMA NextKeeps ==
  OneInstaller /\ ~LosetupMayFail /\ TypeOK /\ KeepInv /\ [Next]_vars => KeepInv'
<1>1. KeepInv /\ UNCHANGED vars => KeepInv'
  BY DEF vars, disk, machine, KeepInv, SavedInv, RunningImageKept, ImageSurvives, AsideInv,
     PreviousInv, OnDisk, Put, At
<1> QED
  BY <1>1, StartKeeps, InstallKeeps, MishapKeeps, StopKeeps, RotateKeeps, MountKeeps,
     PowerOnKeeps DEF Next, Boot

LEMMA AlwaysKept ==
  ASSUME OneInstaller, ~LosetupMayFail
  PROVE  Spec => []KeepInv
BY InitType, InitKeep, NextType, NextKeeps, PTL DEF Spec

(* The image the machine runs from always has a name on the boot           *)
(* partition, in every directory a power failure may leave.                *)
THEOREM RunningImageIsKept ==
  ASSUME OneInstaller, ~LosetupMayFail
  PROVE  Spec => []RunningImageKept
<1>1. KeepInv => RunningImageKept
  BY DEF KeepInv
<1> QED
  BY <1>1, AlwaysKept, PTL

(* Whatever is interrupted, some whole image is on the disk as system.img, *)
(* system.cur or system.old.                                               *)
THEOREM SomeImageSurvives ==
  ASSUME OneInstaller, ~LosetupMayFail
  PROVE  Spec => []ImageSurvives
<1>1. KeepInv => ImageSurvives
  BY DEF KeepInv
<1> QED
  BY <1>1, AlwaysKept, PTL

(* The image an update replaced is kept until the next installer starts.   *)
THEOREM PreviousIsKept ==
  ASSUME OneInstaller, ~LosetupMayFail
  PROVE  Spec => []PreviousKept
<1>1. KeepInv => PreviousKept
  BY DEF KeepInv, PreviousInv, PreviousKept, Put
<1> QED
  BY <1>1, AlwaysKept, PTL
-----------------------------------------------------------------------------
(* Part 3: what genpack-install reports as done.  The copy it made is      *)
(* followed from system.new to system.img, and to the disk.                *)
Made(i) ==
  /\ i.at # "idle" => i.kind = "cpp" /\ i.result = "none"
  /\ i.at \notin {"idle", "check"} => i.good
  /\ i.at = "copying" => dir["new"] = i.file
  /\ i.at \in {"losetup", "set_aside", "place"} => dir["new"] \in whole
  /\ i.at \in {"config", "sync"} => dir["img"] \in whole
  /\ i.result = "done" => i.at = "idle" /\ boot = "up" /\ \A d \in OnDisk : d["img"] \in durable
MadeInv == \A q \in Procs : Made(ins[q])

(* An installer that is idle and has not succeeded asserts nothing.        *)
LEMMA MadeIdle ==
  ASSUME NEW q \in Procs, ins[q].at = "idle", ins[q].result # "done"
  PROVE  Made(ins[q])
BY DEF Made

LEMMA InitMade == Init => MadeInv
BY IdleType, MadeIdle DEF Init, MadeInv

LEMMA MadeStep ==
  ASSUME OneInstaller, NEW q \in Procs, Made(ins[q])'
  PROVE  MadeInv'
BY DEF OneInstaller, MadeInv

(* Where an error takes genpack-install there is nothing to be known.      *)
LEMMA CppError ==
  ASSUME NEW i, i.kind = "cpp"
  PROVE  AfterError(i) \in {"idle", "handler"}
BY DEF AfterError

LEMMA MadeError ==
  ASSUME OneInstaller, TypeOK, MadeInv, NEW q \in Procs, ~At(q, "idle"),
         NEW i \in InstallerType, SameTask(i, ins[q]), i.result = ins[q].result,
         i.at = ins[q].at, ~At(q, "check") \/ AfterError(i) = "idle",
         Become(q, Errored(i))
  PROVE  MadeInv'
<1>1. ins'[q] = Errored(i)
  BY ErroredType, BecomeEffect DEF TypeOK
<1>2. /\ SameTask(Errored(i), ins[q]) /\ Errored(i).at = AfterError(i)
      /\ Errored(i).result \in {i.result, "failed"}
      /\ AfterError(i) # "idle" => Errored(i).result = i.result
  BY ErroredType DEF SameTask
<1>3. ins[q].kind = "cpp" /\ ins[q].result = "none" /\ (~At(q, "check") => ins[q].good)
  BY DEF MadeInv, Made, At
<1>4. AfterError(i) \in {"idle", "handler"}
  BY <1>3, CppError DEF SameTask
<1>5. Made(ins[q])'
  BY <1>1, <1>2, <1>3, <1>4 DEF Made, SameTask
<1> QED
  BY <1>5, MadeStep

LEMMA InstallMade ==
  ASSUME OneInstaller, TypeOK, MadeInv, NEW q \in Procs, Install(q)
  PROVE  MadeInv'
<1>1. ins \in [Procs -> InstallerType] /\ dir \in [Names -> Nat] /\ ins[q] \in InstallerType
  BY DEF TypeOK
<1>2. ~At(q, "idle") /\ boot = "up" /\ boot' = boot
  BY DEF Install, Check, RemoveOld, CopyBegin, CopyEnd, AskLosetup, SetAside, Place, Restore,
     Cleanup, CopyConfig, SyncDisk, At, TypeOK, machine
<1>3. ins[q].kind = "cpp" /\ ins[q].result = "none" /\ (~At(q, "check") => ins[q].good)
  BY <1>2 DEF MadeInv, Made, At
<1>4. InstallPhases = {"idle", "check", "remove_old", "copy", "copying", "losetup",
                  "set_aside", "place", "handler", "cleanup", "config", "sync"}
  BY DEF InstallPhases
<1>5. ASSUME NEW phase \in {"remove_old", "copy", "handler", "cleanup"},
             Goto(q, phase), ins[q].good
      PROVE  MadeInv'
  <2>1. ins'[q].at = phase /\ ins'[q].result = "none" /\ SameTask(ins'[q], ins[q])
    BY <1>1, <1>3, <1>4, <1>5, GotoEffect
  <2> QED
    BY <1>3, <1>5, <2>1, MadeStep DEF Made, SameTask
<1>6. ASSUME NEW result \in {"failed", "killed"}, Return(q, result) PROVE MadeInv'
  <2>1. ins'[q].at = "idle" /\ ins'[q].result = result
    BY <1>1, <1>6, ReturnEffect
  <2> QED
    BY <2>1, MadeStep DEF Made
<1>7. ASSUME ~At(q, "check"), Become(q, Errored(ins[q])) PROVE MadeInv'
  BY <1>1, <1>2, <1>7, MadeError DEF SameTask
<1>8. CASE Check(q)
  BY <1>3, <1>5, <1>6, <1>8 DEF Check
<1>9. CASE RemoveOld(q)
  BY <1>3, <1>5, <1>9 DEF RemoveOld, At
<1>10. CASE CopyBegin(q)
  <2>1. CASE CanCopy(ins[q]) /\ copies' = copies + 1
             /\ Change([dir EXCEPT !["new"] = copies'])
             /\ Become(q, [ins[q] EXCEPT !.at = "copying", !.file = copies'])
    <3> DEFINE i == [ins[q] EXCEPT !.at = "copying", !.file = copies']
    <3>1. i.at = "copying" /\ i.file = copies' /\ i.kind = "cpp" /\ i.result = "none" /\ i.good
      BY <1>1, <1>3, <1>10 DEF InstallerType, CopyBegin, At
    <3>2. ins'[q] = i /\ dir'["new"] = copies'
      BY <1>1, <2>1 DEF Become, Change, Names
    <3> HIDE DEF i
    <3> QED
      BY <3>1, <3>2, MadeStep DEF Made
  <2>2. CASE Become(q, Errored(ins[q]))
    BY <1>7, <1>10, <2>2 DEF CopyBegin, At
  <2> QED
    BY <1>10, <2>1, <2>2 DEF CopyBegin
<1>11. CASE CopyEnd(q)
  <2>1. ins'[q].at = "losetup" /\ ins'[q].result = "none" /\ SameTask(ins'[q], ins[q])
    BY <1>1, <1>3, <1>4, <1>11, GotoEffect DEF CopyEnd
  <2>2. dir'["new"] \in whole'
    BY <1>3, <1>11 DEF CopyEnd, MadeInv, Made, At
  <2> QED
    BY <1>3, <1>11, <2>1, <2>2, MadeStep DEF CopyEnd, Made, SameTask, At
<1>12. CASE AskLosetup(q)
  <2>1. /\ ins'[q].at \in {"set_aside", "place"} /\ ins'[q].result = "none"
        /\ SameTask(ins'[q], ins[q])
    BY <1>1, <1>3, <1>4, <1>12, GotoEffect DEF AskLosetup
  <2>2. dir'["new"] \in whole'
    BY <1>12 DEF AskLosetup, MadeInv, Made, At, disk
  <2> QED
    BY <1>3, <1>12, <2>1, <2>2, MadeStep DEF AskLosetup, Made, SameTask, At
<1>13. CASE SetAside(q)
  <2>1. CASE Exists("img")
    <3>1. ins'[q].at = "place" /\ ins'[q].result = "none" /\ SameTask(ins'[q], ins[q])
      BY <1>1, <1>3, <1>4, <1>13, <2>1, GotoEffect DEF SetAside
    <3>2. dir'["new"] = dir["new"]
      BY <1>1, <1>13, <2>1 DEF SetAside, Rename, Change, Names
    <3>3. dir'["new"] \in whole'
      BY <1>13, <3>2 DEF SetAside, MadeInv, Made, At
    <3> QED
      BY <1>3, <1>13, <3>1, <3>3, MadeStep DEF SetAside, Made, SameTask, At
  <2>2. CASE ~Exists("img")
    BY <1>7, <1>13, <2>2 DEF SetAside, At
  <2> QED
    BY <2>1, <2>2
<1>14. CASE Place(q)
  <2>1. CASE Exists("new")
    <3>1. ins'[q].at = "config" /\ ins'[q].result = "none" /\ SameTask(ins'[q], ins[q])
      BY <1>1, <1>3, <1>4, <1>14, <2>1, GotoEffect DEF Place
    <3>2. dir'["img"] = dir["new"]
      BY <1>1, <1>14, <2>1 DEF Place, Rename, Change, Names
    <3>3. dir'["img"] \in whole'
      BY <1>14, <3>2 DEF Place, MadeInv, Made, At
    <3> QED
      BY <1>3, <1>14, <3>1, <3>3, MadeStep DEF Place, Made, SameTask, At
  <2>2. CASE ~Exists("new")
    BY <1>7, <1>14, <2>2 DEF Place, At
  <2> QED
    BY <2>1, <2>2
<1>15. CASE Restore(q)
  BY <1>3, <1>5, <1>15 DEF Restore, At
<1>16. CASE Cleanup(q)
  BY <1>6, <1>16 DEF Cleanup
<1>17. CASE CopyConfig(q)
  <2>1. CASE Goto(q, "sync")
    <3>1. ins'[q].at = "sync" /\ ins'[q].result = "none" /\ SameTask(ins'[q], ins[q])
      BY <1>1, <1>3, <1>4, <2>1, GotoEffect
    <3>2. dir'["img"] = dir["img"] \/ Become(q, Errored(ins[q]))
      BY <1>1, <1>17 DEF CopyConfig, Change, Names
    <3>3. dir["img"] \in whole /\ whole' = whole
      BY <1>17 DEF CopyConfig, MadeInv, Made, At
    <3>4. CASE Become(q, Errored(ins[q]))
      BY <1>7, <1>17, <3>4 DEF CopyConfig, At
    <3>5. CASE dir'["img"] = dir["img"]
      BY <1>3, <1>17, <3>1, <3>3, <3>5, MadeStep DEF CopyConfig, Made, SameTask, At
    <3> QED
      BY <3>2, <3>4, <3>5
  <2>2. CASE Become(q, Errored(ins[q]))
    BY <1>7, <1>17, <2>2 DEF CopyConfig, At
  <2> QED
    BY <1>17, <2>1, <2>2 DEF CopyConfig
<1>18. CASE SyncDisk(q)
  <2>1. ins'[q].at = "idle"
    BY <1>1, <1>18, ReturnEffect DEF SyncDisk
  <2>2. OnDisk' = {dir} /\ durable' = whole
    BY <1>18 DEF SyncDisk, Sync, OnDisk
  <2>3. dir["img"] \in whole
    BY <1>18 DEF SyncDisk, MadeInv, Made, At
  <2> QED
    BY <1>2, <2>1, <2>2, <2>3, MadeStep DEF Made
<1> QED
  BY <1>8, <1>9, <1>10, <1>11, <1>12, <1>13, <1>14, <1>15, <1>16, <1>17, <1>18 DEF Install

LEMMA StartMade ==
  ASSUME OneInstaller, Installers \subseteq {"cpp"}, TypeOK, MadeInv, NEW q \in Procs,
         StartSome(q)
  PROVE  MadeInv'
<1>1. PICK kind \in Installers, source \in {"outside", "old"}, good \in BOOLEAN,
           withCfg \in WithConfig : Start(q, kind, source, good, withCfg)
  BY DEF StartSome
<1> DEFINE i == [Idle EXCEPT !.at = "check", !.kind = kind, !.source = source,
                             !.good = good, !.cfg = withCfg, !.had = Exists("img")]
<1>2. i.at = "check" /\ i.kind = "cpp" /\ i.result = "none"
  BY DEF Idle
<1>3. ins'[q] = i
  BY <1>1 DEF Start, Become, TypeOK
<1> HIDE DEF i
<1> QED
  BY <1>2, <1>3, MadeStep DEF Made

LEMMA MishapMade ==
  ASSUME OneInstaller, TypeOK, MadeInv, NEW q \in Procs,
         LosetupFails(q) \/ Fail(q) \/ Kill(q)
  PROVE  MadeInv'
<1>1. ins \in [Procs -> InstallerType] /\ ins[q] \in InstallerType
  BY DEF TypeOK
<1>2. ~At(q, "idle") /\ UNCHANGED <<disk, machine>>
  BY DEF LosetupFails, Fail, Kill, At
<1>3. ins[q].kind = "cpp" /\ ins[q].result = "none" /\ (~At(q, "check") => ins[q].good)
  BY <1>2 DEF MadeInv, Made, At
<1>4. CASE LosetupFails(q)
  <2>1. ins'[q].at = "place" /\ ins'[q].result = "none" /\ SameTask(ins'[q], ins[q])
    BY <1>1, <1>3, <1>4, GotoEffect DEF LosetupFails, InstallPhases
  <2>2. dir'["new"] \in whole'
    BY <1>2, <1>4 DEF LosetupFails, MadeInv, Made, At, disk
  <2> QED
    BY <1>3, <1>4, <2>1, <2>2, MadeStep DEF LosetupFails, Made, SameTask, At
<1>5. CASE Fail(q)
  <2> DEFINE i == [ins[q] EXCEPT !.calm = FALSE]
  <2>1. /\ i \in InstallerType /\ i.at = ins[q].at /\ i.result = ins[q].result
        /\ i.kind = "cpp" /\ SameTask(i, ins[q])
    BY <1>1, <1>3 DEF InstallerType, SameTask
  <2>2. Become(q, Errored(i))
    BY <1>5 DEF Fail
  <2> HIDE DEF i
  <2>3. ~At(q, "check") \/ AfterError(i) = "idle"
    BY <2>1 DEF AfterError, At
  <2> QED
    BY <1>2, <2>1, <2>2, <2>3, MadeError
<1>6. CASE Kill(q)
  <2>1. ins'[q].at = "idle" /\ ins'[q].result = "killed"
    BY <1>1, <1>6, ReturnEffect DEF Kill
  <2> QED
    BY <2>1, MadeStep DEF Made
<1> QED
  BY <1>4, <1>5, <1>6

LEMMA MachineMade ==
  ASSUME TypeOK, MadeInv, Shutdown \/ PowerFailure \/ Boot \/ \E init \in Inits : PowerOn(init)
  PROVE  MadeInv'
<1>1. CASE Shutdown \/ PowerFailure
  <2>1. \A q \in Procs : ins'[q] = Idle
    BY <1>1 DEF Shutdown, PowerFailure, Stop
  <2> QED
    BY <2>1, IdleType DEF MadeInv, Made
<1>2. CASE Boot \/ \E init \in Inits : PowerOn(init)
  <2>1. boot # "up" /\ ins' = ins
    BY <1>2 DEF Boot, Preserve, Rotate, Mount, PowerOn
  <2>2. \A q \in Procs : ins[q].at = "idle" /\ ins[q].result # "done"
    BY <2>1 DEF TypeOK, At, MadeInv, Made
  <2> QED
    BY <2>1, <2>2 DEF MadeInv, Made
<1> QED
  BY <1>1, <1>2

LEMMA NextMade ==
  ASSUME OneInstaller, Installers \subseteq {"cpp"}
  PROVE  TypeOK /\ MadeInv /\ [Next]_vars => MadeInv'
<1>1. MadeInv /\ UNCHANGED vars => MadeInv'
  BY DEF vars, disk, machine, MadeInv, Made, OnDisk
<1> QED
  BY <1>1, StartMade, InstallMade, MishapMade, MachineMade DEF Next

(* What genpack-install has reported as installed is on the disk, whole,   *)
(* as system.img: sync() is called where it has to be.                     *)
THEOREM SuccessIsDurable ==
  ASSUME OneInstaller, Installers \subseteq {"cpp"}
  PROVE  Spec => []DoneIsDurable
<1>1. MadeInv => DoneIsDurable
  BY DEF MadeInv, Made, DoneIsDurable
<1>2. Spec => []MadeInv
  BY InitType, InitMade, NextType, NextMade, PTL DEF Spec
<1> QED
  BY <1>1, <1>2, PTL
-----------------------------------------------------------------------------
(* Part 4: system.img is there when an installer returns.  It is away only *)
(* between the two renames; a handler that finds it away was reached by    *)
(* the one call that may fail, so it is not going to fail itself.          *)
Shown(i) ==
  /\ i.had => boot = "up"
  /\ i.at \in {"copying", "losetup", "set_aside", "place"} => Exists("new")
  /\ i.had /\ i.at = "place" => Exists("img") \/ Exists("cur")
  /\ i.had /\ i.at = "handler" => Exists("img") \/ (Exists("cur") /\ ~i.calm)
  /\ i.had /\ i.at \notin {"idle", "place", "handler"} => Exists("img")
  /\ i.had /\ i.at = "idle" /\ i.result \in {"done", "failed"} => Exists("img")
ShownInv == \A q \in Procs : Shown(ins[q])

LEMMA ShownStep ==
  ASSUME OneInstaller, NEW q \in Procs, Shown(ins[q])'
  PROVE  ShownInv'
BY DEF OneInstaller, ShownInv

LEMMA ErroredCalm ==
  ASSUME NEW i \in InstallerType
  PROVE  Errored(i).calm = i.calm /\ (AfterError(i) = "idle" => Errored(i).result = "failed")
BY DEF Errored, InstallerType

LEMMA ShownError ==
  ASSUME OneInstaller, TypeOK, ShownInv, NEW q \in Procs, ~At(q, "idle"),
         NEW i \in InstallerType, SameTask(i, ins[q]), i.at = ins[q].at,
         (~i.calm /\ ins[q].calm) \/ ins[q].at \notin {"place", "handler"},
         Become(q, Errored(i)), dir' = dir, boot' = boot
  PROVE  ShownInv'
<1>1. ins'[q] = Errored(i)
  BY ErroredType, BecomeEffect DEF TypeOK
<1>2. /\ Errored(i).had = ins[q].had /\ Errored(i).at = AfterError(i) /\ Errored(i).calm = i.calm
      /\ AfterError(i) = "idle" => Errored(i).result = "failed"
  BY ErroredType, ErroredCalm DEF SameTask
<1>3. Shown(ins[q]) /\ ins[q].at # "idle"
  BY DEF ShownInv, At
<1>4. /\ AfterError(i) \in {"idle", "handler", "cleanup", "copy"}
      /\ i.at = "place" => AfterError(i) = "handler"
      /\ i.at = "handler" => AfterError(i) = "idle"
  BY DEF AfterError
<1>5. Shown(Errored(i))
  BY <1>2, <1>3, <1>4 DEF Shown
<1>6. Shown(ins[q])'
  BY <1>1, <1>5 DEF Shown, Exists
<1> QED
  BY <1>6, ShownStep

LEMMA InstallShown ==
  ASSUME OneInstaller, TypeOK, ShownInv, NEW q \in Procs, Install(q)
  PROVE  ShownInv'
<1>1. ins \in [Procs -> InstallerType] /\ dir \in [Names -> Nat] /\ ins[q] \in InstallerType /\ copies \in Nat
  BY DEF TypeOK
<1>2. ~At(q, "idle") /\ boot = "up" /\ boot' = boot
  BY DEF Install, Check, RemoveOld, CopyBegin, CopyEnd, AskLosetup, SetAside, Place, Restore,
     Cleanup, CopyConfig, SyncDisk, At, TypeOK, machine
<1>3. Shown(ins[q]) /\ ins[q].at # "idle"
  BY <1>2 DEF ShownInv, At
<1>4. {"new", "img", "cur", "old", "cfg"} = Names
  BY DEF Names
<1>5. ASSUME NEW phase \in {"remove_old", "copy", "losetup", "cleanup", "config", "sync"}, Goto(q, phase),
             ins[q].had => Exists("img")', phase = "losetup" => Exists("new")'
      PROVE  ShownInv'
  <2>1. ins'[q].at = phase /\ SameTask(ins'[q], ins[q])
    BY <1>1, <1>5, GotoEffect DEF InstallPhases
  <2> QED
    BY <1>2, <1>5, <2>1, ShownStep DEF Shown, SameTask
<1>6. ASSUME NEW phase \in {"set_aside", "place"}, Goto(q, phase), Exists("new")',
             ins[q].had => Exists("img")' \/ (phase = "place" /\ Exists("cur")')
      PROVE  ShownInv'
  <2>1. ins'[q].at = phase /\ SameTask(ins'[q], ins[q])
    BY <1>1, <1>6, GotoEffect DEF InstallPhases
  <2> QED
    BY <1>2, <1>6, <2>1, ShownStep DEF Shown, SameTask
<1>7. ASSUME NEW result \in {"done", "failed"}, Return(q, result), ins[q].had => Exists("img")'
      PROVE  ShownInv'
  <2>1. ins'[q].at = "idle" /\ SameTask(ins'[q], ins[q])
    BY <1>1, <1>7, ReturnEffect
  <2> QED
    BY <1>2, <1>7, <2>1, ShownStep DEF Shown, SameTask
<1>8. ASSUME Become(q, Errored(ins[q])), dir' = dir, ins[q].at \notin {"place", "handler"} PROVE ShownInv'
  BY <1>1, <1>2, <1>8, ShownError DEF SameTask
<1>9. CASE Check(q)
  BY <1>3, <1>5, <1>7, <1>9 DEF Check, At, Shown, disk, Exists
<1>10. CASE RemoveOld(q)
  <2>1. dir'["img"] = dir["img"]
    BY <1>1, <1>4, <1>10 DEF RemoveOld, Remove, Change
  <2> QED
    BY <1>3, <1>5, <1>10, <2>1 DEF RemoveOld, At, Shown, Exists
<1>11. CASE CopyBegin(q)
  <2>1. CASE /\ copies' = copies + 1 /\ Change([dir EXCEPT !["new"] = copies'])
             /\ Become(q, [ins[q] EXCEPT !.at = "copying", !.file = copies'])
    <3>1. copies' # NoFile
      BY <1>1, <2>1 DEF NoFile
    <3>2. dir'["img"] = dir["img"] /\ dir'["new"] = copies'
      BY <1>1, <1>4, <2>1 DEF Change
    <3>3. ins'[q].at = "copying" /\ ins'[q].had = ins[q].had
      BY <1>1, <2>1 DEF Become, InstallerType
    <3> QED
      BY <1>2, <1>3, <1>11, <3>1, <3>2, <3>3, ShownStep DEF CopyBegin, At, Shown, Exists
  <2>2. CASE Become(q, Errored(ins[q])) /\ dir' = dir
    BY <1>8, <1>11, <2>2 DEF CopyBegin, At
  <2> QED
    BY <1>11, <2>1, <2>2 DEF CopyBegin
<1>12. CASE CopyEnd(q)
  BY <1>3, <1>5, <1>12 DEF CopyEnd, At, Shown, Exists
<1>13. CASE AskLosetup(q)
  BY <1>3, <1>6, <1>13 DEF AskLosetup, At, Shown, Exists, disk
<1>14. CASE SetAside(q)
  <2>1. CASE Exists("img")
    <3>1. dir'["cur"] = dir["img"] /\ dir'["new"] = dir["new"]
      BY <1>1, <1>4, <1>14, <2>1 DEF SetAside, Rename, Change
    <3> QED
      BY <1>3, <1>6, <1>14, <2>1, <3>1 DEF SetAside, At, Shown, Exists
  <2>2. CASE ~Exists("img")
    BY <1>8, <1>14, <2>2 DEF SetAside, At
  <2> QED
    BY <2>1, <2>2
<1>15. CASE Place(q)
  <2>1. Exists("new")
    BY <1>3, <1>15 DEF Place, At, Shown
  <2>2. dir'["img"] = dir["new"]
    BY <1>1, <1>4, <1>15, <2>1 DEF Place, Rename, Change
  <2> QED
    BY <1>5, <1>7, <1>15, <2>1, <2>2 DEF Place, Exists
<1>16. CASE Restore(q)
  <2>1. ins[q].had => Exists("img")'
    <3>1. CASE Exists("cur") /\ (ins[q].kind = "cpp" => ~Exists("img"))
      <4>1. dir'["img"] = dir["cur"]
        BY <1>1, <1>4, <1>16, <3>1 DEF Restore, Rename, Change
      <4> QED
        BY <3>1, <4>1 DEF Exists
    <3>2. CASE ~(Exists("cur") /\ (ins[q].kind = "cpp" => ~Exists("img")))
      BY <1>3, <1>16, <3>2 DEF Restore, At, Shown, Exists
    <3> QED
      BY <3>1, <3>2
  <2> QED
    BY <1>5, <1>7, <1>16, <2>1 DEF Restore
<1>17. CASE Cleanup(q)
  <2>1. dir'["img"] = dir["img"]
    BY <1>1, <1>4, <1>17 DEF Cleanup, Remove, Change
  <2> QED
    BY <1>3, <1>7, <1>17, <2>1 DEF Cleanup, At, Shown, Exists
<1>18. CASE CopyConfig(q)
  <2>1. dir'["img"] = dir["img"]
    BY <1>1, <1>4, <1>18 DEF CopyConfig, Change
  <2>2. ins[q].at = "config"
    BY <1>18 DEF CopyConfig, At
  <2>3. Goto(q, "sync") \/ (Become(q, Errored(ins[q])) /\ dir' = dir)
    BY <1>18 DEF CopyConfig
  <2> QED
    BY <1>3, <1>5, <1>8, <2>1, <2>2, <2>3 DEF Shown, Exists
<1>19. CASE SyncDisk(q)
  BY <1>3, <1>7, <1>19 DEF SyncDisk, At, Shown, Exists
<1> QED
  BY <1>9, <1>10, <1>11, <1>12, <1>13, <1>14, <1>15, <1>16, <1>17, <1>18, <1>19 DEF Install

LEMMA StartShown ==
  ASSUME OneInstaller, TypeOK, NEW q \in Procs, StartSome(q)
  PROVE  ShownInv'
<1>1. PICK kind \in Installers, source \in {"outside", "old"}, good \in BOOLEAN,
           withCfg \in WithConfig : Start(q, kind, source, good, withCfg)
  BY DEF StartSome
<1> DEFINE i == [Idle EXCEPT !.at = "check", !.kind = kind, !.source = source,
                             !.good = good, !.cfg = withCfg, !.had = Exists("img")]
<1>2. i.at = "check" /\ (i.had => Exists("img"))
  BY DEF Idle
<1>3. ins'[q] = i /\ boot' = "up" /\ dir' = dir
  BY <1>1 DEF Start, Become, TypeOK, disk
<1> HIDE DEF i
<1> QED
  BY <1>2, <1>3, ShownStep DEF Shown, Exists

LEMMA MishapShown ==
  ASSUME OneInstaller, TypeOK, ShownInv, NEW q \in Procs, LosetupFails(q) \/ Fail(q) \/ Kill(q)
  PROVE  ShownInv'
<1>1. ins \in [Procs -> InstallerType] /\ ins[q] \in InstallerType
  BY DEF TypeOK
<1>2. ~At(q, "idle") /\ dir' = dir /\ boot' = boot
  BY DEF LosetupFails, Fail, Kill, At, disk, machine
<1>3. Shown(ins[q]) /\ ins[q].at # "idle"
  BY <1>2 DEF ShownInv, At
<1>4. CASE LosetupFails(q)
  <2>1. ins'[q].at = "place" /\ SameTask(ins'[q], ins[q])
    BY <1>1, <1>4, GotoEffect DEF LosetupFails, InstallPhases
  <2> QED
    BY <1>2, <1>3, <1>4, <2>1, ShownStep DEF LosetupFails, At, Shown, SameTask, Exists
<1>5. CASE Fail(q)
  <2> DEFINE i == [ins[q] EXCEPT !.calm = FALSE]
  <2>1. i \in InstallerType /\ i.at = ins[q].at /\ ~i.calm /\ SameTask(i, ins[q])
    BY <1>1 DEF InstallerType, SameTask
  <2>2. Become(q, Errored(i)) /\ ins[q].calm
    BY <1>5 DEF Fail
  <2> HIDE DEF i
  <2> QED
    BY <1>2, <2>1, <2>2, ShownError
<1>6. CASE Kill(q)
  <2>1. ins'[q].at = "idle" /\ ins'[q].result = "killed" /\ SameTask(ins'[q], ins[q])
    BY <1>1, <1>6, ReturnEffect DEF Kill
  <2> QED
    BY <1>2, <1>3, <2>1, ShownStep DEF Shown, SameTask
<1> QED
  BY <1>4, <1>5, <1>6

LEMMA IdleShown ==
  ASSUME \A q \in Procs : ins[q].at = "idle" /\ ~ins[q].had
  PROVE  ShownInv
BY DEF ShownInv, Shown

LEMMA MachineShown ==
  ASSUME TypeOK, ShownInv, Shutdown \/ PowerFailure \/ Boot \/ \E init \in Inits : PowerOn(init)
  PROVE  ShownInv'
<1>1. \A q \in Procs : ins'[q].at = "idle" /\ ~ins'[q].had
  <2>1. CASE Shutdown \/ PowerFailure
    <3>1. \A q \in Procs : ins'[q] = Idle
      BY <2>1 DEF Shutdown, PowerFailure, Stop
    <3> QED
      BY <3>1 DEF Idle
  <2>2. CASE Boot \/ \E init \in Inits : PowerOn(init)
    <3>1. boot # "up" /\ ins' = ins
      BY <2>2 DEF Boot, Preserve, Rotate, Mount, PowerOn
    <3> QED
      BY <3>1 DEF TypeOK, At, ShownInv, Shown
  <2> QED
    BY <2>1, <2>2
<1> QED
  BY <1>1 DEF ShownInv, Shown

LEMMA NextShown == OneInstaller /\ TypeOK /\ ShownInv /\ [Next]_vars => ShownInv'
<1>1. ShownInv /\ UNCHANGED vars => ShownInv'
  BY DEF vars, disk, machine, ShownInv, Shown, Exists
<1> QED
  BY <1>1, StartShown, InstallShown, MishapShown, MachineShown DEF Next

(* Whatever call of it failed, an installer of either kind that returns    *)
(* leaves a system.img where there was one: GRUB finds it at the next boot.*)
THEOREM FailuresKeepSystemImage ==
  ASSUME OneInstaller
  PROVE  Spec => []FailureKeepsSystemImage
<1>1. Init => ShownInv
  BY IdleShown DEF Init, Idle
<1>2. ShownInv => FailureKeepsSystemImage
  BY DEF ShownInv, Shown, FailureKeepsSystemImage, At
<1> QED
  BY <1>1, <1>2, InitType, NextType, NextShown, PTL DEF Spec
=============================================================================
