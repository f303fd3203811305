------------------------- MODULE TarballCacheProofs -------------------------
(***************************************************************************)
(* Proofs about TarballCache, for any number of processes, profiles and    *)
(* work directories, with new versions published at any time.              *)
(***************************************************************************)
EXTENDS TarballCache, TLAPS

(* Part 1: types, and who holds which lock.                                *)
JobsOK ==
  /\ job \in [Procs -> JobType]
  /\ \A q \in Procs : job[q].at \notin PhasesIdle => job[q].prof \in Profiles

LockOK ==
  /\ lock \in [Caches -> Procs \cup {None}]
  /\ \A q \in Procs, c \in Caches : lock[c] = q <=> Holds(job[q]) /\ job[q].on = c

FilesOK ==
  /\ clock \in Nat
  /\ server \in [Caches -> Nat]
  /\ file \in [Caches -> FileType]

TreesOK ==
  /\ tree \in [Workdirs -> TreeType]
  /\ root \in [Profiles -> RootType]

CountsOK == commands \in 0..MaxCommands /\ mishaps \in 0..MaxMishaps

LEMMA TypeParts == TypeOK <=> JobsOK /\ LockOK /\ FilesOK /\ TreesOK /\ CountsOK
BY DEF TypeOK, JobsOK, LockOK, FilesOK, TreesOK, CountsOK

LEMMA PhaseNames ==
  Phases = {"idle", "next", "download", "wget", "wgetting", "compare", "untar", "pull",
            "rsync", "lock", "mark", "use"}
BY DEF Phases, PhasesIdle, PhasesLocked

LEMMA BecomeEffect ==
  ASSUME job \in [Procs -> JobType], NEW q \in Procs, NEW j \in JobType, Become(q, j)
  PROVE  /\ job' \in [Procs -> JobType]
         /\ job'[q] = j
         /\ \A r \in Procs : r # q => job'[r] = job[r]
BY DEF Become

(* A lock is kept, taken, or let go of.                                    *)
LEMMA LockKept ==
  ASSUME LockOK, NEW q \in Procs, \A r \in Procs : r # q => job'[r] = job[r],
         lock' = lock, Holds(job'[q]) <=> Holds(job[q]),
         Holds(job[q]) => job'[q].on = job[q].on
  PROVE  LockOK'
BY DEF LockOK, Holds

LEMMA LockTaken ==
  ASSUME LockOK, NEW q \in Procs, \A r \in Procs : r # q => job'[r] = job[r],
         job[q].on \in Caches, Acquire(q, job[q].on), ~Holds(job[q]),
         Holds(job'[q]), job'[q].on = job[q].on
  PROVE  LockOK'
BY ConstantsAssumption DEF LockOK, Holds, Acquire

LEMMA LockFreed ==
  ASSUME LockOK, NEW q \in Procs, \A r \in Procs : r # q => job'[r] = job[r],
         Holds(job[q]) /\ job[q].on \in Caches, Release(job[q].on), ~Holds(job'[q])
  PROVE  LockOK'
<1>1. \A c \in Caches : lock'[c] = IF lock[c] = q THEN None ELSE lock[c]
  BY DEF LockOK, Release
<1>2. lock' \in [Caches -> Procs \cup {None}]
  BY DEF LockOK, Release
<1>3. ASSUME NEW r \in Procs, NEW c \in Caches
      PROVE  lock'[c] = r <=> Holds(job'[r]) /\ job'[r].on = c
  BY <1>1, ConstantsAssumption DEF LockOK, Holds
<1> QED
  BY <1>2, <1>3 DEF LockOK, Holds

LEMMA LockDropped ==
  ASSUME LockOK, NEW q \in Procs, \A r \in Procs : r # q => job'[r] = job[r],
         LetGo(q), ~Holds(job'[q])
  PROVE  LockOK'
<1>1. \A c \in Caches : lock'[c] = IF lock[c] = q THEN None ELSE lock[c]
  BY DEF LockOK, LetGo
<1>2. lock' \in [Caches -> Procs \cup {None}]
  BY DEF LockOK, LetGo
<1>3. ASSUME NEW r \in Procs, NEW c \in Caches
      PROVE  lock'[c] = r <=> Holds(job'[r]) /\ job'[r].on = c
  BY <1>1, ConstantsAssumption DEF LockOK, Holds
<1> QED
  BY <1>2, <1>3 DEF LockOK, Holds

(* Only one process holds the lock of a cache.                             *)
LEMMA Exclusive ==
  ASSUME LockOK, NEW q \in Procs, NEW r \in Procs, Holds(job[q]), Holds(job[r]),
         job[q].on \in Caches, job[q].on = job[r].on
  PROVE  q = r
BY DEF LockOK

LEMMA RaiseType ==
  ASSUME NEW j \in JobType
  PROVE  /\ Raise(j) \in JobType /\ Raise(j).at \in PhasesIdle
         /\ Raise(j).prof = None /\ Raise(j).todo = j.todo /\ Raise(j).result = "failed"
         /\ Raise(j).calm = j.calm /\ (~j.keep => Raise(j).at = "idle")
<1> DEFINE at == IF j.keep THEN "next" ELSE "idle"
<1>1. at \in Phases /\ at \in PhasesIdle /\ (~j.keep => at = "idle")
  BY DEF Phases, PhasesIdle
<1> HIDE DEF at
<1> DEFINE e == [j EXCEPT !.at = at, !.prof = None, !.result = "failed"]
<1>2. e \in JobType /\ e.at = at /\ e.prof = None /\ e.todo = j.todo /\ e.result = "failed"
      /\ e.calm = j.calm
  BY <1>1 DEF JobType
<1>3. Raise(j) = e
  BY DEF Raise, at
<1> HIDE DEF e
<1> QED
  BY <1>1, <1>2, <1>3

LEMMA IdleType == Idle \in JobType /\ Idle.at = "idle" /\ Idle.calm /\ Idle.result = "none"
BY DEF Idle, JobType, Phases, PhasesIdle, Caches

LEMMA IdleFrees ==
  ASSUME NEW j, j.at \in PhasesIdle
  PROVE  ~Holds(j)
BY DEF Holds, PhasesIdle, PhasesLocked

LEMMA InitType == Init => TypeOK
<1> SUFFICES ASSUME Init PROVE TypeOK
  OBVIOUS
<1>1. JobsOK
  BY IdleType DEF Init, JobsOK, PhasesIdle
<1>2. LockOK
  <2>1. \A q \in Procs : ~Holds(job[q])
    BY IdleType DEF Init, Holds, PhasesLocked
  <2> QED
    BY <2>1, ConstantsAssumption DEF Init, LockOK
<1>3. FilesOK /\ TreesOK /\ CountsOK
  BY ConstantsAssumption DEF Init, FilesOK, TreesOK, CountsOK, FileType, TreeType, RootType,
     NoFile, NoTree, NoRoot
<1> QED
  BY <1>1, <1>2, <1>3, TypeParts
-----------------------------------------------------------------------------
(* What the steps do to the record of the process that takes them.         *)
SameWork(i, j) ==
  /\ i.prof = j.prof /\ i.todo = j.todo /\ i.keep = j.keep /\ i.offer = j.offer
  /\ i.extracted = j.extracted /\ i.pulled = j.pulled /\ i.began = j.began
SameRecord(i, j) == i.fetched = j.fetched /\ i.calm = j.calm /\ i.result = j.result
SameCommand(i, j) == i.keep = j.keep /\ i.pulled = j.pulled /\ i.began = j.began
Others(q) == \A r \in Procs : r # q => job'[r] = job[r]

LEMMA MoveEffect ==
  ASSUME JobsOK, NEW q \in Procs, NEW at \in Phases, NEW on \in Caches,
         Become(q, [job[q] EXCEPT !.at = at, !.on = on])
  PROVE  /\ job' \in [Procs -> JobType] /\ Others(q)
         /\ job'[q].at = at /\ job'[q].on = on
         /\ SameWork(job'[q], job[q]) /\ SameRecord(job'[q], job[q])
<1> DEFINE i == [job[q] EXCEPT !.at = at, !.on = on]
<1>1. job[q] \in JobType
  BY DEF JobsOK
<1>2. /\ i \in JobType /\ i.at = at /\ i.on = on
      /\ SameWork(i, job[q]) /\ SameRecord(i, job[q])
  BY <1>1 DEF JobType, SameWork, SameRecord
<1>3. Become(q, i)
  OBVIOUS
<1> HIDE DEF i
<1> QED
  BY <1>2, <1>3, BecomeEffect DEF JobsOK, Others

LEMMA GotoEffect ==
  ASSUME JobsOK, NEW q \in Procs, NEW at \in Phases, Goto(q, at)
  PROVE  /\ job' \in [Procs -> JobType] /\ Others(q)
         /\ job'[q].at = at /\ job'[q].on = job[q].on
         /\ SameWork(job'[q], job[q]) /\ SameRecord(job'[q], job[q])
<1> DEFINE i == [job[q] EXCEPT !.at = at]
<1>1. job[q] \in JobType
  BY DEF JobsOK
<1>2. /\ i \in JobType /\ i.at = at /\ i.on = job[q].on
      /\ SameWork(i, job[q]) /\ SameRecord(i, job[q])
  BY <1>1 DEF JobType, SameWork, SameRecord
<1>3. Become(q, i)
  BY DEF Goto
<1> HIDE DEF i
<1> QED
  BY <1>2, <1>3, BecomeEffect DEF JobsOK, Others

LEMMA RaiseEffect ==
  ASSUME JobsOK, NEW q \in Procs, Become(q, Raise(job[q]))
  PROVE  /\ job' \in [Procs -> JobType] /\ Others(q)
         /\ job'[q].at \in PhasesIdle /\ job'[q].prof = None /\ job'[q].todo = job[q].todo
         /\ job'[q].result = "failed" /\ job'[q].calm = job[q].calm
         /\ ~job[q].keep => job'[q].at = "idle"
BY RaiseType, BecomeEffect DEF JobsOK, Others

LEMMA StartEffect ==
  ASSUME JobsOK, FilesOK, NEW q \in Procs, Start(q)
  PROVE  /\ job' \in [Procs -> JobType] /\ Others(q)
         /\ job'[q].at = "next" /\ job'[q].prof = None /\ job'[q].todo \subseteq Jobs[q]
         /\ job'[q].fetched = {} /\ ~job'[q].extracted /\ job'[q].result = "none"
         /\ job'[q].began = server /\ job'[q].keep \in Keep /\ ~job'[q].pulled
<1>1. PICK P \in SUBSET Jobs[q] \ {{}}, keep \in Keep :
        Become(q, [Idle EXCEPT !.at = "next", !.todo = P, !.keep = keep, !.began = server])
  BY DEF Start
<1> DEFINE i == [Idle EXCEPT !.at = "next", !.todo = P, !.keep = keep, !.began = server]
<1>2. P \in SUBSET Profiles /\ P \subseteq Jobs[q] /\ keep \in BOOLEAN
  BY ConstantsAssumption
<1>3. /\ i \in JobType /\ i.at = "next" /\ i.prof = None /\ i.todo = P
      /\ i.fetched = {} /\ ~i.extracted /\ i.result = "none"
      /\ i.began = server /\ i.keep = keep /\ ~i.pulled
  BY <1>2, PhaseNames DEF Idle, JobType, FilesOK, Caches
<1>4. Become(q, i)
  BY <1>1
<1> HIDE DEF i
<1> QED
  BY <1>2, <1>3, <1>4, BecomeEffect DEF JobsOK, Others

LEMMA NextProfileEffect ==
  ASSUME JobsOK, NEW q \in Procs, NextProfile(q)
  PROVE  /\ job' \in [Procs -> JobType] /\ Others(q)
         /\ job'[q].at = "lock" /\ job'[q].prof \in job[q].todo
         /\ job'[q].todo \subseteq job[q].todo
         /\ job'[q].on = IF job[q].extracted THEN "stage3" ELSE "portage"
         /\ job'[q].extracted /\ SameRecord(job'[q], job[q]) /\ SameCommand(job'[q], job[q])
<1>1. PICK p \in job[q].todo :
        Become(q, [job[q] EXCEPT !.at = "lock", !.prof = p, !.todo = @ \ {p}, !.extracted = TRUE,
                                 !.on = IF job[q].extracted THEN "stage3" ELSE "portage"])
  BY DEF NextProfile
<1> DEFINE on == IF job[q].extracted THEN "stage3" ELSE "portage"
           i == [job[q] EXCEPT !.at = "lock", !.prof = p, !.todo = @ \ {p}, !.extracted = TRUE,
                               !.on = on]
<1>2. job[q] \in JobType /\ p \in Profiles /\ on \in Caches
  BY DEF JobsOK, JobType, Caches
<1>3. Become(q, i)
  BY <1>1
<1>4. on = IF job[q].extracted THEN "stage3" ELSE "portage"
  OBVIOUS
<1> HIDE DEF on
<1>5. /\ i \in JobType /\ i.at = "lock" /\ i.prof = p /\ i.todo \subseteq job[q].todo
      /\ i.on = on /\ i.extracted /\ SameRecord(i, job[q]) /\ SameCommand(i, job[q])
  BY <1>2, PhaseNames DEF JobType, SameRecord, SameCommand
<1> HIDE DEF i
<1> QED
  BY <1>3, <1>4, <1>5, BecomeEffect DEF JobsOK, Others

LEMMA LockEffect ==
  ASSUME JobsOK, FilesOK, NEW q \in Procs, Lock(q)
  PROVE  /\ job' \in [Procs -> JobType] /\ Others(q)
         /\ job'[q].at = IF job[q].on = "overlay" THEN "pull" ELSE "download"
         /\ job'[q].on = job[q].on /\ job'[q].prof = job[q].prof /\ job'[q].todo = job[q].todo
         /\ job'[q].offer = server[job[q].on] /\ job'[q].extracted = job[q].extracted
         /\ SameRecord(job'[q], job[q]) /\ SameCommand(job'[q], job[q])
<1> DEFINE at == IF job[q].on = "overlay" THEN "pull" ELSE "download"
           i == [job[q] EXCEPT !.at = at, !.offer = server[job[q].on]]
<1>1. job[q] \in JobType /\ at \in Phases /\ server[job[q].on] \in Nat
  BY PhaseNames DEF JobsOK, JobType, FilesOK
<1>2. Become(q, i)
  BY DEF Lock
<1>3. at = IF job[q].on = "overlay" THEN "pull" ELSE "download"
  OBVIOUS
<1> HIDE DEF at
<1>4. /\ i \in JobType /\ i.at = at /\ i.on = job[q].on /\ i.prof = job[q].prof
      /\ i.todo = job[q].todo /\ i.offer = server[job[q].on]
      /\ i.extracted = job[q].extracted /\ SameRecord(i, job[q]) /\ SameCommand(i, job[q])
  BY <1>1 DEF JobType, SameRecord, SameCommand
<1> HIDE DEF i
<1> QED
  BY <1>2, <1>3, <1>4, BecomeEffect DEF JobsOK, Others

(* asked: fetched or not, the URL is remembered.                           *)
LEMMA AskServerEffect ==
  ASSUME JobsOK, NEW q \in Procs, AskServer(q)
  PROVE  /\ job' \in [Procs -> JobType] /\ Others(q)
         /\ job'[q].on = job[q].on /\ SameWork(job'[q], job[q])
         /\ job'[q].result = job[q].result
         /\ job'[q].fetched \subseteq job[q].fetched \cup {Url(job[q])}
         /\ \/ job'[q].at = "wget" /\ Outdated(job[q]) /\ job'[q].calm = job[q].calm
            \/ job'[q].at = "compare" /\ ~Outdated(job[q]) /\ job'[q].calm = job[q].calm
            \/ job'[q].at = "compare" /\ Url(job[q]) \in job[q].fetched
                 /\ job'[q].calm = job[q].calm
            \/ job'[q].at = "compare" /\ ~job'[q].calm /\ HeadMayFail
<1> DEFINE asked == [job[q] EXCEPT !.fetched = @ \cup {Url(job[q])}]
<1>1. job[q] \in JobType /\ Url(job[q]) \in Caches \X Nat
  BY DEF JobsOK, JobType, Url
<1>2. asked \in JobType /\ asked.on = job[q].on /\ SameWork(asked, job[q])
      /\ asked.result = job[q].result /\ asked.calm = job[q].calm
      /\ asked.fetched = job[q].fetched \cup {Url(job[q])}
  BY <1>1 DEF JobType, SameWork
<1>3. \/ /\ Url(job[q]) \in job[q].fetched
         /\ Become(q, [asked EXCEPT !.at = "compare", !.calm = job[q].calm])
      \/ Outdated(job[q]) /\ Become(q, [asked EXCEPT !.at = "wget"])
      \/ ~Outdated(job[q]) /\ Become(q, [asked EXCEPT !.at = "compare", !.calm = job[q].calm])
      \/ HeadMayFail /\ Become(q, [asked EXCEPT !.at = "compare", !.calm = FALSE])
  BY DEF AskServer
<1> HIDE DEF asked
<1>4. ASSUME NEW calm \in BOOLEAN, Become(q, [asked EXCEPT !.at = "compare", !.calm = calm])
      PROVE  /\ job' \in [Procs -> JobType] /\ Others(q)
             /\ job'[q].on = job[q].on /\ SameWork(job'[q], job[q])
             /\ job'[q].result = job[q].result
             /\ job'[q].fetched = job[q].fetched \cup {Url(job[q])}
             /\ job'[q].at = "compare" /\ job'[q].calm = calm
  <2> DEFINE i == [asked EXCEPT !.at = "compare", !.calm = calm]
  <2>1. /\ i \in JobType /\ i.on = asked.on /\ SameWork(i, asked) /\ i.result = asked.result
        /\ i.fetched = asked.fetched /\ i.at = "compare" /\ i.calm = calm
    BY <1>2, PhaseNames DEF JobType, SameWork
  <2>2. Become(q, i)
    BY <1>4
  <2> HIDE DEF i
  <2> QED
    BY <1>2, <2>1, <2>2, BecomeEffect DEF JobsOK, Others, SameWork
<1>5. ASSUME Become(q, [asked EXCEPT !.at = "wget"])
      PROVE  /\ job' \in [Procs -> JobType] /\ Others(q)
             /\ job'[q].on = job[q].on /\ SameWork(job'[q], job[q])
             /\ job'[q].result = job[q].result
             /\ job'[q].fetched = job[q].fetched \cup {Url(job[q])}
             /\ job'[q].at = "wget" /\ job'[q].calm = job[q].calm
  <2> DEFINE i == [asked EXCEPT !.at = "wget"]
  <2>1. /\ i \in JobType /\ i.on = asked.on /\ SameWork(i, asked) /\ i.result = asked.result
        /\ i.fetched = asked.fetched /\ i.at = "wget" /\ i.calm = asked.calm
    BY <1>2, PhaseNames DEF JobType, SameWork
  <2>2. Become(q, i)
    BY <1>5
  <2> HIDE DEF i
  <2> QED
    BY <1>2, <2>1, <2>2, BecomeEffect DEF JobsOK, Others, SameWork
<1>6. job[q].calm \in BOOLEAN
  BY <1>1 DEF JobType
<1> QED
  BY <1>3, <1>4, <1>5, <1>6

LEMMA PullEffect ==
  ASSUME JobsOK, NEW q \in Procs, Pull(q)
  PROVE  /\ job' \in [Procs -> JobType] /\ Others(q)
         /\ job'[q].at = "rsync" /\ job'[q].on = job[q].on
         /\ job'[q].prof = job[q].prof /\ job'[q].todo = job[q].todo
         /\ job'[q].fetched = job[q].fetched /\ job'[q].extracted = job[q].extracted
         /\ job'[q].result = job[q].result /\ job'[q].pulled
         /\ job'[q].keep = job[q].keep /\ job'[q].began = job[q].began
         /\ \/ /\ job'[q].calm = job[q].calm
               /\ file' = [file EXCEPT !["overlay"] =
                             [ver |-> server["overlay"], whole |-> TRUE, mtime |-> server["overlay"]]]
            \/ ~job'[q].calm /\ file["overlay"].whole /\ file' = file
            \/ job'[q].calm = job[q].calm /\ job[q].pulled /\ file' = file
<1> DEFINE Pulled(calm) ==
      \/ /\ calm = job[q].calm
         /\ file' = [file EXCEPT !["overlay"] =
                       [ver |-> server["overlay"], whole |-> TRUE, mtime |-> server["overlay"]]]
      \/ ~calm /\ file["overlay"].whole /\ file' = file
      \/ calm = job[q].calm /\ job[q].pulled /\ file' = file
<1>1. job[q] \in JobType
  BY DEF JobsOK
<1>2. PICK calm \in {job[q].calm, FALSE} :
        Become(q, [job[q] EXCEPT !.at = "rsync", !.pulled = TRUE, !.calm = calm]) /\ Pulled(calm)
  <2>1. /\ [job[q] EXCEPT !.at = "rsync", !.pulled = TRUE]
              = [job[q] EXCEPT !.at = "rsync", !.pulled = TRUE, !.calm = job[q].calm]
        /\ job[q].pulled => [job[q] EXCEPT !.at = "rsync"]
              = [job[q] EXCEPT !.at = "rsync", !.pulled = TRUE, !.calm = job[q].calm]
    BY <1>1 DEF JobType
  <2>2. CASE ~job[q].pulled /\ file' # file
    BY <2>1, <2>2 DEF Pull
  <2>3. CASE job[q].pulled
    BY <2>1, <2>3 DEF Pull, Goto
  <2>4. CASE ~job[q].pulled /\ file' = file
    BY <2>1, <2>4 DEF Pull
  <2> QED
    BY <2>2, <2>3, <2>4
<1> HIDE DEF Pulled
<1> DEFINE i == [job[q] EXCEPT !.at = "rsync", !.pulled = TRUE, !.calm = calm]
<1>3. calm \in BOOLEAN
  BY <1>1 DEF JobType
<1>4. /\ i \in JobType /\ i.at = "rsync" /\ i.on = job[q].on /\ i.prof = job[q].prof
      /\ i.todo = job[q].todo /\ i.fetched = job[q].fetched /\ i.extracted = job[q].extracted
      /\ i.result = job[q].result /\ i.calm = calm /\ i.pulled
      /\ i.keep = job[q].keep /\ i.began = job[q].began
  BY <1>1, <1>3, PhaseNames DEF JobType
<1>5. Become(q, i) /\ Pulled(calm)
  BY <1>2
<1> HIDE DEF i
<1>6. job' \in [Procs -> JobType] /\ Others(q) /\ job'[q] = i
  BY <1>4, <1>5, BecomeEffect DEF JobsOK, Others
<1> QED
  BY <1>4, <1>5, <1>6 DEF Pulled

LEMMA UseEffect ==
  ASSUME JobsOK, NEW q \in Procs, Use(q)
  PROVE  /\ job' \in [Procs -> JobType] /\ Others(q)
         /\ job'[q].at = "next" /\ job'[q].prof = None /\ job'[q].todo = job[q].todo
         /\ job'[q].extracted = job[q].extracted
         /\ SameRecord(job'[q], job[q]) /\ SameCommand(job'[q], job[q])
<1> DEFINE i == [job[q] EXCEPT !.at = "next", !.prof = None]
<1>1. job[q] \in JobType
  BY DEF JobsOK
<1>2. /\ i \in JobType /\ i.at = "next" /\ i.prof = None /\ i.todo = job[q].todo
      /\ i.extracted = job[q].extracted /\ SameRecord(i, job[q]) /\ SameCommand(i, job[q])
  BY <1>1, PhaseNames DEF JobType, SameRecord, SameCommand
<1>3. Become(q, i)
  BY DEF Use
<1> HIDE DEF i
<1> QED
  BY <1>2, <1>3, BecomeEffect DEF JobsOK, Others

LEMMA EndEffect ==
  ASSUME JobsOK, NEW q \in Procs, End(q)
  PROVE  /\ job' \in [Procs -> JobType] /\ Others(q)
         /\ job'[q].at = "idle" /\ job'[q].prof = job[q].prof /\ job'[q].todo = job[q].todo
         /\ job'[q].fetched = job[q].fetched /\ job'[q].extracted = job[q].extracted
         /\ job'[q].calm = job[q].calm /\ job'[q].result \in {job[q].result, "done"}
<1>1. PICK result \in {job[q].result, "done"} :
        Become(q, [job[q] EXCEPT !.at = "idle", !.result = result])
  BY DEF End
<1> DEFINE i == [job[q] EXCEPT !.at = "idle", !.result = result]
<1>2. job[q] \in JobType
  BY DEF JobsOK
<1>3. result \in {"none", "done", "failed", "killed"}
  BY <1>2 DEF JobType
<1>4. /\ i \in JobType /\ i.at = "idle" /\ i.prof = job[q].prof /\ i.todo = job[q].todo
      /\ i.fetched = job[q].fetched /\ i.extracted = job[q].extracted
      /\ i.calm = job[q].calm /\ i.result = result
  BY <1>2, <1>3, PhaseNames DEF JobType
<1>5. Become(q, i)
  BY <1>1
<1> HIDE DEF i
<1> QED
  BY <1>4, <1>5, BecomeEffect DEF JobsOK, Others

LEMMA FailEffect ==
  ASSUME JobsOK, NEW q \in Procs, Fail(q)
  PROVE  /\ job' \in [Procs -> JobType] /\ Others(q)
         /\ job'[q].at \in PhasesIdle /\ job'[q].prof = None /\ ~job'[q].calm
         /\ job'[q].todo \subseteq job[q].todo /\ (~job[q].keep => job'[q].at = "idle")
<1>1. job[q] \in JobType
  BY DEF JobsOK
<1> DEFINE e == Raise(job[q])
           i == [e EXCEPT !.calm = FALSE]
           k == [Idle EXCEPT !.result = "killed", !.calm = FALSE]
<1>2. /\ e \in JobType /\ e.at \in PhasesIdle /\ e.prof = None /\ e.todo = job[q].todo
      /\ ~job[q].keep => e.at = "idle"
  BY <1>1, RaiseType
<1>3. Become(q, i) \/ Become(q, k)
  BY DEF Fail
<1> HIDE DEF e
<1>4. /\ i \in JobType /\ i.at \in PhasesIdle /\ i.prof = None /\ ~i.calm /\ i.todo = job[q].todo
      /\ ~job[q].keep => i.at = "idle"
  BY <1>2 DEF JobType
<1>5. k \in JobType /\ k.at \in PhasesIdle /\ k.at = "idle" /\ k.prof = None /\ ~k.calm /\ k.todo = {}
  BY PhaseNames DEF Idle, JobType, PhasesIdle, Caches
<1> HIDE DEF i, k
<1> QED
  BY <1>3, <1>4, <1>5, BecomeEffect DEF JobsOK, Others
-----------------------------------------------------------------------------
(* Types step by step.  A step of one process keeps JobsOK if the process  *)
(* has a profile wherever it needs one.                                    *)
LEMMA JobsStep ==
  ASSUME JobsOK, NEW q \in Procs, job' \in [Procs -> JobType], Others(q),
         job'[q].at \notin PhasesIdle => job'[q].prof \in Profiles
  PROVE  JobsOK'
BY DEF JobsOK, Others

LEMMA OutsideType ==
  ASSUME TypeOK, NEW q \in Procs, Start(q) \/ NextProfile(q) \/ Use(q) \/ End(q) \/ Fail(q)
  PROVE  TypeOK'
<1>1. JobsOK /\ LockOK /\ FilesOK /\ TreesOK /\ CountsOK
  BY TypeParts
<1>2. FilesOK' /\ TreesOK'
  BY <1>1 DEF Start, NextProfile, Use, End, Fail, FilesOK, TreesOK, trees
<1>3. CountsOK'
  <2>1. commands' \in {commands, commands + 1} /\ (commands' # commands => commands < MaxCommands)
    BY DEF Start, NextProfile, Use, End, Fail
  <2>2. mishaps' \in {mishaps, mishaps + 1} /\ (mishaps' # mishaps => mishaps < MaxMishaps)
    BY DEF Start, NextProfile, Use, End, Fail
  <2> QED
    BY <1>1, <2>1, <2>2, ConstantsAssumption DEF CountsOK
<1>4. CASE Start(q)
  <2>1. lock' = lock /\ ~Holds(job[q])
    BY <1>4 DEF Start, At, Holds, PhasesLocked
  <2>2. job'[q].at = "next" /\ Others(q) /\ job' \in [Procs -> JobType]
    BY <1>1, <1>4, StartEffect
  <2>3. JobsOK' /\ LockOK'
    BY <1>1, <2>1, <2>2, JobsStep, LockKept, IdleFrees DEF PhasesIdle, Others
  <2> QED
    BY <1>2, <1>3, <2>3, TypeParts DEF TypeOK, JobsOK, LockOK, FilesOK, TreesOK, CountsOK
<1>5. CASE NextProfile(q)
  <2>1. lock' = lock /\ ~Holds(job[q])
    BY <1>5 DEF NextProfile, At, Holds, PhasesLocked
  <2>2. job'[q].at = "lock" /\ Others(q) /\ job' \in [Procs -> JobType] /\ job'[q].prof \in Profiles
    BY <1>1, <1>5, NextProfileEffect DEF JobsOK, JobType
  <2>3. JobsOK' /\ LockOK'
    BY <1>1, <2>1, <2>2, JobsStep, LockKept DEF Holds, PhasesLocked, Others
  <2> QED
    BY <1>2, <1>3, <2>3 DEF TypeOK, JobsOK, LockOK, FilesOK, TreesOK, CountsOK
<1>6. CASE Use(q)
  <2>1. lock' = lock /\ ~Holds(job[q])
    BY <1>6 DEF Use, At, Holds, PhasesLocked
  <2>2. job'[q].at = "next" /\ Others(q) /\ job' \in [Procs -> JobType]
    BY <1>1, <1>6, UseEffect
  <2>3. JobsOK' /\ LockOK'
    BY <1>1, <2>1, <2>2, JobsStep, LockKept, IdleFrees DEF PhasesIdle, Others
  <2> QED
    BY <1>2, <1>3, <2>3 DEF TypeOK, JobsOK, LockOK, FilesOK, TreesOK, CountsOK
<1>7. CASE End(q)
  <2>1. lock' = lock /\ ~Holds(job[q])
    BY <1>7 DEF End, At, Holds, PhasesLocked
  <2>2. job'[q].at = "idle" /\ Others(q) /\ job' \in [Procs -> JobType]
    BY <1>1, <1>7, EndEffect
  <2>3. JobsOK' /\ LockOK'
    BY <1>1, <2>1, <2>2, JobsStep, LockKept, IdleFrees DEF PhasesIdle, Others
  <2> QED
    BY <1>2, <1>3, <2>3 DEF TypeOK, JobsOK, LockOK, FilesOK, TreesOK, CountsOK
<1>8. CASE Fail(q)
  <2>1. job'[q].at \in PhasesIdle /\ Others(q) /\ job' \in [Procs -> JobType] /\ LetGo(q)
    BY <1>1, <1>8, FailEffect DEF Fail
  <2>2. JobsOK' /\ LockOK'
    BY <1>1, <2>1, JobsStep, LockDropped, IdleFrees DEF Others
  <2> QED
    BY <1>2, <1>3, <2>2 DEF TypeOK, JobsOK, LockOK, FilesOK, TreesOK, CountsOK
<1> QED
  BY <1>4, <1>5, <1>6, <1>7, <1>8

LEMMA InsideType ==
  ASSUME TypeOK, NEW q \in Procs,
         \/ Lock(q) \/ AskServer(q) \/ WgetBegin(q) \/ WgetEnd(q)
         \/ KeepTree(q) \/ TrashTree(q) \/ UntarTree(q) \/ MarkTree(q)
         \/ KeepRoot(q) \/ TrashRoot(q) \/ UntarRoot(q) \/ MarkRoot(q)
         \/ Pull(q) \/ Rsync(q)
  PROVE  TypeOK'
<1>1. JobsOK /\ LockOK /\ FilesOK /\ TreesOK /\ CountsOK
  BY TypeParts
<1>2. /\ job[q] \in JobType /\ job[q].on \in Caches /\ job[q].prof \in Profiles
      /\ Workdir(q) \in Workdirs
  <2>1. job[q] \in JobType /\ job[q].on \in Caches
    BY <1>1 DEF JobsOK, JobType
  <2>2. job[q].at \notin PhasesIdle
    BY DEF Lock, AskServer, WgetBegin, WgetEnd, KeepTree, TrashTree, UntarTree, MarkTree,
       KeepRoot, TrashRoot, UntarRoot, MarkRoot, Pull, Rsync, At, On, PhasesIdle
  <2> QED
    BY <1>1, <2>1, <2>2, ConstantsAssumption DEF JobsOK, Workdir
<1>3. {"portage", "stage3", "overlay"} = Caches
  BY DEF Caches
<1>4. CountsOK'
  <2>1. commands' = commands
    BY DEF Lock, AskServer, WgetBegin, WgetEnd, KeepTree, TrashTree, UntarTree, MarkTree,
       KeepRoot, TrashRoot, UntarRoot, MarkRoot, Pull, Rsync
  <2>2. mishaps' \in {mishaps, mishaps + 1} /\ (mishaps' # mishaps => mishaps < MaxMishaps)
    BY DEF Lock, AskServer, WgetBegin, WgetEnd, KeepTree, TrashTree, UntarTree, MarkTree,
       KeepRoot, TrashRoot, UntarRoot, MarkRoot, Pull, Rsync
  <2> QED
    BY <1>1, <2>1, <2>2, ConstantsAssumption DEF CountsOK
<1>5. FilesOK'
  <2>1. clock' \in Nat /\ server' = server
    BY <1>1 DEF Lock, AskServer, WgetBegin, WgetEnd, KeepTree, TrashTree, UntarTree, MarkTree,
       KeepRoot, TrashRoot, UntarRoot, MarkRoot, Pull, Rsync, FilesOK, Stamp
  <2>2. file' \in [Caches -> FileType]
    <3>1. CASE WgetBegin(q)
      <4>1. Served(job[q]) \in Nat
        BY <1>1, <1>2 DEF Served, FilesOK, JobType
      <4>2. [ver |-> Served(job[q]), whole |-> FALSE, mtime |-> clock'] \in FileType
        BY <2>1, <4>1 DEF FileType
      <4> QED
        BY <1>1, <3>1, <4>2 DEF WgetBegin, FilesOK
    <3>2. CASE WgetEnd(q)
      <4>1. file[job[q].on].ver \in Nat
        BY <1>1, <1>2 DEF FilesOK, FileType
      <4>2. [ver |-> file[job[q].on].ver, whole |-> TRUE, mtime |-> file[job[q].on].ver] \in FileType
        BY <4>1 DEF FileType
      <4> QED
        BY <1>1, <3>2, <4>2 DEF WgetEnd, FilesOK
    <3>3. CASE Pull(q)
      <4>1. server["overlay"] \in Nat
        BY <1>1, <1>3 DEF FilesOK
      <4>2. [ver |-> server["overlay"], whole |-> TRUE, mtime |-> server["overlay"]] \in FileType
        BY <4>1 DEF FileType
      <4> QED
        BY <1>1, <3>3, <4>2 DEF Pull, FilesOK
    <3>4. CASE ~WgetBegin(q) /\ ~WgetEnd(q) /\ ~Pull(q)
      <4>1. file' = file
        BY <3>4 DEF Lock, AskServer, KeepTree, TrashTree, UntarTree, MarkTree,
           KeepRoot, TrashRoot, UntarRoot, MarkRoot, Rsync
      <4> QED
        BY <1>1, <4>1 DEF FilesOK
    <3> QED
      BY <3>1, <3>2, <3>3, <3>4
  <2> QED
    BY <2>1, <2>2, <1>1 DEF FilesOK
<1>6. TreesOK'
  <2>1. /\ file["portage"].ver \in Nat /\ file["portage"].mtime \in Nat
        /\ file["stage3"].ver \in Nat /\ file["overlay"].ver \in Nat /\ clock + 1 \in Nat
    BY <1>1, <1>3 DEF FilesOK, FileType
  <2>2. tree[Workdir(q)] \in TreeType /\ root[job[q].prof] \in RootType
    BY <1>1, <1>2 DEF TreesOK
  <2>3. tree' \in [Workdirs -> TreeType]
    <3>1. CASE TrashTree(q)
      <4>1. [NoTree EXCEPT !.ver = file["portage"].ver] \in TreeType
        BY <2>1 DEF NoTree, TreeType
      <4> QED
        BY <1>1, <3>1, <4>1 DEF TrashTree, TreesOK
    <3>2. CASE UntarTree(q)
      <4>1. [tree[Workdir(q)] EXCEPT !.whole = TRUE] \in TreeType
        BY <2>2 DEF TreeType
      <4> QED
        BY <1>1, <3>2, <4>1 DEF UntarTree, TreesOK
    <3>3. CASE MarkTree(q)
      <4>1. [tree[Workdir(q)] EXCEPT !.done = file["portage"].mtime] \in TreeType
        BY <2>1, <2>2 DEF TreeType
      <4> QED
        BY <1>1, <3>3, <4>1 DEF MarkTree, TreesOK
    <3>4. CASE ~TrashTree(q) /\ ~UntarTree(q) /\ ~MarkTree(q)
      <4>1. tree' = tree
        BY <3>4 DEF Lock, AskServer, WgetBegin, WgetEnd, KeepTree, KeepRoot, TrashRoot, UntarRoot,
           MarkRoot, Pull, Rsync, trees
      <4> QED
        BY <1>1, <4>1 DEF TreesOK
    <3> QED
      BY <3>1, <3>2, <3>3, <3>4
  <2>4. root' \in [Profiles -> RootType]
    <3>1. CASE TrashRoot(q)
      <4>1. [NoRoot EXCEPT !.ver = file["stage3"].ver] \in RootType
        BY <2>1 DEF NoRoot, RootType
      <4> QED
        BY <1>1, <3>1, <4>1 DEF TrashRoot, TreesOK
    <3>2. CASE UntarRoot(q)
      <4>1. [root[job[q].prof] EXCEPT !.whole = TRUE] \in RootType
        BY <2>2 DEF RootType
      <4> QED
        BY <1>1, <3>2, <4>1 DEF UntarRoot, TreesOK
    <3>3. CASE MarkRoot(q)
      <4>1. [root[job[q].prof] EXCEPT !.done = clock + 1] \in RootType
        BY <2>1, <2>2 DEF RootType
      <4> QED
        BY <1>1, <3>3, <4>1 DEF MarkRoot, TreesOK, Stamp
    <3>4. CASE Rsync(q)
      <4>1. [root[job[q].prof] EXCEPT !.overlay = file["overlay"].ver] \in RootType
        BY <2>1, <2>2 DEF RootType
      <4> QED
        BY <1>1, <3>4, <4>1 DEF Rsync, TreesOK
    <3>5. CASE ~TrashRoot(q) /\ ~UntarRoot(q) /\ ~MarkRoot(q) /\ ~Rsync(q)
      <4>1. root' = root
        BY <3>5 DEF Lock, AskServer, WgetBegin, WgetEnd, KeepTree, TrashTree, UntarTree, MarkTree,
           KeepRoot, Pull, trees
      <4> QED
        BY <1>1, <4>1 DEF TreesOK
    <3> QED
      BY <3>1, <3>2, <3>3, <3>4, <3>5
  <2> QED
    BY <2>3, <2>4 DEF TreesOK
<1>7. SUFFICES JobsOK' /\ LockOK'
  BY <1>4, <1>5, <1>6 DEF TypeOK, JobsOK, LockOK, FilesOK, TreesOK, CountsOK
<1> USE DEF Others
<1>8. CASE Lock(q)
  <2>1. /\ job' \in [Procs -> JobType] /\ Others(q) /\ job'[q].at \in {"pull", "download"}
        /\ job'[q].prof = job[q].prof /\ job'[q].on = job[q].on
    BY <1>1, <1>8, LockEffect
  <2>2. ~Holds(job[q]) /\ Holds(job'[q]) /\ Acquire(q, job[q].on)
    BY <1>8, <2>1 DEF Lock, At, Holds, PhasesLocked
  <2> QED
    BY <1>1, <1>2, <2>1, <2>2, JobsStep, LockTaken
<1>9. CASE AskServer(q)
  <2>1. /\ job' \in [Procs -> JobType] /\ Others(q) /\ job'[q].at \in {"wget", "compare"}
        /\ job'[q].prof = job[q].prof /\ job'[q].on = job[q].on
    BY <1>1, <1>9, AskServerEffect DEF SameWork
  <2>2. Holds(job[q]) /\ Holds(job'[q]) /\ lock' = lock
    BY <1>9, <2>1 DEF AskServer, At, Holds, PhasesLocked
  <2> QED
    BY <1>1, <1>2, <2>1, <2>2, JobsStep, LockKept
<1>10. CASE WgetBegin(q)
  <2>1. /\ job' \in [Procs -> JobType] /\ Others(q) /\ job'[q].at = "wgetting"
        /\ job'[q].prof = job[q].prof /\ job'[q].on = job[q].on
    BY <1>1, <1>10, GotoEffect, PhaseNames DEF WgetBegin, SameWork
  <2>2. Holds(job[q]) /\ Holds(job'[q]) /\ lock' = lock
    BY <1>10, <2>1 DEF WgetBegin, At, Holds, PhasesLocked
  <2> QED
    BY <1>1, <1>2, <2>1, <2>2, JobsStep, LockKept
<1>11. CASE WgetEnd(q)
  <2>1. /\ job' \in [Procs -> JobType] /\ Others(q) /\ job'[q].at = "compare"
        /\ job'[q].prof = job[q].prof /\ job'[q].on = job[q].on
    BY <1>1, <1>11, GotoEffect, PhaseNames DEF WgetEnd, SameWork
  <2>2. Holds(job[q]) /\ Holds(job'[q]) /\ lock' = lock
    BY <1>11, <2>1 DEF WgetEnd, At, Holds, PhasesLocked
  <2> QED
    BY <1>1, <1>2, <2>1, <2>2, JobsStep, LockKept
<1>12. CASE KeepTree(q) \/ MarkTree(q)
  <2>1. /\ job' \in [Procs -> JobType] /\ Others(q) /\ job'[q].at = "lock"
        /\ job'[q].prof = job[q].prof
    BY <1>1, <1>3, <1>12, MoveEffect, PhaseNames DEF KeepTree, MarkTree, SameWork
  <2>2. Holds(job[q]) /\ ~Holds(job'[q]) /\ Release(job[q].on)
    BY <1>12, <2>1 DEF KeepTree, MarkTree, On, At, Holds, PhasesLocked
  <2> QED
    BY <1>1, <1>2, <2>1, <2>2, JobsStep, LockFreed
<1>13. CASE TrashTree(q)
  <2>1. /\ job' \in [Procs -> JobType] /\ Others(q) /\ job'[q].at = "untar"
        /\ job'[q].prof = job[q].prof /\ job'[q].on = job[q].on
    BY <1>1, <1>13, GotoEffect, PhaseNames DEF TrashTree, SameWork
  <2>2. Holds(job[q]) /\ Holds(job'[q]) /\ lock' = lock
    BY <1>13, <2>1 DEF TrashTree, On, At, Holds, PhasesLocked
  <2> QED
    BY <1>1, <1>2, <2>1, <2>2, JobsStep, LockKept
<1>14. ASSUME LetGo(q), Become(q, Raise(job[q])) PROVE JobsOK' /\ LockOK'
  <2>1. job' \in [Procs -> JobType] /\ Others(q) /\ job'[q].at \in PhasesIdle
    BY <1>1, <1>14, RaiseEffect
  <2>2. ~Holds(job'[q])
    BY <2>1 DEF Holds, PhasesIdle, PhasesLocked
  <2> QED
    BY <1>1, <1>14, <2>1, <2>2, JobsStep, LockDropped
<1>15. CASE UntarTree(q)
  <2>1. CASE Goto(q, "mark") /\ UNCHANGED lock
    <3>1. /\ job' \in [Procs -> JobType] /\ Others(q) /\ job'[q].at = "mark"
          /\ job'[q].prof = job[q].prof /\ job'[q].on = job[q].on
      BY <1>1, <2>1, GotoEffect, PhaseNames DEF SameWork
    <3>2. Holds(job[q]) /\ Holds(job'[q])
      BY <1>15, <3>1 DEF UntarTree, On, At, Holds, PhasesLocked
    <3> QED
      BY <1>1, <1>2, <2>1, <3>1, <3>2, JobsStep, LockKept
  <2> QED
    BY <1>14, <1>15, <2>1 DEF UntarTree
<1>16. CASE KeepRoot(q)
  <2>1. /\ job' \in [Procs -> JobType] /\ Others(q) /\ job'[q].at = "lock"
        /\ job'[q].prof = job[q].prof
    BY <1>1, <1>3, <1>16, MoveEffect, PhaseNames DEF KeepRoot, SameWork
  <2>2. Holds(job[q]) /\ ~Holds(job'[q]) /\ Release(job[q].on)
    BY <1>16, <2>1 DEF KeepRoot, On, At, Holds, PhasesLocked
  <2> QED
    BY <1>1, <1>2, <2>1, <2>2, JobsStep, LockFreed
<1>17. CASE TrashRoot(q)
  <2>1. /\ job' \in [Procs -> JobType] /\ Others(q) /\ job'[q].at = "untar"
        /\ job'[q].prof = job[q].prof /\ job'[q].on = job[q].on
    BY <1>1, <1>17, GotoEffect, PhaseNames DEF TrashRoot, SameWork
  <2>2. Holds(job[q]) /\ Holds(job'[q]) /\ lock' = lock
    BY <1>17, <2>1 DEF TrashRoot, On, At, Holds, PhasesLocked
  <2> QED
    BY <1>1, <1>2, <2>1, <2>2, JobsStep, LockKept
<1>18. CASE UntarRoot(q)
  <2>1. CASE Goto(q, "mark") /\ Release("stage3")
    <3>1. /\ job' \in [Procs -> JobType] /\ Others(q) /\ job'[q].at = "mark"
          /\ job'[q].prof = job[q].prof /\ job'[q].on = job[q].on
      BY <1>1, <2>1, GotoEffect, PhaseNames DEF SameWork
    <3>2. Holds(job[q]) /\ ~Holds(job'[q]) /\ Release(job[q].on)
      BY <1>18, <2>1, <3>1 DEF UntarRoot, On, At, Holds, PhasesLocked
    <3> QED
      BY <1>1, <1>2, <3>1, <3>2, JobsStep, LockFreed
  <2> QED
    BY <1>14, <1>18, <2>1 DEF UntarRoot
<1>19. CASE MarkRoot(q)
  <2>1. /\ job' \in [Procs -> JobType] /\ Others(q) /\ job'[q].at = "lock"
        /\ job'[q].prof = job[q].prof
    BY <1>1, <1>3, <1>19, MoveEffect, PhaseNames DEF MarkRoot, SameWork
  <2>2. ~Holds(job[q]) /\ ~Holds(job'[q]) /\ lock' = lock
    BY <1>19, <2>1 DEF MarkRoot, On, At, Holds, PhasesLocked
  <2> QED
    BY <1>1, <1>2, <2>1, <2>2, JobsStep, LockKept
<1>20. CASE Pull(q)
  <2>1. /\ job' \in [Procs -> JobType] /\ Others(q) /\ job'[q].at = "rsync"
        /\ job'[q].prof = job[q].prof /\ job'[q].on = job[q].on
    BY <1>1, <1>20, PullEffect
  <2>2. Holds(job[q]) /\ Holds(job'[q]) /\ lock' = lock
    BY <1>20, <2>1 DEF Pull, On, At, Holds, PhasesLocked
  <2> QED
    BY <1>1, <1>2, <2>1, <2>2, JobsStep, LockKept
<1>21. CASE Rsync(q)
  <2>1. /\ job' \in [Procs -> JobType] /\ Others(q) /\ job'[q].at = "use"
        /\ job'[q].prof = job[q].prof
    BY <1>1, <1>21, GotoEffect, PhaseNames DEF Rsync, SameWork
  <2>2. Holds(job[q]) /\ ~Holds(job'[q]) /\ Release(job[q].on)
    BY <1>21, <2>1 DEF Rsync, On, At, Holds, PhasesLocked
  <2> QED
    BY <1>1, <1>2, <2>1, <2>2, JobsStep, LockFreed
<1> QED
  BY <1>8, <1>9, <1>10, <1>11, <1>12, <1>13, <1>15, <1>16, <1>17, <1>18, <1>19, <1>20, <1>21

LEMMA PublishType ==
  ASSUME TypeOK, NEW cache \in Caches, Publish(cache)
  PROVE  TypeOK'
<1>1. clock' \in Nat /\ server' \in [Caches -> Nat]
  BY DEF Publish, Stamp, TypeOK
<1>2. FilesOK' /\ TreesOK' /\ CountsOK'
  BY <1>1 DEF Publish, trees, TypeOK, FilesOK, TreesOK, CountsOK
<1>3. JobsOK' /\ LockOK'
  BY DEF Publish, TypeOK, JobsOK, LockOK
<1> QED
  BY <1>2, <1>3 DEF TypeOK, JobsOK, LockOK, FilesOK, TreesOK, CountsOK

LEMMA UnchangedType ==
  ASSUME TypeOK, UNCHANGED vars
  PROVE  TypeOK'
BY DEF TypeOK, vars, trees

LEMMA NextType == TypeOK /\ [Next]_vars => TypeOK'
<1> SUFFICES ASSUME TypeOK, [Next]_vars PROVE TypeOK'
  OBVIOUS
<1>1. ASSUME NEW q \in Procs, Start(q) \/ Step(q) \/ Fail(q) PROVE TypeOK'
  BY <1>1, OutsideType, InsideType DEF Step
<1>2. CASE Rest \/ UNCHANGED vars
  BY <1>2, UnchangedType DEF Rest
<1> QED
  BY <1>1, <1>2, PublishType DEF Next

(* The types, and the lock discipline with them: whoever works on a cache  *)
(* file or extracts from it holds its lock, nobody else does.              *)
THEOREM CacheTypeCorrect == Spec => []TypeOK
<1>1. Init => TypeOK
  BY InitType
<1>2. TypeOK /\ [Next]_vars => TypeOK'
  BY NextType
<1> QED
  BY <1>1, <1>2, PTL DEF Spec
-----------------------------------------------------------------------------
(* Part 2: what is marked is whole, as long as no two processes prepare    *)
(* the same profile.                                                       *)
DisjointJobs == \A q, r \in Procs : q # r => Jobs[q] \cap Jobs[r] = {}

(* A whole file has the stamp of its version: what MarkTree writes down.   *)
FilesStamped == \A c \in Caches : file[c].whole => file[c].mtime = file[c].ver

OwnProfiles == \A q \in Procs : job[q].todo \subseteq Jobs[q] /\ job[q].prof \in Jobs[q] \cup {None}

(* The tree and the root a process is extracting are not marked; those it  *)
(* is about to mark are whole.                                             *)
TreeInHand(q) ==
  /\ On(q, "untar", "portage") => tree[Workdir(q)].done = 0
  /\ On(q, "mark", "portage") =>
       /\ tree[Workdir(q)].whole /\ file["portage"].whole
       /\ tree[Workdir(q)].ver = file["portage"].ver
RootInHand(q) ==
  /\ On(q, "untar", "stage3") => root[job[q].prof].done = 0
  /\ On(q, "mark", "stage3") => root[job[q].prof].whole

MarkedTrees == \A w \in Workdirs : tree[w].done # 0 => tree[w].whole /\ tree[w].done = tree[w].ver
MarkedRoots == \A p \in Profiles : root[p].done # 0 => root[p].whole

MarkedInv ==
  /\ FilesStamped /\ OwnProfiles /\ MarkedTrees /\ MarkedRoots
  /\ \A q \in Procs : TreeInHand(q) /\ RootInHand(q)

(* How a step changes the record of the process that takes it.             *)
LEMMA StepEffect ==
  ASSUME TypeOK, NEW q \in Procs, Start(q) \/ Step(q) \/ Fail(q)
  PROVE  /\ job' \in [Procs -> JobType] /\ Others(q)
         /\ job'[q].todo \subseteq job[q].todo \cup Jobs[q]
         /\ job'[q].prof \in job[q].todo \cup {job[q].prof, None}
         /\ job'[q].at = "untar" => TrashTree(q) \/ TrashRoot(q)
         /\ job'[q].at = "mark" => UntarTree(q) \/ UntarRoot(q)
         /\ job'[q].at \in {"untar", "mark"} =>
              job'[q].on = job[q].on /\ job'[q].prof = job[q].prof
<1>1. JobsOK /\ FilesOK
  BY TypeParts
<1>2. {"portage", "stage3", "overlay"} = Caches
  BY DEF Caches
<1> USE DEF SameWork
<1>3. CASE Start(q)
  BY <1>1, <1>3, StartEffect
<1>4. CASE Fail(q)
  BY <1>1, <1>4, FailEffect DEF PhasesIdle
<1>5. CASE NextProfile(q)
  BY <1>1, <1>5, NextProfileEffect
<1>6. CASE Lock(q)
  BY <1>1, <1>6, LockEffect
<1>7. CASE AskServer(q)
  BY <1>1, <1>7, AskServerEffect
<1>8. CASE WgetBegin(q)
  BY <1>1, <1>8, GotoEffect, PhaseNames DEF WgetBegin
<1>9. CASE WgetEnd(q)
  BY <1>1, <1>9, GotoEffect, PhaseNames DEF WgetEnd
<1>10. CASE KeepTree(q) \/ MarkTree(q) \/ KeepRoot(q) \/ MarkRoot(q)
  BY <1>1, <1>2, <1>10, MoveEffect, PhaseNames DEF KeepTree, MarkTree, KeepRoot, MarkRoot
<1>11. CASE TrashTree(q) \/ TrashRoot(q)
  BY <1>1, <1>11, GotoEffect, PhaseNames DEF TrashTree, TrashRoot
<1>12. CASE UntarTree(q) \/ UntarRoot(q)
  <2>1. Goto(q, "mark") \/ Become(q, Raise(job[q]))
    BY <1>12 DEF UntarTree, UntarRoot
  <2>2. CASE Goto(q, "mark")
    BY <1>1, <1>12, <2>2, GotoEffect, PhaseNames
  <2>3. CASE Become(q, Raise(job[q]))
    BY <1>1, <2>3, RaiseEffect DEF PhasesIdle
  <2> QED
    BY <2>1, <2>2, <2>3
<1>13. CASE Pull(q)
  BY <1>1, <1>13, PullEffect
<1>14. CASE Rsync(q)
  BY <1>1, <1>14, GotoEffect, PhaseNames DEF Rsync
<1>15. CASE Use(q)
  BY <1>1, <1>15, UseEffect
<1>16. CASE End(q)
  BY <1>1, <1>16, EndEffect
<1> QED
  BY <1>3, <1>4, <1>5, <1>6, <1>7, <1>8, <1>9, <1>10, <1>11, <1>12, <1>13, <1>14, <1>15, <1>16
     DEF Step

(* Nobody else touches the tree or the tarball of a process that holds the *)
(* portage lock,                                                           *)
LEMMA PortageHandsOff ==
  ASSUME TypeOK, NEW q \in Procs, NEW r \in Procs, r # q,
         Holds(job[r]), job[r].on = "portage", Start(q) \/ Step(q) \/ Fail(q)
  PROVE  tree' = tree /\ file'["portage"] = file["portage"]
<1>1. ~(Holds(job[q]) /\ job[q].on = "portage")
  BY TypeParts, Exclusive DEF Caches
<1>2. CASE WgetBegin(q) \/ WgetEnd(q)
  <2>1. job[q].on # "portage"
    BY <1>1, <1>2 DEF WgetBegin, WgetEnd, At, Holds, PhasesLocked
  <2> QED
    BY <1>2, <2>1 DEF WgetBegin, WgetEnd, trees, TypeOK, Caches
<1>3. ~TrashTree(q) /\ ~UntarTree(q) /\ ~MarkTree(q)
  BY <1>1 DEF TrashTree, UntarTree, MarkTree, On, At, Holds, PhasesLocked
<1>4. CASE Pull(q)
  BY <1>4 DEF Pull, trees, TypeOK, Caches
<1>5. CASE ~WgetBegin(q) /\ ~WgetEnd(q) /\ ~Pull(q)
  BY <1>3, <1>5 DEF Start, Fail, Step, NextProfile, Lock, AskServer, KeepTree, KeepRoot, TrashRoot,
     UntarRoot, MarkRoot, Rsync, Use, End, trees
<1> QED
  BY <1>2, <1>4, <1>5

(* nor the root of a profile that is another process's job.                *)
LEMMA RootHandsOff ==
  ASSUME TypeOK, NEW q \in Procs, NEW p \in Profiles, p # job[q].prof,
         Start(q) \/ Step(q) \/ Fail(q)
  PROVE  root'[p] = root[p]
<1>1. CASE TrashRoot(q) \/ UntarRoot(q) \/ MarkRoot(q) \/ Rsync(q)
  BY <1>1 DEF TrashRoot, UntarRoot, MarkRoot, Rsync, TypeOK
<1>2. CASE ~TrashRoot(q) /\ ~UntarRoot(q) /\ ~MarkRoot(q) /\ ~Rsync(q)
  BY <1>2 DEF Start, Fail, Step, NextProfile, Lock, AskServer, WgetBegin, WgetEnd, KeepTree,
     TrashTree, UntarTree, MarkTree, KeepRoot, Pull, Use, End, trees
<1> QED
  BY <1>1, <1>2

LEMMA FilesStampedStep ==
  ASSUME TypeOK, FilesStamped, NEW q \in Procs, Start(q) \/ Step(q) \/ Fail(q)
  PROVE  FilesStamped'
<1>1. CASE WgetBegin(q)
  BY <1>1 DEF WgetBegin, FilesStamped, TypeOK
<1>2. CASE WgetEnd(q)
  BY <1>2 DEF WgetEnd, FilesStamped, TypeOK
<1>3. CASE Pull(q)
  BY <1>3 DEF Pull, FilesStamped, TypeOK
<1>4. CASE ~WgetBegin(q) /\ ~WgetEnd(q) /\ ~Pull(q)
  BY <1>4 DEF FilesStamped, Start, Fail, Step, NextProfile, Lock, AskServer, KeepTree, TrashTree,
     UntarTree, MarkTree, KeepRoot, TrashRoot, UntarRoot, MarkRoot, Rsync, Use, End
<1> QED
  BY <1>1, <1>2, <1>3, <1>4

LEMMA OwnProfilesStep ==
  ASSUME TypeOK, OwnProfiles, NEW q \in Procs, Start(q) \/ Step(q) \/ Fail(q)
  PROVE  OwnProfiles'
BY StepEffect DEF OwnProfiles, Others

LEMMA MarkedTreesStep ==
  ASSUME TypeOK, MarkedInv, NEW q \in Procs, Start(q) \/ Step(q) \/ Fail(q)
  PROVE  MarkedTrees'
<1>1. CASE TrashTree(q)
  BY <1>1 DEF TrashTree, MarkedInv, MarkedTrees, TypeOK, NoTree
<1>2. CASE UntarTree(q)
  <2>1. tree[Workdir(q)].done = 0
    BY <1>2 DEF UntarTree, MarkedInv, TreeInHand
  <2>2. tree' = tree \/ tree' = [tree EXCEPT ![Workdir(q)].whole = TRUE]
    BY <1>2 DEF UntarTree
  <2> QED
    BY <2>1, <2>2 DEF MarkedInv, MarkedTrees, TypeOK, TreeType
<1>3. CASE MarkTree(q)
  <2>1. /\ tree[Workdir(q)].whole /\ tree[Workdir(q)].ver = file["portage"].ver
        /\ file["portage"].mtime = file["portage"].ver
    BY <1>3 DEF MarkTree, MarkedInv, TreeInHand, FilesStamped, Caches
  <2>2. tree' = [tree EXCEPT ![Workdir(q)].done = file["portage"].ver]
    BY <1>3, <2>1 DEF MarkTree
  <2> QED
    BY <2>1, <2>2 DEF MarkedInv, MarkedTrees, TypeOK, TreeType
<1>4. CASE ~TrashTree(q) /\ ~UntarTree(q) /\ ~MarkTree(q)
  <2>1. tree' = tree
    BY <1>4 DEF Start, Fail, Step, NextProfile, Lock, AskServer, WgetBegin, WgetEnd, KeepTree,
       KeepRoot, TrashRoot, UntarRoot, MarkRoot, Pull, Rsync, Use, End, trees
  <2> QED
    BY <2>1 DEF MarkedInv, MarkedTrees
<1> QED
  BY <1>1, <1>2, <1>3, <1>4

LEMMA MarkedRootsStep ==
  ASSUME TypeOK, MarkedInv, NEW q \in Procs, Start(q) \/ Step(q) \/ Fail(q)
  PROVE  MarkedRoots'
<1>1. CASE TrashRoot(q)
  BY <1>1 DEF TrashRoot, MarkedInv, MarkedRoots, TypeOK, NoRoot
<1>2. CASE UntarRoot(q)
  <2>1. CASE root' = root
    BY <2>1 DEF MarkedInv, MarkedRoots
  <2>2. CASE root' = [root EXCEPT ![job[q].prof].whole = TRUE]
    <3>1. root \in [Profiles -> RootType] /\ MarkedRoots
      BY DEF MarkedInv, TypeOK
    <3>2. ASSUME NEW p \in Profiles
          PROVE  root'[p].done = root[p].done /\ (root[p].whole => root'[p].whole)
      BY <2>2, <3>1 DEF RootType
    <3> QED
      BY <3>1, <3>2 DEF MarkedRoots
  <2> QED
    BY <1>2, <2>1, <2>2 DEF UntarRoot
<1>3. CASE MarkRoot(q)
  <2>1. root[job[q].prof].whole
    BY <1>3 DEF MarkRoot, MarkedInv, RootInHand
  <2>2. root' = [root EXCEPT ![job[q].prof].done = clock']
    BY <1>3 DEF MarkRoot
  <2> QED
    BY <2>1, <2>2 DEF MarkedInv, MarkedRoots, TypeOK, RootType
<1>4. CASE Rsync(q)
  BY <1>4 DEF Rsync, MarkedInv, MarkedRoots, TypeOK, RootType
<1>5. CASE ~TrashRoot(q) /\ ~UntarRoot(q) /\ ~MarkRoot(q) /\ ~Rsync(q)
  <2>1. root' = root
    BY <1>5 DEF Start, Fail, Step, NextProfile, Lock, AskServer, WgetBegin, WgetEnd, KeepTree,
       TrashTree, UntarTree, MarkTree, KeepRoot, Pull, Use, End, trees
  <2> QED
    BY <2>1 DEF MarkedInv, MarkedRoots
<1> QED
  BY <1>1, <1>2, <1>3, <1>4, <1>5

(* What the process that takes the step has in hand after it.              *)
LEMMA OwnHand ==
  ASSUME TypeOK, MarkedInv, NEW q \in Procs, Start(q) \/ Step(q) \/ Fail(q)
  PROVE  TreeInHand(q)' /\ RootInHand(q)'
<1>1. JobsOK
  BY TypeParts
<1>2. CASE TrashTree(q) \/ TrashRoot(q)
  <2>1. /\ job[q].prof \in Profiles /\ Workdir(q) \in Workdirs
        /\ job'[q].at = "untar" /\ job'[q].on = job[q].on /\ job'[q].prof = job[q].prof
    BY <1>1, <1>2, GotoEffect, PhaseNames, ConstantsAssumption
       DEF TrashTree, TrashRoot, JobsOK, SameWork, On, At, PhasesIdle, Workdir
  <2>2. CASE TrashTree(q)
    BY <2>1, <2>2 DEF TrashTree, TreeInHand, RootInHand, On, At, Workdir, TypeOK, NoTree
  <2>3. CASE TrashRoot(q)
    BY <2>1, <2>3 DEF TrashRoot, TreeInHand, RootInHand, On, At, TypeOK, NoRoot
  <2> QED
    BY <1>2, <2>2, <2>3
<1>3. CASE UntarTree(q) \/ UntarRoot(q)
  <2>1. /\ job[q].prof \in Profiles /\ Workdir(q) \in Workdirs
    BY <1>1, <1>3, ConstantsAssumption
       DEF UntarTree, UntarRoot, JobsOK, On, At, PhasesIdle, Workdir
  <2>2. CASE Goto(q, "mark")
    <3>1. job'[q].at = "mark" /\ job'[q].on = job[q].on /\ job'[q].prof = job[q].prof
      BY <1>1, <2>2, GotoEffect, PhaseNames DEF SameWork
    <3>2. job'[q] # Raise(job[q])
      BY <1>1, <3>1, RaiseType DEF JobsOK, PhasesIdle
    <3>3. ~Become(q, Raise(job[q]))
      BY <1>1, <3>2 DEF Become, JobsOK
    <3>4. CASE UntarTree(q)
      BY <2>1, <3>1, <3>3, <3>4
         DEF UntarTree, Intact, TreeInHand, RootInHand, On, At, Workdir, TypeOK, TreeType
    <3>5. CASE UntarRoot(q)
      BY <2>1, <3>1, <3>3, <3>5 DEF UntarRoot, TreeInHand, RootInHand, On, At, TypeOK, RootType
    <3> QED
      BY <1>3, <3>4, <3>5
  <2>3. CASE Become(q, Raise(job[q]))
    BY <1>1, <2>3, RaiseEffect DEF TreeInHand, RootInHand, On, At, PhasesIdle
  <2> QED
    BY <1>3, <2>2, <2>3 DEF UntarTree, UntarRoot
<1>4. CASE ~TrashTree(q) /\ ~TrashRoot(q) /\ ~UntarTree(q) /\ ~UntarRoot(q)
  BY <1>4, StepEffect DEF TreeInHand, RootInHand, On, At
<1> QED
  BY <1>2, <1>3, <1>4

(* What the others have in hand stays as it is.                            *)
LEMMA OthersHand ==
  ASSUME TypeOK, MarkedInv, DisjointJobs, NEW q \in Procs, NEW r \in Procs, r # q,
         Start(q) \/ Step(q) \/ Fail(q)
  PROVE  TreeInHand(r)' /\ RootInHand(r)'
<1>1. job'[r] = job[r]
  BY StepEffect DEF Others
<1>2. TreeInHand(r) /\ RootInHand(r)
  BY DEF MarkedInv
<1>3. TreeInHand(r)'
  <2>1. CASE Holds(job[r]) /\ job[r].on = "portage"
    <3>1. tree' = tree /\ file'["portage"] = file["portage"]
      BY <2>1, PortageHandsOff
    <3> QED
      BY <1>1, <1>2, <3>1 DEF TreeInHand, On, At, Workdir
  <2>2. CASE ~(Holds(job[r]) /\ job[r].on = "portage")
    BY <1>1, <2>2 DEF TreeInHand, On, At, Holds, PhasesLocked
  <2> QED
    BY <2>1, <2>2
<1>4. RootInHand(r)'
  <2>1. CASE job[r].at \in {"untar", "mark"}
    <3>1. job[r].prof \in Profiles
      BY <2>1 DEF TypeOK, PhasesIdle
    <3>2. job[r].prof # job[q].prof
      BY <3>1, ConstantsAssumption DEF MarkedInv, OwnProfiles, DisjointJobs
    <3>3. root'[job[r].prof] = root[job[r].prof]
      BY <3>1, <3>2, RootHandsOff
    <3> QED
      BY <1>1, <1>2, <3>3 DEF RootInHand, On, At
  <2>2. CASE job[r].at \notin {"untar", "mark"}
    BY <1>1, <2>2 DEF RootInHand, On, At
  <2> QED
    BY <2>1, <2>2
<1> QED
  BY <1>3, <1>4

LEMMA MarkedInit == Init => MarkedInv
<1> SUFFICES ASSUME Init PROVE MarkedInv
  OBVIOUS
<1>1. FilesStamped /\ MarkedTrees /\ MarkedRoots
  BY DEF Init, FilesStamped, MarkedTrees, MarkedRoots, NoFile, NoTree, NoRoot
<1>2. \A q \in Procs : job[q].at = "idle" /\ job[q].todo = {} /\ job[q].prof = None
  BY DEF Init, Idle
<1> QED
  BY <1>1, <1>2 DEF MarkedInv, OwnProfiles, TreeInHand, RootInHand, On, At

LEMMA MarkedNext == DisjointJobs /\ TypeOK /\ MarkedInv /\ [Next]_vars => MarkedInv'
<1> SUFFICES ASSUME DisjointJobs, TypeOK, MarkedInv, [Next]_vars PROVE MarkedInv'
  OBVIOUS
<1>1. ASSUME NEW q \in Procs, Start(q) \/ Step(q) \/ Fail(q) PROVE MarkedInv'
  <2>1. FilesStamped' /\ OwnProfiles'
    BY <1>1, FilesStampedStep, OwnProfilesStep DEF MarkedInv
  <2>2. MarkedTrees' /\ MarkedRoots'
    BY <1>1, MarkedTreesStep, MarkedRootsStep
  <2>3. ASSUME NEW r \in Procs PROVE TreeInHand(r)' /\ RootInHand(r)'
    BY <1>1, OwnHand, OthersHand
  <2> QED
    BY <2>1, <2>2, <2>3 DEF MarkedInv
<1>2. CASE file' = file /\ tree' = tree /\ root' = root /\ job' = job
  BY <1>2 DEF MarkedInv, FilesStamped, OwnProfiles, MarkedTrees, MarkedRoots, TreeInHand,
     RootInHand, On, At, Workdir
<1>3. ASSUME NEW cache \in Caches, Publish(cache) PROVE MarkedInv'
  BY <1>2, <1>3 DEF Publish, trees
<1>4. CASE Rest \/ UNCHANGED vars
  BY <1>2, <1>4 DEF Rest, vars, trees
<1> QED
  BY <1>1, <1>3, <1>4 DEF Next

(* No tree and no root is taken for extracted that is not, as long as no   *)
(* two processes prepare the same profile; work directories and the cache  *)
(* may be shared.                                                          *)
THEOREM MarkedTreesAreWhole ==
  ASSUME DisjointJobs
  PROVE  Spec => []MarkedIsWhole
<1>1. Init => TypeOK /\ MarkedInv
  BY InitType, MarkedInit
<1>2. TypeOK /\ MarkedInv /\ [Next]_vars => (TypeOK /\ MarkedInv)'
  BY NextType, MarkedNext
<1>3. MarkedInv => MarkedIsWhole
  BY DEF MarkedInv, MarkedTrees, MarkedRoots, MarkedIsWhole
<1> QED
  BY <1>1, <1>2, <1>3, PTL DEF Spec
-----------------------------------------------------------------------------
(* Part 3: a process fails only by a call of its own that fails.  No       *)
(* assumption: jobs may overlap, versions appear at any time.              *)
ServerDated == \A c \in Caches : server[c] <= clock

(* The stage3 in the cache is never newer than what its lock holder was    *)
(* offered, and wget is run where there is something to fetch.             *)
Offered(j) ==
  Holds(j) /\ j.on = "stage3" =>
    /\ file["stage3"].ver <= j.offer /\ j.offer <= server["stage3"]
    /\ j.at = "wget" => Outdated(j)
    /\ j.at = "wgetting" => j.offer = file["stage3"].ver
ServedInv ==
  /\ ServerDated
  /\ file["stage3"].ver <= server["stage3"]
  /\ \A q \in Procs : Offered(job[q])

(* A stage3 a process has asked for once is in the cache, being fetched by *)
(* it, or superseded for good.                                             *)
Got(j, v) ==
  \/ v < file["stage3"].ver
  \/ v = file["stage3"].ver /\ file["stage3"].whole
  \/ j.at \in {"wget", "wgetting"} /\ j.on = "stage3" /\ v = j.offer

Asked(j) ==
  /\ \A v \in Nat : <<"stage3", v>> \in j.fetched => Got(j, v)
  /\ j.at \notin PhasesIdle => j.extracted
  /\ <<"portage", 0>> \in j.fetched =>
       j.extracted /\ ~(j.at \in {"lock", "download"} /\ j.on = "portage")
Extracting(j) ==
  /\ j.at \in {"compare", "untar"} /\ j.on \in {"portage", "stage3"} => file[j.on].whole
  /\ j.at = "untar" /\ j.on = "portage" => tree[WorkdirOf[j.prof]].ver = file["portage"].ver
  /\ j.at = "untar" /\ j.on = "stage3" => root[j.prof].ver = file["stage3"].ver
CalmJob(j) == j.calm => j.result # "failed" /\ Asked(j) /\ Extracting(j)
CalmInv == \A q \in Procs : CalmJob(job[q])

(* What a step of a process does to the files and to the server.           *)
LEMMA FileEffect ==
  ASSUME TypeOK, NEW q \in Procs, Start(q) \/ Step(q) \/ Fail(q), NEW c \in Caches
  PROVE  /\ server' = server /\ clock' \in {clock, clock + 1}
         /\ \/ file'[c] = file[c]
            \/ /\ WgetBegin(q) /\ c = job[q].on
               /\ file'[c] = [ver |-> Served(job[q]), whole |-> FALSE, mtime |-> clock + 1]
            \/ /\ WgetEnd(q) /\ c = job[q].on
               /\ file'[c] = [ver |-> file[c].ver, whole |-> TRUE, mtime |-> file[c].ver]
            \/ /\ Pull(q) /\ c = "overlay"
               /\ file'[c] = [ver |-> server[c], whole |-> TRUE, mtime |-> server[c]]
<1>1. file \in [Caches -> FileType]
  BY DEF TypeOK
<1>2. CASE WgetBegin(q)
  BY <1>1, <1>2 DEF WgetBegin, Stamp
<1>3. CASE WgetEnd(q)
  BY <1>1, <1>3 DEF WgetEnd
<1>4. CASE Pull(q)
  BY <1>1, <1>4 DEF Pull
<1>5. CASE ~WgetBegin(q) /\ ~WgetEnd(q) /\ ~Pull(q)
  BY <1>5 DEF Start, Fail, Step, NextProfile, Lock, AskServer, KeepTree, TrashTree,
     UntarTree, MarkTree, KeepRoot, TrashRoot, UntarRoot, MarkRoot, Rsync, Use, End, Stamp
<1> QED
  BY <1>2, <1>3, <1>4, <1>5

LEMMA FileHandsOff ==
  ASSUME TypeOK, NEW q \in Procs, NEW r \in Procs, r # q, Holds(job[r]), Start(q) \/ Step(q) \/ Fail(q)
  PROVE  file'[job[r].on] = file[job[r].on]
<1>1. job[r].on \in Caches /\ job[q].on \in Caches
  BY DEF TypeOK, JobType
<1>2. ~(Holds(job[q]) /\ job[q].on = job[r].on)
  BY <1>1, TypeParts, Exclusive
<1>3. /\ WgetBegin(q) => Holds(job[q])
      /\ WgetEnd(q) => Holds(job[q])
      /\ Pull(q) => Holds(job[q]) /\ job[q].on = "overlay"
  BY DEF WgetBegin, WgetEnd, Pull, On, At, Holds, PhasesLocked
<1> QED
  BY <1>1, <1>2, <1>3, FileEffect

(* The version of a root changes only when it is thrown away.              *)
LEMMA RootVersion ==
  ASSUME TypeOK, NEW q \in Procs, Start(q) \/ Step(q) \/ Fail(q), NEW p \in Profiles
  PROVE  \/ root'[p].ver = root[p].ver
         \/ TrashRoot(q) /\ root'[p].ver = file["stage3"].ver
<1>1. root \in [Profiles -> RootType]
  BY DEF TypeOK
<1>2. CASE TrashRoot(q)
  BY <1>1, <1>2 DEF TrashRoot, NoRoot
<1>3. CASE UntarRoot(q)
  BY <1>1, <1>3 DEF UntarRoot, RootType
<1>4. CASE MarkRoot(q)
  BY <1>1, <1>4 DEF MarkRoot, RootType
<1>5. CASE Rsync(q)
  BY <1>1, <1>5 DEF Rsync, RootType
<1>6. CASE ~TrashRoot(q) /\ ~UntarRoot(q) /\ ~MarkRoot(q) /\ ~Rsync(q)
  BY <1>6 DEF Start, Fail, Step, NextProfile, Lock, AskServer, WgetBegin, WgetEnd, KeepTree,
     TrashTree, UntarTree, MarkTree, KeepRoot, Pull, Use, End, trees
<1> QED
  BY <1>2, <1>3, <1>4, <1>5, <1>6

LEMMA OfferedStep ==
  ASSUME TypeOK, ServedInv, NEW q \in Procs, Start(q) \/ Step(q) \/ Fail(q)
  PROVE  /\ Offered(job[q])'
         /\ file'["stage3"].ver <= server["stage3"]
<1>1. JobsOK /\ FilesOK /\ job[q] \in JobType
  BY TypeParts DEF TypeOK
<1>2. {"portage", "stage3", "overlay"} = Caches
  BY DEF Caches
<1>3. /\ file["stage3"] \in FileType /\ server["stage3"] \in Nat /\ job[q].offer \in Nat
  BY <1>1, <1>2 DEF TypeOK, JobType
<1>4. Offered(job[q]) /\ file["stage3"].ver <= server["stage3"] /\ server' = server
  BY <1>2, FileEffect DEF ServedInv
<1>5. CASE Lock(q)
  <2>1. /\ job'[q].at = IF job[q].on = "overlay" THEN "pull" ELSE "download"
        /\ job'[q].on = job[q].on /\ job'[q].offer = server[job[q].on]
    BY <1>1, <1>5, LockEffect
  <2>2. file' = file
    BY <1>5 DEF Lock
  <2> QED
    BY <1>3, <1>4, <2>1, <2>2 DEF Offered
<1>6. CASE AskServer(q)
  <2>1. /\ job'[q].on = job[q].on /\ job'[q].offer = job[q].offer
        /\ job'[q].at \in {"wget", "compare"}
        /\ job'[q].at = "wget" => Outdated(job[q])
    BY <1>1, <1>6, AskServerEffect DEF SameWork
  <2>2. file' = file /\ Holds(job[q])
    BY <1>6 DEF AskServer, At, Holds, PhasesLocked
  <2>3. job'[q].at = "wget" => Outdated(job[q])'
    BY <1>4, <2>1, <2>2 DEF Outdated, Served
  <2> QED
    BY <1>4, <2>1, <2>2, <2>3 DEF Offered
<1>7. CASE WgetBegin(q)
  <2>1. /\ job'[q].on = job[q].on /\ job'[q].offer = job[q].offer
        /\ job'[q].at = "wgetting"
    BY <1>1, <1>7, GotoEffect, PhaseNames DEF WgetBegin, SameWork
  <2>2. Holds(job[q])
    BY <1>7 DEF WgetBegin, At, Holds, PhasesLocked
  <2>3. CASE job[q].on = "stage3"
    <3>1. file'["stage3"].ver = job[q].offer
      BY <1>1, <1>2, <1>7, <2>3 DEF WgetBegin, Served, FilesOK
    <3> QED
      BY <1>3, <1>4, <2>1, <2>2, <2>3, <3>1 DEF Offered
  <2>4. CASE job[q].on # "stage3"
    BY <1>1, <1>2, <1>4, <1>7, <2>1, <2>4 DEF WgetBegin, Offered, FilesOK
  <2> QED
    BY <2>3, <2>4
<1>8. CASE WgetEnd(q)
  <2>1. /\ job'[q].on = job[q].on /\ job'[q].offer = job[q].offer
        /\ job'[q].at = "compare"
    BY <1>1, <1>8, GotoEffect, PhaseNames DEF WgetEnd, SameWork
  <2>2. Holds(job[q])
    BY <1>8 DEF WgetEnd, At, Holds, PhasesLocked
  <2>3. file'["stage3"].ver = file["stage3"].ver
    BY <1>1, <1>2, <1>8 DEF WgetEnd, FilesOK
  <2> QED
    BY <1>4, <2>1, <2>2, <2>3 DEF Offered
<1>9. CASE TrashTree(q) \/ TrashRoot(q)
  <2>1. /\ job'[q].on = job[q].on /\ job'[q].offer = job[q].offer
        /\ job'[q].at = "untar"
    BY <1>1, <1>9, GotoEffect, PhaseNames DEF TrashTree, TrashRoot, SameWork
  <2>2. Holds(job[q]) /\ file' = file
    BY <1>9 DEF TrashTree, TrashRoot, On, At, Holds, PhasesLocked
  <2> QED
    BY <1>4, <2>1, <2>2 DEF Offered
<1>10. CASE ~Lock(q) /\ ~AskServer(q) /\ ~WgetBegin(q) /\ ~WgetEnd(q) /\ ~TrashTree(q) /\ ~TrashRoot(q)
  <2>1. file'["stage3"] = file["stage3"]
    BY <1>2, <1>10, FileEffect
  <2>2. ~(Holds(job'[q]) /\ job'[q].on = "stage3")
    <3>1. CASE Start(q) \/ NextProfile(q) \/ Use(q) \/ End(q)
      BY <1>1, <3>1, StartEffect, NextProfileEffect, UseEffect, EndEffect DEF Holds, PhasesLocked
    <3>2. CASE Fail(q) \/ Become(q, Raise(job[q]))
      BY <1>1, <3>2, FailEffect, RaiseEffect, IdleFrees
    <3>3. CASE KeepTree(q) \/ MarkTree(q) \/ KeepRoot(q) \/ MarkRoot(q)
      BY <1>1, <1>2, <3>3, MoveEffect, PhaseNames
         DEF KeepTree, MarkTree, KeepRoot, MarkRoot, Holds, PhasesLocked
    <3>4. CASE UntarTree(q) /\ Goto(q, "mark")
      BY <1>1, <3>4, GotoEffect, PhaseNames DEF UntarTree, On
    <3>5. CASE UntarRoot(q) /\ Goto(q, "mark")
      BY <1>1, <3>5, GotoEffect, PhaseNames DEF Holds, PhasesLocked, UntarRoot, On
    <3>6. CASE Pull(q)
      BY <1>1, <3>6, PullEffect DEF Pull, On
    <3>7. CASE Rsync(q)
      BY <1>1, <3>7, GotoEffect, PhaseNames DEF Rsync, On
    <3> QED
      BY <1>10, <3>1, <3>2, <3>3, <3>4, <3>5, <3>6, <3>7 DEF Step, UntarTree, UntarRoot
  <2> QED
    BY <1>4, <2>1, <2>2 DEF Offered
<1> QED
  BY <1>5, <1>6, <1>7, <1>8, <1>9, <1>10

LEMMA ServedStep ==
  ASSUME TypeOK, ServedInv, NEW q \in Procs, Start(q) \/ Step(q) \/ Fail(q)
  PROVE  ServedInv'
<1>1. ServerDated'
  <2>1. server' = server /\ clock' \in {clock, clock + 1}
    BY FileEffect DEF Caches
  <2> QED
    BY <2>1 DEF TypeOK, ServedInv, ServerDated
<1>2. ASSUME NEW r \in Procs, r # q PROVE Offered(job[r])'
  <2>1. job'[r] = job[r] /\ server' = server
    BY <1>2, StepEffect, FileEffect DEF Others, Caches
  <2>2. CASE Holds(job[r]) /\ job[r].on = "stage3"
    <3>1. file'["stage3"] = file["stage3"]
      BY <1>2, <2>2, FileHandsOff
    <3> QED
      BY <1>2, <2>1, <3>1 DEF ServedInv, Offered, Outdated, Served
  <2>3. CASE ~(Holds(job[r]) /\ job[r].on = "stage3")
    BY <2>1, <2>3 DEF Offered
  <2> QED
    BY <2>2, <2>3
<1>3. server' = server
  BY FileEffect DEF Caches
<1> QED
  BY <1>1, <1>2, <1>3, OfferedStep DEF ServedInv

LEMMA ServedNext == TypeOK /\ ServedInv /\ [Next]_vars => ServedInv'
<1> SUFFICES ASSUME TypeOK, ServedInv, [Next]_vars PROVE ServedInv'
  OBVIOUS
<1>1. ASSUME NEW cache \in Caches, Publish(cache) PROVE ServedInv'
  <2>1. /\ server' \in [Caches -> Nat] /\ file' = file /\ job' = job
        /\ clock' = clock + 1 /\ server["stage3"] \in Nat /\ file["stage3"].ver \in Nat
    BY <1>1 DEF Publish, Stamp, TypeOK, Caches, FileType
  <2>2. \A c \in Caches : server'[c] <= clock' /\ server[c] <= server'[c]
    BY <1>1, <2>1 DEF Publish, TypeOK, ServedInv, ServerDated
  <2>3. ASSUME NEW q \in Procs PROVE Offered(job[q])'
    <3>1. job[q].offer \in Nat /\ Offered(job[q])
      BY DEF TypeOK, JobType, ServedInv
    <3> QED
      BY <2>1, <2>2, <3>1 DEF Offered, Outdated, Served, Caches
  <2> QED
    BY <2>1, <2>2, <2>3 DEF ServedInv, ServerDated, Caches
<1>2. CASE Rest \/ UNCHANGED vars
  BY <1>2 DEF Rest, vars, trees, ServedInv, ServerDated, Offered, Outdated, Served, Holds
<1> QED
  BY <1>1, <1>2, ServedStep DEF Next

(* A step that does not concern what the process knows.                    *)
LEMMA CalmKept ==
  ASSUME NEW q \in Procs, CalmJob(job[q]),
         job'[q].calm => job[q].calm,
         job'[q].result \in {job[q].result, "done"},
         job'[q].fetched = job[q].fetched, job'[q].extracted = job[q].extracted,
         job[q].at \notin {"wget", "wgetting"}, job'[q].at \notin {"compare", "untar"},
         job'[q].at \in {"lock", "download"} => job'[q].on # "portage",
         job[q].at \in PhasesIdle => job'[q].at \in PhasesIdle,
         file'["stage3"] = file["stage3"]
  PROVE  CalmJob(job[q])'
BY DEF CalmJob, Asked, Extracting, Got

LEMMA FetchedStays ==
  ASSUME NEW q \in Procs, Asked(job[q]), job'[q].fetched = job[q].fetched,
         job[q].at \notin {"wget", "wgetting"}, file'["stage3"] = file["stage3"]
  PROVE  \A v \in Nat : <<"stage3", v>> \in job'[q].fetched => Got(job[q], v)'
BY DEF Asked, Got

LEMMA OwnCalm ==
  ASSUME TypeOK, ServedInv, CalmInv, NEW q \in Procs, Start(q) \/ Step(q) \/ Fail(q)
  PROVE  CalmJob(job[q])'
<1>1. JobsOK /\ FilesOK /\ job[q] \in JobType /\ CalmJob(job[q]) /\ Offered(job[q])
  BY TypeParts DEF TypeOK, CalmInv, ServedInv
<1>2. {"portage", "stage3", "overlay"} = Caches
  BY DEF Caches
<1>3. CASE Start(q)
  <2>1. job'[q].result = "none" /\ job'[q].fetched = {} /\ job'[q].at = "next"
    BY <1>1, <1>3, StartEffect
  <2> QED
    BY <2>1 DEF CalmJob, Asked, Extracting, PhasesIdle
<1>4. CASE Fail(q)
  BY <1>1, <1>4, FailEffect DEF CalmJob
<1>5. CASE NextProfile(q)
  <2>1. /\ job'[q].at = "lock" /\ job'[q].extracted /\ SameRecord(job'[q], job[q])
        /\ job'[q].on = IF job[q].extracted THEN "stage3" ELSE "portage"
        /\ job[q].at = "next" /\ file' = file
    BY <1>1, <1>5, NextProfileEffect DEF NextProfile, At
  <2>2. CASE job'[q].calm
    <3>1. job[q].calm /\ job[q].result # "failed" /\ Asked(job[q])
      BY <1>1, <2>1, <2>2 DEF CalmJob, SameRecord
    <3>2. \A v \in Nat : <<"stage3", v>> \in job'[q].fetched => Got(job[q], v)'
      BY <2>1, <3>1, FetchedStays DEF SameRecord
    <3> QED
      BY <2>1, <3>1, <3>2 DEF CalmJob, Asked, Extracting, SameRecord
  <2> QED
    BY <2>2 DEF CalmJob
<1>6. CASE Lock(q)
  <2>1. /\ job'[q].at \in {"pull", "download"} /\ job'[q].on = job[q].on
        /\ job'[q].extracted = job[q].extracted /\ SameRecord(job'[q], job[q])
        /\ job[q].at = "lock" /\ file' = file
        /\ job'[q].at = "pull" => job[q].on = "overlay"
    BY <1>1, <1>6, LockEffect DEF Lock, At
  <2>2. CASE job'[q].calm
    <3>1. job[q].calm /\ job[q].result # "failed" /\ Asked(job[q])
      BY <1>1, <2>1, <2>2 DEF CalmJob, SameRecord
    <3>2. \A v \in Nat : <<"stage3", v>> \in job'[q].fetched => Got(job[q], v)'
      BY <2>1, <3>1, FetchedStays DEF SameRecord
    <3> QED
      BY <2>1, <3>1, <3>2 DEF CalmJob, Asked, Extracting, SameRecord, PhasesIdle
  <2> QED
    BY <2>2 DEF CalmJob
<1>7. CASE AskServer(q)
  <2>1. /\ job'[q].on = job[q].on /\ job'[q].offer = job[q].offer /\ job'[q].extracted = job[q].extracted
        /\ job'[q].result = job[q].result
        /\ job'[q].fetched \subseteq job[q].fetched \cup {Url(job[q])}
        /\ job'[q].at \in {"wget", "compare"}
        /\ job'[q].calm => job[q].calm
        /\ job'[q].calm /\ job'[q].at = "compare" =>
             ~Outdated(job[q]) \/ Url(job[q]) \in job[q].fetched
    BY <1>1, <1>7, AskServerEffect DEF SameWork
  <2>2. file' = file /\ Holds(job[q]) /\ job[q].at = "download"
    BY <1>7 DEF AskServer, At, Holds, PhasesLocked
  <2>3. CASE job'[q].calm
    <3>1. job[q].result # "failed" /\ Asked(job[q]) /\ job[q].extracted
      BY <1>1, <2>1, <2>2, <2>3 DEF CalmJob, Asked, PhasesIdle
    <3>2. Url(job[q]) = IF job[q].on = "stage3" THEN <<"stage3", job[q].offer>> ELSE <<job[q].on, 0>>
      BY DEF Url
    <3>3. ASSUME job'[q].at = "compare", job[q].on \in {"portage", "stage3"}
          PROVE  file[job[q].on].whole /\ (job[q].on = "stage3" => job[q].offer = file["stage3"].ver)
      <4>1. CASE ~Outdated(job[q])
        BY <4>1 DEF Outdated, Served
      <4>2. CASE Outdated(job[q]) /\ job[q].on = "portage"
        BY <2>1, <2>2, <2>3, <3>1, <3>2, <3>3, <4>2 DEF Asked
      <4>3. CASE Outdated(job[q]) /\ job[q].on = "stage3"
        <5>1. <<"stage3", job[q].offer>> \in job[q].fetched /\ job[q].offer \in Nat
              /\ file["stage3"].ver \in Nat
          BY <1>1, <1>2, <2>1, <2>3, <3>2, <3>3, <4>3 DEF JobType, FilesOK, FileType
        <5>2. Got(job[q], job[q].offer)
          BY <3>1, <5>1 DEF Asked
        <5> QED
          BY <1>1, <2>2, <4>3, <5>1, <5>2 DEF Got, Offered
      <4> QED
        BY <3>3, <4>1, <4>2, <4>3
    <3>4. ASSUME NEW v \in Nat, <<"stage3", v>> \in job'[q].fetched PROVE Got(job[q], v)'
      <4>1. CASE <<"stage3", v>> \in job[q].fetched
        BY <2>1, <2>2, <3>1, <4>1 DEF Asked, Got
      <4>2. CASE <<"stage3", v>> \notin job[q].fetched
        <5>1. job[q].on = "stage3" /\ v = job[q].offer
          BY <2>1, <3>2, <3>4, <4>2
        <5> QED
          BY <2>1, <2>2, <3>3, <5>1 DEF Got
      <4> QED
        BY <4>1, <4>2
    <3>5. Asked(job[q])'
      BY <2>1, <3>1, <3>4 DEF Asked
    <3> QED
      BY <2>1, <2>2, <3>1, <3>3, <3>5 DEF CalmJob, Extracting
  <2> QED
    BY <2>3 DEF CalmJob
<1>8. CASE WgetBegin(q)
  <2>1. /\ job'[q].on = job[q].on /\ job'[q].offer = job[q].offer /\ job'[q].extracted = job[q].extracted
        /\ job'[q].at = "wgetting" /\ job[q].at = "wget" /\ SameRecord(job'[q], job[q])
    BY <1>1, <1>8, GotoEffect, PhaseNames DEF WgetBegin, SameWork, At
  <2>2. CASE job'[q].calm
    <3>1. job[q].calm /\ job[q].result # "failed" /\ Asked(job[q])
      BY <1>1, <2>1, <2>2 DEF CalmJob, SameRecord
    <3>2. ASSUME NEW v \in Nat, <<"stage3", v>> \in job'[q].fetched PROVE Got(job[q], v)'
      <4>1. Got(job[q], v)
        BY <2>1, <3>1, <3>2 DEF Asked, SameRecord
      <4>2. CASE job[q].on = "stage3"
        <5>1. file'["stage3"].ver = job[q].offer
          BY <1>1, <1>2, <1>8, <4>2 DEF WgetBegin, Served, FilesOK
        <5>2. /\ file["stage3"].ver <= job[q].offer
              /\ ~file["stage3"].whole \/ file["stage3"].ver # job[q].offer
          BY <1>1, <2>1, <4>2 DEF Offered, Outdated, Served, Holds, PhasesLocked
        <5>3. job[q].offer \in Nat /\ file["stage3"].ver \in Nat
          BY <1>1, <1>2 DEF JobType, FilesOK, FileType
        <5>4. v < job[q].offer \/ v = job[q].offer
          BY <2>1, <4>1, <5>2, <5>3 DEF Got
        <5> QED
          BY <2>1, <4>2, <5>1, <5>4 DEF Got
      <4>3. CASE job[q].on # "stage3"
        <5>1. file'["stage3"] = file["stage3"]
          BY <1>2, <1>8, <4>3, FileEffect DEF WgetBegin, WgetEnd, Pull, On, At
        <5> QED
          BY <4>1, <4>3, <5>1 DEF Got
      <4> QED
        BY <4>2, <4>3
    <3> QED
      BY <2>1, <3>1, <3>2 DEF CalmJob, Asked, Extracting, SameRecord, PhasesIdle
  <2> QED
    BY <2>2 DEF CalmJob
<1>9. CASE WgetEnd(q)
  <2>1. /\ job'[q].on = job[q].on /\ job'[q].offer = job[q].offer /\ job'[q].extracted = job[q].extracted
        /\ job'[q].at = "compare" /\ job[q].at = "wgetting" /\ SameRecord(job'[q], job[q])
    BY <1>1, <1>9, GotoEffect, PhaseNames DEF WgetEnd, SameWork, At
  <2>2. CASE job'[q].calm
    <3>1. job[q].calm /\ job[q].result # "failed" /\ Asked(job[q])
      BY <1>1, <2>1, <2>2 DEF CalmJob, SameRecord
    <3>2. file'[job[q].on].whole
      BY <1>1, <1>9 DEF WgetEnd, FilesOK, JobType
    <3>3. ASSUME NEW v \in Nat, <<"stage3", v>> \in job'[q].fetched PROVE Got(job[q], v)'
      <4>1. Got(job[q], v)
        BY <2>1, <3>1, <3>3 DEF Asked, SameRecord
      <4>2. /\ file'["stage3"].ver = file["stage3"].ver
            /\ file["stage3"].whole => file'["stage3"].whole
        BY <1>1, <1>2, <1>9 DEF WgetEnd, FilesOK
      <4>3. CASE job[q].on = "stage3"
        <5>1. job[q].offer = file["stage3"].ver
          BY <1>1, <2>1, <4>3 DEF Offered, Holds, PhasesLocked
        <5> QED
          BY <3>2, <4>1, <4>2, <4>3, <5>1 DEF Got
      <4>4. CASE job[q].on # "stage3"
        BY <4>1, <4>2, <4>4 DEF Got
      <4> QED
        BY <4>3, <4>4
    <3> QED
      BY <2>1, <3>1, <3>2, <3>3 DEF CalmJob, Asked, Extracting, SameRecord, PhasesIdle
  <2> QED
    BY <2>2 DEF CalmJob
<1>10. CASE TrashTree(q) \/ TrashRoot(q)
  <2>1. /\ job'[q].on = job[q].on /\ job'[q].extracted = job[q].extracted
        /\ job'[q].prof = job[q].prof
        /\ job'[q].at = "untar" /\ job[q].at = "compare" /\ SameRecord(job'[q], job[q])
    BY <1>1, <1>10, GotoEffect, PhaseNames DEF TrashTree, TrashRoot, SameWork, On, At
  <2>2. file' = file /\ job[q].prof \in Profiles /\ WorkdirOf[job[q].prof] \in Workdirs
    BY <1>1, <1>10, <2>1, ConstantsAssumption DEF TrashTree, TrashRoot, JobsOK, PhasesIdle
  <2>3. CASE job'[q].calm
    <3>1. job[q].calm /\ job[q].result # "failed" /\ Asked(job[q]) /\ Extracting(job[q])
      BY <1>1, <2>1, <2>3 DEF CalmJob, SameRecord
    <3>2. \A v \in Nat : <<"stage3", v>> \in job'[q].fetched => Got(job[q], v)'
      BY <2>1, <2>2, <3>1, FetchedStays DEF SameRecord
    <3>3. Asked(job[q])'
      BY <2>1, <3>1, <3>2 DEF Asked, SameRecord, PhasesIdle
    <3>4. CASE TrashTree(q)
      <4>1. job[q].on = "portage" /\ tree'[WorkdirOf[job[q].prof]].ver = file["portage"].ver
        BY <2>2, <3>4 DEF TrashTree, On, Workdir, TypeOK, NoTree
      <4> QED
        BY <2>1, <2>2, <3>1, <3>3, <4>1 DEF CalmJob, Extracting, SameRecord
    <3>5. CASE TrashRoot(q)
      <4>1. job[q].on = "stage3" /\ root'[job[q].prof].ver = file["stage3"].ver
        BY <2>2, <3>5 DEF TrashRoot, On, TypeOK, NoRoot
      <4> QED
        BY <2>1, <2>2, <3>1, <3>3, <4>1 DEF CalmJob, Extracting, SameRecord
    <3> QED
      BY <1>10, <3>4, <3>5
  <2> QED
    BY <2>3 DEF CalmJob
<1>11. CASE UntarTree(q) \/ UntarRoot(q)
  <2>1. job[q].at = "untar" /\ job[q].on \in {"portage", "stage3"} /\ file' = file
    BY <1>11 DEF UntarTree, UntarRoot, On, At
  <2>2. CASE Goto(q, "mark")
    <3>1. /\ job'[q].at = "mark" /\ job'[q].extracted = job[q].extracted
          /\ SameRecord(job'[q], job[q])
      BY <1>1, <2>2, GotoEffect, PhaseNames DEF SameWork
    <3> QED
      BY <1>1, <2>1, <3>1, CalmKept DEF SameRecord, PhasesIdle
  <2>3. CASE ~Goto(q, "mark")
    <3>1. Become(q, Raise(job[q]))
      BY <1>11, <2>3 DEF UntarTree, UntarRoot
    <3>2. ~job[q].calm
      <4>1. CASE UntarTree(q)
        BY <1>1, <2>1, <2>3, <4>1 DEF UntarTree, Intact, CalmJob, Extracting, On, At, Workdir
      <4>2. CASE UntarRoot(q)
        BY <1>1, <2>1, <2>3, <4>2 DEF UntarRoot, Intact, CalmJob, Extracting, On, At
      <4> QED
        BY <1>11, <4>1, <4>2
    <3> QED
      BY <1>1, <3>1, <3>2, RaiseEffect DEF CalmJob
  <2> QED
    BY <2>2, <2>3
<1>12. CASE KeepTree(q) \/ MarkTree(q) \/ KeepRoot(q) \/ MarkRoot(q)
  <2>1. /\ job'[q].at = "lock" /\ job'[q].on \in {"stage3", "overlay"}
        /\ job'[q].extracted = job[q].extracted /\ SameRecord(job'[q], job[q])
    BY <1>1, <1>2, <1>12, MoveEffect, PhaseNames DEF KeepTree, MarkTree, KeepRoot, MarkRoot, SameWork
  <2>2. file' = file /\ job[q].at \in {"compare", "mark"}
    BY <1>12 DEF KeepTree, MarkTree, KeepRoot, MarkRoot, On, At
  <2> QED
    BY <1>1, <2>1, <2>2, CalmKept DEF SameRecord, PhasesIdle
<1>13. CASE Pull(q)
  <2>1. /\ job'[q].at = "rsync" /\ job'[q].extracted = job[q].extracted
        /\ job'[q].fetched = job[q].fetched /\ job'[q].result = job[q].result
        /\ job'[q].calm => job[q].calm
    BY <1>1, <1>13, PullEffect
  <2>2. file'["stage3"] = file["stage3"] /\ job[q].at = "pull"
    BY <1>2, <1>13, FileEffect DEF Pull, WgetBegin, WgetEnd, On, At
  <2> QED
    BY <1>1, <2>1, <2>2, CalmKept DEF PhasesIdle
<1>14. CASE Rsync(q)
  <2>1. /\ job'[q].at = "use" /\ job'[q].extracted = job[q].extracted
        /\ SameRecord(job'[q], job[q]) /\ file' = file /\ job[q].at = "rsync"
    BY <1>1, <1>14, GotoEffect, PhaseNames DEF Rsync, SameWork, On, At
  <2> QED
    BY <1>1, <2>1, CalmKept DEF SameRecord, PhasesIdle
<1>15. CASE Use(q)
  <2>1. /\ job'[q].at = "next" /\ job'[q].extracted = job[q].extracted
        /\ SameRecord(job'[q], job[q]) /\ file' = file /\ job[q].at = "use"
    BY <1>1, <1>15, UseEffect DEF Use, At
  <2> QED
    BY <1>1, <2>1, CalmKept DEF SameRecord, PhasesIdle
<1>16. CASE End(q)
  <2>1. /\ job'[q].at = "idle" /\ job'[q].extracted = job[q].extracted
        /\ job'[q].fetched = job[q].fetched /\ job'[q].calm = job[q].calm
        /\ job'[q].result \in {job[q].result, "done"} /\ file' = file /\ job[q].at = "next"
    BY <1>1, <1>16, EndEffect DEF End, At
  <2> QED
    BY <1>1, <2>1, CalmKept DEF PhasesIdle
<1> QED
  BY <1>3, <1>4, <1>5, <1>6, <1>7, <1>8, <1>9, <1>10, <1>11, <1>12, <1>13, <1>14, <1>15, <1>16
     DEF Step

(* A newer stage3 may supersede the one another process has asked for;     *)
(* while it has one in hand, nobody else works on the file or the tree.    *)
LEMMA OthersCalm ==
  ASSUME TypeOK, ServedInv, CalmInv, NEW q \in Procs, NEW r \in Procs, r # q,
         Start(q) \/ Step(q) \/ Fail(q)
  PROVE  CalmJob(job[r])'
<1>1. job'[r] = job[r] /\ CalmJob(job[r]) /\ Offered(job[q])
  BY StepEffect DEF Others, CalmInv, ServedInv
<1>2. {"portage", "stage3", "overlay"} = Caches
  BY DEF Caches
<1>3. file \in [Caches -> FileType] /\ job[q].offer \in Nat /\ file["stage3"].ver \in Nat
  BY <1>2 DEF TypeOK, JobType, FileType
<1> SUFFICES ASSUME job[r].calm PROVE Asked(job[r])' /\ Extracting(job[r])'
  BY <1>1 DEF CalmJob
<1>4. Asked(job[r]) /\ Extracting(job[r])
  BY <1>1 DEF CalmJob
<1>5. ASSUME NEW v \in Nat, Got(job[r], v) PROVE Got(job[r], v)'
  <2>1. CASE WgetBegin(q) /\ job[q].on = "stage3"
    <3>1. file'["stage3"].ver = job[q].offer /\ job[q].at = "wget" /\ Holds(job[q])
      BY <1>3, <1>2, <2>1 DEF WgetBegin, Served, At, Holds, PhasesLocked
    <3>2. /\ file["stage3"].ver <= job[q].offer
          /\ ~file["stage3"].whole \/ file["stage3"].ver # job[q].offer
      BY <1>1, <2>1, <3>1 DEF Offered, Outdated, Served
    <3>3. ~(Holds(job[r]) /\ job[r].on = "stage3")
      BY <2>1, <3>1, <1>2, TypeParts, Exclusive
    <3>4. v < job[q].offer
      BY <1>3, <1>5, <3>2, <3>3 DEF Got, Holds, PhasesLocked
    <3> QED
      BY <3>1, <3>4 DEF Got
  <2>2. CASE ~(WgetBegin(q) /\ job[q].on = "stage3")
    <3>1. /\ file'["stage3"].ver = file["stage3"].ver
          /\ file["stage3"].whole => file'["stage3"].whole
      <4>1. \/ file'["stage3"] = file["stage3"]
            \/ file'["stage3"] = [ver |-> file["stage3"].ver, whole |-> TRUE, mtime |-> file["stage3"].ver]
        BY <1>2, <2>2, FileEffect
      <4> QED
        BY <4>1
    <3> QED
      BY <1>1, <1>5, <3>1 DEF Got
  <2> QED
    BY <2>1, <2>2
<1>6. Asked(job[r])'
  BY <1>1, <1>4, <1>5 DEF Asked
<1>7. CASE job[r].at \in {"compare", "untar"} /\ job[r].on \in {"portage", "stage3"}
  <2>1. Holds(job[r]) /\ job[r].prof \in Profiles
    BY <1>7 DEF Holds, PhasesLocked, PhasesIdle, TypeOK
  <2>2. file'[job[r].on] = file[job[r].on]
    BY <2>1, FileHandsOff
  <2>3. job[r].on = "portage" => tree' = tree
    BY <2>1, PortageHandsOff
  <2>4. job[r].on = "stage3" => root'[job[r].prof].ver = root[job[r].prof].ver
    <3>1. ~(Holds(job[q]) /\ job[q].on = "stage3") \/ job[r].on # "stage3"
      BY <1>2, <2>1, TypeParts, Exclusive
    <3>2. TrashRoot(q) => Holds(job[q]) /\ job[q].on = "stage3"
      BY DEF TrashRoot, On, At, Holds, PhasesLocked
    <3> QED
      BY <2>1, <3>1, <3>2, RootVersion
  <2> QED
    BY <1>1, <1>4, <1>6, <2>2, <2>3, <2>4 DEF Extracting
<1>8. CASE ~(job[r].at \in {"compare", "untar"} /\ job[r].on \in {"portage", "stage3"})
  BY <1>1, <1>6, <1>8 DEF Extracting
<1> QED
  BY <1>7, <1>8

LEMMA CalmNext == TypeOK /\ ServedInv /\ CalmInv /\ [Next]_vars => CalmInv'
<1> SUFFICES ASSUME TypeOK, ServedInv, CalmInv, [Next]_vars PROVE CalmInv'
  OBVIOUS
<1>1. ASSUME NEW q \in Procs, Start(q) \/ Step(q) \/ Fail(q) PROVE CalmInv'
  BY <1>1, OwnCalm, OthersCalm DEF CalmInv
<1>2. CASE file' = file /\ tree' = tree /\ root' = root /\ job' = job
  BY <1>2 DEF CalmInv, CalmJob, Asked, Extracting, Got
<1>3. ASSUME NEW cache \in Caches, Publish(cache) PROVE CalmInv'
  BY <1>2, <1>3 DEF Publish, trees
<1>4. CASE Rest \/ UNCHANGED vars
  BY <1>2, <1>4 DEF Rest, vars, trees
<1> QED
  BY <1>1, <1>3, <1>4 DEF Next

(* A process of which no call has failed does not fail: not by what other  *)
(* processes fetch and extract at the same time, nor by what killed ones   *)
(* have left in the cache, nor by what the server publishes.               *)
THEOREM CalmProcessesSucceed == Spec => []CalmCommandsSucceed
<1>1. Init => ServedInv /\ CalmInv
  <2> SUFFICES ASSUME Init PROVE ServedInv /\ CalmInv
    OBVIOUS
  <2>1. \A q \in Procs : job[q] = Idle
    BY DEF Init
  <2>2. Idle.at = "idle" /\ Idle.fetched = {} /\ Idle.result = "none"
    BY DEF Idle
  <2>3. ServedInv
    BY <2>1, <2>2 DEF Init, ServedInv, ServerDated, Offered, Holds, PhasesLocked, NoFile, Caches
  <2>4. CalmInv
    BY <2>1, <2>2 DEF CalmInv, CalmJob, Asked, Extracting, PhasesIdle
  <2> QED
    BY <2>3, <2>4
<1>2. CalmInv => CalmCommandsSucceed
  BY DEF CalmInv, CalmJob, CalmCommandsSucceed
<1> QED
  BY <1>1, <1>2, InitType, NextType, ServedNext, CalmNext, PTL DEF Spec
-----------------------------------------------------------------------------
(* Part 4: current trees, while upstream is quiet: nothing is published    *)
(* under a running command, a file's length can be asked for, and a        *)
(* command ends with the first profile that fails.                         *)
QuietUpstream == ~LivePublish /\ ~HeadMayFail /\ Keep \subseteq {FALSE}

Have(c) == file[c].whole /\ file[c].ver = server[c]

(* What a command asks for is then the one version there is, and once it   *)
(* has that, nobody fetches it again.                                      *)
Quiet(j) ==
  j.at # "idle" =>
    /\ j.began = server /\ ~j.keep
    /\ \A c \in Caches, v \in Nat :
         <<c, v>> \in j.fetched => Have(c) \/ (j.at \in {"wget", "wgetting"} /\ j.on = c)
    /\ j.at \in {"download", "wget", "wgetting"} => j.on # "overlay" /\ Served(j) = server[j.on]
    /\ j.at = "wget" => ~Have(j.on)
    /\ j.at = "wgetting" => file[j.on].ver = server[j.on] /\ ~file[j.on].whole
    /\ j.at \in {"compare", "untar"} \/ (j.at = "mark" /\ j.on = "portage") => Have(j.on)
    /\ j.at \in {"untar", "mark"} /\ j.on = "stage3" => root[j.prof].ver = server["stage3"]

(* A root marked after the stage3 of today was published is made from it.  *)
RootsDated ==
  \A p \in Profiles : /\ root[p].done <= clock
                      /\ root[p].done > server["stage3"] => root[p].ver = server["stage3"]
QuietInv == RootsDated /\ \A q \in Procs : Quiet(job[q])

LEMMA HaveStays ==
  ASSUME TypeOK, QuietInv, NEW q \in Procs, Start(q) \/ Step(q) \/ Fail(q), NEW c \in Caches, Have(c)
  PROVE  Have(c)'
<1>1. Quiet(job[q]) /\ server' = server
  BY FileEffect DEF QuietInv
<1>2. ~(WgetBegin(q) /\ c = job[q].on) /\ ~(WgetEnd(q) /\ c = job[q].on)
  BY <1>1 DEF WgetBegin, WgetEnd, At, Quiet, Have
<1>3. \/ file'[c] = file[c]
      \/ file'[c] = [ver |-> server[c], whole |-> TRUE, mtime |-> server[c]]
  BY <1>2, FileEffect
<1> QED
  BY <1>1, <1>3 DEF Have

(* A step to a phase that claims nothing of the file or the root in hand.  *)
LEMMA QuietKept ==
  ASSUME TypeOK, QuietInv, NEW q \in Procs, Start(q) \/ Step(q) \/ Fail(q),
         job[q].at \notin {"idle", "wget", "wgetting"},
         job'[q].fetched = job[q].fetched,
         job'[q].at \in {"idle", "next", "lock", "pull", "rsync", "use"},
         job'[q].keep = job[q].keep, job'[q].began = job[q].began
  PROVE  Quiet(job[q])'
<1>1. Quiet(job[q]) /\ server' = server
  BY FileEffect DEF QuietInv, Caches
<1>2. \A c \in Caches, v \in Nat : <<c, v>> \in job'[q].fetched => Have(c)'
  BY <1>1, HaveStays DEF Quiet
<1> QED
  BY <1>1, <1>2 DEF Quiet

LEMMA OwnQuiet ==
  ASSUME QuietUpstream, TypeOK, QuietInv, NEW q \in Procs, Start(q) \/ Step(q) \/ Fail(q)
  PROVE  Quiet(job[q])'
<1>1. JobsOK /\ FilesOK /\ job[q] \in JobType /\ Quiet(job[q]) /\ job[q].on \in Caches
  BY TypeParts DEF TypeOK, QuietInv, JobType
<1>2. {"portage", "stage3", "overlay"} = Caches
  BY DEF Caches
<1>3. server' = server
  BY FileEffect, <1>1
<1>4. \A c \in Caches : Have(c) => Have(c)'
  BY HaveStays
<1>5. CASE Start(q)
  <2>1. /\ job'[q].at = "next" /\ job'[q].fetched = {} /\ job'[q].began = server
        /\ job'[q].keep \in Keep
    BY <1>1, <1>5, StartEffect
  <2> QED
    BY <1>3, <2>1 DEF Quiet, QuietUpstream
<1>6. CASE Fail(q)
  <2>1. ~job[q].keep
    BY <1>1, <1>6 DEF Fail, Quiet
  <2> QED
    BY <1>1, <1>6, <2>1, FailEffect DEF Quiet
<1>7. CASE NextProfile(q)
  <2>1. /\ job[q].at = "next" /\ job'[q].at = "lock"
        /\ SameRecord(job'[q], job[q]) /\ SameCommand(job'[q], job[q])
    BY <1>1, <1>7, NextProfileEffect DEF NextProfile, At
  <2> QED
    BY <2>1, QuietKept DEF SameRecord, SameCommand
<1>8. CASE Lock(q)
  <2>1. /\ job[q].at = "lock" /\ job'[q].on = job[q].on
        /\ job'[q].at = IF job[q].on = "overlay" THEN "pull" ELSE "download"
        /\ job'[q].offer = server[job[q].on]
        /\ SameRecord(job'[q], job[q]) /\ SameCommand(job'[q], job[q])
    BY <1>1, <1>8, LockEffect DEF Lock, At
  <2>2. CASE job[q].on = "overlay"
    BY <2>1, <2>2, QuietKept DEF SameRecord, SameCommand
  <2>3. CASE job[q].on # "overlay"
    <3>1. \A c \in Caches, v \in Nat : <<c, v>> \in job'[q].fetched => Have(c)'
      BY <1>1, <1>4, <2>1 DEF Quiet, SameRecord
    <3>2. Served(job[q])' = server'[job'[q].on]
      BY <1>3, <2>1 DEF Served
    <3> QED
      BY <1>1, <1>3, <2>1, <2>3, <3>1, <3>2 DEF Quiet, SameCommand
  <2> QED
    BY <2>2, <2>3
<1>9. CASE AskServer(q)
  <2>1. /\ job[q].at = "download" /\ job'[q].on = job[q].on /\ SameWork(job'[q], job[q])
        /\ job'[q].fetched \subseteq job[q].fetched \cup {Url(job[q])}
        /\ \/ job'[q].at = "wget" /\ Outdated(job[q])
           \/ job'[q].at = "compare" /\ ~Outdated(job[q])
           \/ job'[q].at = "compare" /\ Url(job[q]) \in job[q].fetched
    BY <1>1, <1>9, AskServerEffect DEF AskServer, At, QuietUpstream
  <2>2. /\ file' = file /\ Served(job[q]) = server[job[q].on] /\ job[q].on # "overlay"
        /\ Served(job[q])' = server'[job'[q].on]
    BY <1>1, <1>3, <1>9, <2>1 DEF AskServer, Quiet, SameWork, Served
  <2>3. Outdated(job[q]) <=> ~Have(job[q].on)
    BY <2>2 DEF Outdated, Have
  <2>4. \E v \in Nat : Url(job[q]) = <<job[q].on, v>>
    BY <1>1 DEF Url, JobType
  <2>5. Have(job[q].on) <=> Have(job[q].on)'
    BY <1>3, <2>1, <2>2 DEF Have
  <2>6. job'[q].at = "compare" => Have(job[q].on)
    BY <1>1, <2>1, <2>3, <2>4 DEF Quiet
  <2>7. \A c \in Caches, v \in Nat :
          <<c, v>> \in job'[q].fetched => Have(c)' \/ (job'[q].at = "wget" /\ job'[q].on = c)
    <3> SUFFICES ASSUME NEW c \in Caches, NEW v \in Nat, <<c, v>> \in job'[q].fetched
                 PROVE  Have(c)' \/ (job'[q].at = "wget" /\ job'[q].on = c)
      OBVIOUS
    <3>1. CASE <<c, v>> \in job[q].fetched
      BY <1>1, <1>4, <2>1, <3>1 DEF Quiet
    <3>2. CASE <<c, v>> \notin job[q].fetched
      <4>1. c = job[q].on
        BY <2>1, <2>4, <3>2
      <4> QED
        BY <1>4, <2>1, <2>6, <4>1
    <3> QED
      BY <3>1, <3>2
  <2> QED
    BY <1>1, <1>3, <2>1, <2>2, <2>3, <2>5, <2>6, <2>7 DEF Quiet, SameWork
<1>10. CASE WgetBegin(q)
  <2>1. /\ job[q].at = "wget" /\ job'[q].at = "wgetting" /\ job'[q].on = job[q].on
        /\ SameWork(job'[q], job[q]) /\ SameRecord(job'[q], job[q])
    BY <1>1, <1>10, GotoEffect, PhaseNames DEF WgetBegin, At
  <2>2. /\ Served(job[q]) = server[job[q].on] /\ job[q].on # "overlay"
        /\ Served(job[q])' = server'[job'[q].on]
    BY <1>1, <1>3, <2>1 DEF Quiet, SameWork, Served
  <2>3. file'[job[q].on].ver = server[job[q].on] /\ ~file'[job[q].on].whole
    BY <1>1, <1>10, <2>2 DEF WgetBegin, FilesOK
  <2>4. \A c \in Caches, v \in Nat : <<c, v>> \in job'[q].fetched => Have(c)' \/ job'[q].on = c
    BY <1>1, <1>4, <2>1 DEF Quiet, SameRecord
  <2> QED
    BY <1>1, <1>3, <2>1, <2>2, <2>3, <2>4 DEF Quiet, SameWork
<1>11. CASE WgetEnd(q)
  <2>1. /\ job[q].at = "wgetting" /\ job'[q].at = "compare" /\ job'[q].on = job[q].on
        /\ SameWork(job'[q], job[q]) /\ SameRecord(job'[q], job[q])
    BY <1>1, <1>11, GotoEffect, PhaseNames DEF WgetEnd, At
  <2>2. Have(job[q].on)'
    BY <1>1, <1>3, <1>11, <2>1 DEF WgetEnd, FilesOK, Quiet, Have
  <2>3. \A c \in Caches, v \in Nat : <<c, v>> \in job'[q].fetched => Have(c)'
    BY <1>1, <1>4, <2>1, <2>2 DEF Quiet, SameRecord
  <2> QED
    BY <1>1, <1>3, <2>1, <2>2, <2>3 DEF Quiet, SameWork
<1>12. CASE TrashTree(q) \/ TrashRoot(q)
  <2>1. /\ job[q].at = "compare" /\ job'[q].at = "untar" /\ job'[q].on = job[q].on
        /\ SameWork(job'[q], job[q]) /\ SameRecord(job'[q], job[q])
    BY <1>1, <1>12, GotoEffect, PhaseNames DEF TrashTree, TrashRoot, On, At
  <2>2. Have(job[q].on) /\ job[q].prof \in Profiles
    BY <1>1, <2>1 DEF Quiet, JobsOK, PhasesIdle
  <2>3. \A c \in Caches, v \in Nat : <<c, v>> \in job'[q].fetched => Have(c)'
    BY <1>1, <1>4, <2>1 DEF Quiet, SameRecord
  <2>4. job[q].on = "stage3" => root'[job[q].prof].ver = server["stage3"]
    BY <1>12, <2>2 DEF TrashTree, TrashRoot, On, TypeOK, NoRoot, Have
  <2> QED
    BY <1>1, <1>3, <1>4, <2>1, <2>2, <2>3, <2>4 DEF Quiet, SameWork
<1>13. CASE UntarTree(q) \/ UntarRoot(q)
  <2>1. job[q].at = "untar"
    BY <1>13 DEF UntarTree, UntarRoot, On, At
  <2>2. CASE Goto(q, "mark")
    <3>1. /\ job'[q].at = "mark" /\ job'[q].on = job[q].on
          /\ SameWork(job'[q], job[q]) /\ SameRecord(job'[q], job[q])
      BY <1>1, <2>2, GotoEffect, PhaseNames
    <3>2. \A c \in Caches, v \in Nat : <<c, v>> \in job'[q].fetched => Have(c)'
      BY <1>1, <1>4, <2>1, <3>1 DEF Quiet, SameRecord
    <3>3. Have(job[q].on) /\ job[q].prof \in Profiles
      BY <1>1, <2>1 DEF Quiet, JobsOK, PhasesIdle
    <3>4. job[q].on = "stage3" => root'[job[q].prof].ver = server["stage3"]
      BY <1>1, <2>1, <3>3, RootVersion DEF Quiet, Have
    <3> QED
      BY <1>1, <1>3, <1>4, <2>1, <3>1, <3>2, <3>3, <3>4 DEF Quiet, SameWork
  <2>3. CASE Become(q, Raise(job[q]))
    <3>1. ~job[q].keep
      BY <1>1, <2>1 DEF Quiet
    <3> QED
      BY <1>1, <2>3, <3>1, RaiseEffect DEF Quiet
  <2> QED
    BY <1>13, <2>2, <2>3 DEF UntarTree, UntarRoot
<1>14. CASE KeepTree(q) \/ MarkTree(q) \/ KeepRoot(q) \/ MarkRoot(q)
  <2>1. /\ job'[q].at = "lock" /\ job[q].at \in {"compare", "mark"}
        /\ SameWork(job'[q], job[q]) /\ SameRecord(job'[q], job[q])
    BY <1>1, <1>2, <1>14, MoveEffect, PhaseNames DEF KeepTree, MarkTree, KeepRoot, MarkRoot, On, At
  <2> QED
    BY <2>1, QuietKept DEF SameRecord, SameWork
<1>15. CASE Pull(q)
  <2>1. /\ job'[q].at = "rsync" /\ job[q].at = "pull" /\ job'[q].fetched = job[q].fetched
        /\ job'[q].keep = job[q].keep /\ job'[q].began = job[q].began
    BY <1>1, <1>15, PullEffect DEF Pull, On, At
  <2> QED
    BY <2>1, QuietKept
<1>16. CASE Rsync(q)
  <2>1. /\ job'[q].at = "use" /\ job[q].at = "rsync"
        /\ SameWork(job'[q], job[q]) /\ SameRecord(job'[q], job[q])
    BY <1>1, <1>16, GotoEffect, PhaseNames DEF Rsync, On, At
  <2> QED
    BY <2>1, QuietKept DEF SameRecord, SameWork
<1>17. CASE Use(q)
  <2>1. /\ job'[q].at = "next" /\ job[q].at = "use"
        /\ SameRecord(job'[q], job[q]) /\ SameCommand(job'[q], job[q])
    BY <1>1, <1>17, UseEffect DEF Use, At
  <2> QED
    BY <2>1, QuietKept DEF SameRecord, SameCommand
<1>18. CASE End(q)
  BY <1>1, <1>18, EndEffect DEF Quiet
<1> QED
  BY <1>5, <1>6, <1>7, <1>8, <1>9, <1>10, <1>11, <1>12, <1>13, <1>14, <1>15, <1>16, <1>17, <1>18
     DEF Step

LEMMA OthersQuiet ==
  ASSUME TypeOK, QuietInv, NEW q \in Procs, NEW r \in Procs, r # q, Start(q) \/ Step(q) \/ Fail(q)
  PROVE  Quiet(job[r])'
<1>1. job'[r] = job[r] /\ Quiet(job[r]) /\ Quiet(job[q]) /\ server' = server /\ job[r].on \in Caches
  <2>1. server' = server
    BY FileEffect DEF Caches
  <2>2. job[r].on \in Caches
    BY DEF TypeOK, JobType
  <2> QED
    BY <2>1, <2>2, StepEffect DEF Others, QuietInv
<1>2. \A c \in Caches : Have(c) => Have(c)'
  BY HaveStays
<1>3. CASE job[r].at = "idle"
  BY <1>1, <1>3 DEF Quiet
<1>4. CASE job[r].at # "idle"
  <2>1. \A c \in Caches, v \in Nat : <<c, v>> \in job'[r].fetched =>
          Have(c)' \/ (job'[r].at \in {"wget", "wgetting"} /\ job'[r].on = c)
    BY <1>1, <1>2, <1>4 DEF Quiet
  <2>2. job[r].at \in {"wget", "wgetting"} => file'[job[r].on] = file[job[r].on]
    BY FileHandsOff, <1>1 DEF Holds, PhasesLocked
  <2>3. Served(job[r])' = Served(job[r])
    BY <1>1 DEF Served
  <2>4. job[r].at \in {"untar", "mark"} /\ job[r].on = "stage3" =>
          root'[job[r].prof].ver = server["stage3"]
    <3> SUFFICES ASSUME job[r].at \in {"untar", "mark"}, job[r].on = "stage3"
                 PROVE  root'[job[r].prof].ver = server["stage3"]
      OBVIOUS
    <3>1. job[r].prof \in Profiles /\ root[job[r].prof].ver = server["stage3"]
      BY <1>1, <1>4 DEF TypeOK, PhasesIdle, Quiet
    <3>2. TrashRoot(q) => file["stage3"].ver = server["stage3"]
      BY <1>1 DEF TrashRoot, On, At, Quiet, Have
    <3> QED
      BY <3>1, <3>2, RootVersion
  <2>5. Have(job[r].on) => Have(job[r].on)'
    BY <1>1, <1>2
  <2>6. job[r].at = "wget" => (~Have(job[r].on) => ~Have(job[r].on)')
    BY <1>1, <2>2 DEF Have
  <2> QED
    BY <1>1, <1>4, <2>1, <2>2, <2>3, <2>4, <2>5, <2>6 DEF Quiet
<1> QED
  BY <1>3, <1>4

LEMMA RootsDatedStep ==
  ASSUME TypeOK, QuietInv, NEW q \in Procs, Start(q) \/ Step(q) \/ Fail(q)
  PROVE  RootsDated'
<1>1. root \in [Profiles -> RootType] /\ clock \in Nat /\ server["stage3"] \in Nat
  BY DEF TypeOK, Caches
<1>2. server' = server /\ clock' \in {clock, clock + 1} /\ Quiet(job[q])
  BY FileEffect DEF QuietInv, Caches
<1>3. ASSUME NEW p \in Profiles
      PROVE  /\ root'[p].done <= clock'
             /\ root'[p].done > server'["stage3"] => root'[p].ver = server'["stage3"]
  <2>1. /\ root[p].done <= clock /\ root[p].done \in Nat
        /\ root[p].done > server["stage3"] => root[p].ver = server["stage3"]
    BY <1>1 DEF QuietInv, RootsDated, RootType
  <2>2. CASE TrashRoot(q)
    BY <1>1, <1>2, <2>1, <2>2 DEF TrashRoot, NoRoot
  <2>3. CASE MarkRoot(q)
    <3>1. root[job[q].prof].ver = server["stage3"] /\ clock' = clock + 1
      BY <1>2, <2>3 DEF MarkRoot, On, At, Quiet, Stamp
    <3>2. root'[p].ver = root[p].ver
      BY <2>3, RootVersion DEF MarkRoot, TrashRoot, On, At
    <3>3. root'[p].done = IF p = job[q].prof THEN clock + 1 ELSE root[p].done
      BY <1>1, <2>3, <3>1 DEF MarkRoot, RootType
    <3> QED
      BY <1>1, <1>2, <2>1, <3>1, <3>2, <3>3
  <2>4. CASE ~TrashRoot(q) /\ ~MarkRoot(q)
    <3>1. root'[p].done = root[p].done
      <4>1. CASE UntarRoot(q)
        BY <1>1, <4>1 DEF UntarRoot, RootType
      <4>2. CASE Rsync(q)
        BY <1>1, <4>2 DEF Rsync, RootType
      <4>3. CASE ~UntarRoot(q) /\ ~Rsync(q)
        BY <2>4, <4>3 DEF Start, Fail, Step, NextProfile, Lock, AskServer, WgetBegin, WgetEnd, KeepTree,
           TrashTree, UntarTree, MarkTree, KeepRoot, Pull, Use, End, trees
      <4> QED
        BY <4>1, <4>2, <4>3
    <3>2. root'[p].ver = root[p].ver
      BY <2>4, RootVersion
    <3> QED
      BY <1>1, <1>2, <2>1, <3>1, <3>2
  <2> QED
    BY <2>2, <2>3, <2>4
<1> QED
  BY <1>3 DEF RootsDated

LEMMA QuietNext == QuietUpstream /\ TypeOK /\ QuietInv /\ [Next]_vars => QuietInv'
<1> SUFFICES ASSUME QuietUpstream, TypeOK, QuietInv, [Next]_vars PROVE QuietInv'
  OBVIOUS
<1>1. ASSUME NEW q \in Procs, Start(q) \/ Step(q) \/ Fail(q) PROVE QuietInv'
  <2>1. \A r \in Procs : Quiet(job[r])'
    BY <1>1, OwnQuiet, OthersQuiet
  <2>2. RootsDated'
    BY <1>1, RootsDatedStep
  <2> QED
    BY <2>1, <2>2 DEF QuietInv
<1>2. ASSUME NEW cache \in Caches, Publish(cache) PROVE QuietInv'
  <2>1. \A q \in Procs : job'[q].at = "idle"
    BY <1>2 DEF Publish, QuietUpstream, At
  <2>2. /\ clock' = clock + 1 /\ root' = root /\ clock \in Nat
        /\ server'["stage3"] \in {server["stage3"], clock + 1}
    BY <1>2 DEF Publish, Stamp, trees, TypeOK, Caches
  <2>3. \A p \in Profiles : root[p].done \in Nat /\ root[p].done <= clock
    BY DEF QuietInv, RootsDated, TypeOK, RootType
  <2>4. RootsDated'
    BY <2>2, <2>3 DEF QuietInv, RootsDated
  <2> QED
    BY <2>1, <2>4 DEF QuietInv, Quiet
<1>3. CASE Rest \/ UNCHANGED vars
  BY <1>3 DEF Rest, vars, trees, QuietInv, RootsDated, Quiet, Have, Served
<1> QED
  BY <1>1, <1>2, <1>3 DEF Next

LEMMA QuietInit == Init => QuietInv
<1> SUFFICES ASSUME Init PROVE QuietInv
  OBVIOUS
<1>1. \A q \in Procs : job[q].at = "idle"
  BY DEF Init, Idle
<1>2. RootsDated
  BY DEF Init, RootsDated, NoRoot, Caches
<1> QED
  BY <1>1, <1>2 DEF QuietInv, Quiet

LEMMA FilesStampedNext == TypeOK /\ FilesStamped /\ [Next]_vars => FilesStamped'
<1>1. FilesStamped /\ UNCHANGED file => FilesStamped'
  BY DEF FilesStamped
<1> QED
  BY <1>1, FilesStampedStep DEF Next, Publish, Rest, vars

(* "stage3 already extracted" is true: the root that is kept is made from  *)
(* the stage3 in the cache, if upstream is quiet.  Jobs may overlap.       *)
THEOREM KeptRootsAreCurrent ==
  ASSUME QuietUpstream
  PROVE  Spec => KeptRootIsCurrent
<1>1. Init => FilesStamped
  BY DEF Init, FilesStamped, NoFile
<1>2. TypeOK /\ FilesStamped /\ QuietInv =>
        \A q \in Procs : KeepRoot(q) => root[job[q].prof].ver = file["stage3"].ver
  <2> SUFFICES ASSUME TypeOK, FilesStamped, QuietInv, NEW q \in Procs, KeepRoot(q)
               PROVE  root[job[q].prof].ver = file["stage3"].ver
    OBVIOUS
  <2>1. job[q].at = "compare" /\ job[q].on = "stage3" /\ job[q].prof \in Profiles
    BY DEF KeepRoot, On, At, TypeOK, PhasesIdle
  <2>2. Have("stage3") /\ file["stage3"].mtime = server["stage3"]
    BY <2>1 DEF QuietInv, Quiet, FilesStamped, Have, Caches
  <2>3. root[job[q].prof].done > server["stage3"]
    BY <2>2 DEF KeepRoot
  <2> QED
    BY <2>1, <2>2, <2>3 DEF QuietInv, RootsDated, Have
<1>3. TypeOK /\ FilesStamped /\ QuietInv /\ [Next]_vars =>
        [\A q \in Procs : KeepRoot(q) => root[job[q].prof].ver = file["stage3"].ver]_vars
  BY <1>2
<1> QED
  BY <1>1, <1>3, InitType, QuietInit, NextType, FilesStampedNext, QuietNext, PTL
     DEF Spec, KeptRootIsCurrent

(* Where a process stands.  Behind extract_portage its work directory has  *)
(* the tree of today,                                                      *)
OneWorkdir == \A q \in Procs : \A p, s \in Jobs[q] : WorkdirOf[p] = WorkdirOf[s]
PastPortage(j) ==
  IF j.at = "next" THEN j.extracted ELSE j.at = "use" \/ (j.at # "idle" /\ j.on # "portage")
TreeReady(q) ==
  PastPortage(job[q]) =>
    Have("portage") /\ \A p \in Jobs[q] : tree[WorkdirOf[p]].done >= server["portage"]

(* behind extract_stage3 its root the stage3,                              *)
PastStage3(j) == j.at = "use" \/ (j.at \in {"lock", "pull", "rsync"} /\ j.on = "overlay")
RootReady(j) ==
  PastStage3(j) => root[j.prof].done # 0 /\ root[j.prof].ver = server["stage3"]

(* and behind sync_overlay the overlay, if the pull has worked.            *)
OverlayReady(j) ==
  /\ j.at # "idle" /\ j.pulled => file["overlay"].whole /\ (j.calm => Have("overlay"))
  /\ j.at = "rsync" => j.pulled
  /\ j.at = "use" => /\ root[j.prof].overlay # 0
                     /\ j.calm => root[j.prof].overlay = server["overlay"]

FilesDated == \A c \in Caches : server[c] # 0 /\ (file[c].whole => file[c].ver # 0)
ReadyInv ==
  FilesDated /\ \A q \in Procs : TreeReady(q) /\ RootReady(job[q]) /\ OverlayReady(job[q])

LEMMA FilesDatedStep ==
  ASSUME TypeOK, QuietInv, FilesDated, NEW q \in Procs, Start(q) \/ Step(q) \/ Fail(q)
  PROVE  FilesDated'
<1>1. ASSUME NEW c \in Caches PROVE server'[c] # 0 /\ (file'[c].whole => file'[c].ver # 0)
  <2>1. server'[c] # 0 /\ (file[c].whole => file[c].ver # 0)
    BY FileEffect DEF FilesDated
  <2>2. WgetEnd(q) /\ c = job[q].on => file[c].ver = server[c]
    BY DEF WgetEnd, At, QuietInv, Quiet
  <2>3. server[c] # 0
    BY DEF FilesDated
  <2>4. \/ file'[c] = file[c]
        \/ ~file'[c].whole
        \/ WgetEnd(q) /\ c = job[q].on /\ file'[c].ver = file[c].ver
        \/ file'[c].ver = server[c]
    <3>1. \/ file'[c] = file[c]
          \/ file'[c] = [ver |-> Served(job[q]), whole |-> FALSE, mtime |-> clock + 1]
          \/ WgetEnd(q) /\ c = job[q].on
               /\ file'[c] = [ver |-> file[c].ver, whole |-> TRUE, mtime |-> file[c].ver]
          \/ file'[c] = [ver |-> server[c], whole |-> TRUE, mtime |-> server[c]]
      BY FileEffect
    <3> QED
      BY <3>1
  <2> QED
    BY <2>1, <2>2, <2>3, <2>4
<1> QED
  BY <1>1 DEF FilesDated

(* A tree of today is not thrown away.                                     *)
LEMMA TreeStays ==
  ASSUME TypeOK, FilesStamped, QuietInv, NEW q \in Procs, Start(q) \/ Step(q) \/ Fail(q),
         Have("portage"), NEW w \in Workdirs, tree[w].done >= server["portage"]
  PROVE  tree'[w].done >= server["portage"]
<1>1. /\ tree \in [Workdirs -> TreeType] /\ server["portage"] \in Nat
      /\ file["portage"].mtime = server["portage"]
  BY DEF TypeOK, Have, FilesStamped, Caches
<1>2. CASE TrashTree(q)
  <2>1. tree[Workdir(q)].done < server["portage"] \/ ~(tree[Workdir(q)].done \in Nat)
    BY <1>1, <1>2 DEF TrashTree
  <2>2. w # Workdir(q)
    BY <1>1, <2>1 DEF TreeType
  <2> QED
    BY <1>1, <1>2, <2>2 DEF TrashTree
<1>3. CASE UntarTree(q)
  BY <1>1, <1>3 DEF UntarTree, TreeType
<1>4. CASE MarkTree(q)
  BY <1>1, <1>4 DEF MarkTree, TreeType
<1>5. CASE ~TrashTree(q) /\ ~UntarTree(q) /\ ~MarkTree(q)
  <2>1. tree' = tree
    BY <1>5 DEF Start, Fail, Step, NextProfile, Lock, AskServer, WgetBegin, WgetEnd, KeepTree, KeepRoot,
       TrashRoot, UntarRoot, MarkRoot, Pull, Rsync, Use, End, trees
  <2> QED
    BY <2>1
<1> QED
  BY <1>2, <1>3, <1>4, <1>5

(* Who is past extract_portage after a step was there before it, or has    *)
(* just kept or marked the tree.                                           *)
LEMMA PastPortageStep ==
  ASSUME TypeOK, QuietInv, NEW q \in Procs, Start(q) \/ Step(q) \/ Fail(q), PastPortage(job'[q])
  PROVE  PastPortage(job[q]) \/ KeepTree(q) \/ MarkTree(q)
<1>1. JobsOK /\ FilesOK /\ Quiet(job[q])
  BY TypeParts DEF QuietInv
<1>2. {"portage", "stage3", "overlay"} = Caches
  BY DEF Caches
<1> USE DEF PastPortage
<1>3. CASE Start(q)
  BY <1>1, <1>3, StartEffect
<1>4. CASE Fail(q)
  BY <1>1, <1>4, FailEffect DEF Fail, Quiet
<1>5. CASE NextProfile(q)
  BY <1>1, <1>5, NextProfileEffect DEF NextProfile, At
<1>6. CASE Lock(q)
  BY <1>1, <1>6, LockEffect DEF Lock, At
<1>7. CASE AskServer(q)
  BY <1>1, <1>7, AskServerEffect DEF AskServer, At
<1>8. CASE WgetBegin(q)
  BY <1>1, <1>8, GotoEffect, PhaseNames DEF WgetBegin, At
<1>9. CASE WgetEnd(q)
  BY <1>1, <1>9, GotoEffect, PhaseNames DEF WgetEnd, At
<1>10. CASE KeepRoot(q) \/ MarkRoot(q)
  BY <1>10 DEF KeepRoot, MarkRoot, On, At
<1>11. CASE TrashTree(q) \/ TrashRoot(q)
  BY <1>1, <1>11, GotoEffect, PhaseNames DEF TrashTree, TrashRoot, On, At
<1>12. CASE UntarTree(q) \/ UntarRoot(q)
  <2>1. job[q].at = "untar" /\ ~job[q].keep
    BY <1>1, <1>12 DEF UntarTree, UntarRoot, On, At, Quiet
  <2>2. CASE Goto(q, "mark")
    BY <1>1, <2>1, <2>2, GotoEffect, PhaseNames
  <2>3. CASE Become(q, Raise(job[q]))
    BY <1>1, <2>1, <2>3, RaiseEffect
  <2> QED
    BY <1>12, <2>2, <2>3 DEF UntarTree, UntarRoot
<1>13. CASE Pull(q) \/ Rsync(q)
  BY <1>13 DEF Pull, Rsync, On, At
<1>14. CASE Use(q)
  BY <1>14 DEF Use, At
<1>15. CASE End(q)
  BY <1>1, <1>15, EndEffect
<1> QED
  BY <1>3, <1>4, <1>5, <1>6, <1>7, <1>8, <1>9, <1>10, <1>11, <1>12, <1>13, <1>14, <1>15 DEF Step

LEMMA TreeReadyStep ==
  ASSUME OneWorkdir, TypeOK, MarkedInv, QuietInv, ReadyInv, NEW q \in Procs,
         Start(q) \/ Step(q) \/ Fail(q), NEW r \in Procs
  PROVE  TreeReady(r)'
<1>1. /\ server' = server /\ server["portage"] \in Nat /\ FilesStamped
      /\ \A p \in Jobs[r] : WorkdirOf[p] \in Workdirs
  BY FileEffect, ConstantsAssumption DEF Caches, TypeOK, MarkedInv
<1>2. CASE PastPortage(job[r])
  <2>1. Have("portage") /\ \A p \in Jobs[r] : tree[WorkdirOf[p]].done >= server["portage"]
    BY <1>2 DEF ReadyInv, TreeReady
  <2>2. Have("portage")'
    BY <2>1, HaveStays DEF Caches
  <2>3. \A p \in Jobs[r] : tree'[WorkdirOf[p]].done >= server["portage"]
    BY <1>1, <2>1, TreeStays
  <2> QED
    BY <1>1, <2>2, <2>3 DEF TreeReady
<1>3. CASE ~PastPortage(job[r])
  <2>1. CASE PastPortage(job[r])'
    <3>1. r = q /\ (KeepTree(q) \/ MarkTree(q))
      BY <1>3, <2>1, StepEffect, PastPortageStep DEF Others
    <3>2. Have("portage") /\ file["portage"].mtime = server["portage"] /\ file' = file
      BY <1>1, <3>1 DEF KeepTree, MarkTree, On, At, QuietInv, Quiet, FilesStamped, Have, Caches
    <3>3. /\ job[q].prof \in Jobs[q] /\ Workdir(q) \in Workdirs
          /\ \A p \in Jobs[q] : WorkdirOf[p] = Workdir(q)
      <4>1. job[q].prof \in Profiles
        BY <3>1 DEF KeepTree, MarkTree, On, At, TypeOK, PhasesIdle
      <4> QED
        BY <4>1, ConstantsAssumption DEF MarkedInv, OwnProfiles, OneWorkdir, Workdir
    <3>4. tree'[Workdir(q)].done >= server["portage"]
      <4>1. CASE KeepTree(q)
        BY <1>1, <3>2, <3>3, <4>1 DEF KeepTree, trees
      <4>2. CASE MarkTree(q)
        BY <1>1, <3>2, <3>3, <4>2 DEF MarkTree, TypeOK, TreeType
      <4> QED
        BY <3>1, <4>1, <4>2
    <3> QED
      BY <1>1, <3>1, <3>2, <3>3, <3>4 DEF TreeReady, Have
  <2>2. CASE ~PastPortage(job[r])'
    BY <2>2 DEF TreeReady
  <2> QED
    BY <2>1, <2>2
<1> QED
  BY <1>2, <1>3

(* The same of extract_stage3; and where the profile in hand is the same.  *)
LEMMA PastStage3Step ==
  ASSUME TypeOK, QuietInv, NEW q \in Procs, Start(q) \/ Step(q) \/ Fail(q), PastStage3(job'[q])
  PROVE  /\ PastStage3(job[q]) \/ KeepRoot(q) \/ MarkRoot(q)
         /\ job'[q].prof = job[q].prof /\ job[q].at \notin PhasesIdle
<1>1. JobsOK /\ FilesOK /\ Quiet(job[q])
  BY TypeParts DEF QuietInv
<1>2. {"portage", "stage3", "overlay"} = Caches
  BY DEF Caches
<1> USE DEF PastStage3
<1>3. CASE Start(q)
  BY <1>1, <1>3, StartEffect
<1>4. CASE Fail(q)
  BY <1>1, <1>4, FailEffect DEF PhasesIdle
<1>5. CASE NextProfile(q)
  BY <1>1, <1>5, NextProfileEffect
<1>6. CASE Lock(q)
  BY <1>1, <1>6, LockEffect DEF Lock, At, PhasesIdle
<1>7. CASE AskServer(q)
  BY <1>1, <1>7, AskServerEffect
<1>8. CASE WgetBegin(q)
  BY <1>1, <1>8, GotoEffect, PhaseNames DEF WgetBegin
<1>9. CASE WgetEnd(q)
  BY <1>1, <1>9, GotoEffect, PhaseNames DEF WgetEnd
<1>10. CASE KeepTree(q) \/ MarkTree(q)
  BY <1>1, <1>2, <1>10, MoveEffect, PhaseNames DEF KeepTree, MarkTree
<1>11. CASE KeepRoot(q) \/ MarkRoot(q)
  BY <1>1, <1>2, <1>11, MoveEffect, PhaseNames DEF KeepRoot, MarkRoot, On, At, SameWork, PhasesIdle
<1>12. CASE TrashTree(q) \/ TrashRoot(q)
  BY <1>1, <1>12, GotoEffect, PhaseNames DEF TrashTree, TrashRoot
<1>13. CASE UntarTree(q) \/ UntarRoot(q)
  <2>1. CASE Goto(q, "mark")
    BY <1>1, <2>1, GotoEffect, PhaseNames
  <2>2. CASE Become(q, Raise(job[q]))
    BY <1>1, <2>2, RaiseEffect DEF PhasesIdle
  <2> QED
    BY <1>13, <2>1, <2>2 DEF UntarTree, UntarRoot
<1>14. CASE Pull(q)
  BY <1>1, <1>14, PullEffect DEF Pull, On, At, PhasesIdle
<1>15. CASE Rsync(q)
  BY <1>1, <1>15, GotoEffect, PhaseNames DEF Rsync, On, At, SameWork, PhasesIdle
<1>16. CASE Use(q)
  BY <1>1, <1>16, UseEffect
<1>17. CASE End(q)
  BY <1>1, <1>17, EndEffect
<1> QED
  BY <1>3, <1>4, <1>5, <1>6, <1>7, <1>8, <1>9, <1>10, <1>11, <1>12, <1>13, <1>14, <1>15, <1>16, <1>17
     DEF Step

LEMMA OwnRootReady ==
  ASSUME TypeOK, FilesStamped, QuietInv, ReadyInv, NEW q \in Procs, Start(q) \/ Step(q) \/ Fail(q)
  PROVE  RootReady(job[q])'
<1> SUFFICES ASSUME PastStage3(job'[q])
             PROVE  root'[job'[q].prof].done # 0 /\ root'[job'[q].prof].ver = server'["stage3"]
  BY DEF RootReady
<1>1. /\ server' = server /\ clock \in Nat /\ root \in [Profiles -> RootType]
      /\ Quiet(job[q]) /\ server["stage3"] \in Nat
  BY FileEffect DEF Caches, TypeOK, QuietInv
<1>2. /\ PastStage3(job[q]) \/ KeepRoot(q) \/ MarkRoot(q)
      /\ job'[q].prof = job[q].prof /\ job[q].prof \in Profiles
  BY PastStage3Step DEF TypeOK
<1>3. CASE PastStage3(job[q])
  <2>1. root[job[q].prof].done # 0 /\ root[job[q].prof].ver = server["stage3"]
    BY <1>3 DEF ReadyInv, RootReady
  <2>2. ~TrashRoot(q) /\ ~UntarRoot(q) /\ ~MarkRoot(q)
    BY <1>3 DEF PastStage3, TrashRoot, UntarRoot, MarkRoot, On, At
  <2>3. CASE Rsync(q)
    BY <1>1, <1>2, <2>1, <2>3 DEF Rsync, RootType
  <2>4. CASE ~Rsync(q)
    <3>1. root' = root
      BY <2>2, <2>4 DEF Start, Fail, Step, NextProfile, Lock, AskServer, WgetBegin, WgetEnd, KeepTree,
         TrashTree, UntarTree, MarkTree, KeepRoot, Pull, Use, End, trees
    <3> QED
      BY <1>1, <1>2, <2>1, <3>1
  <2> QED
    BY <2>3, <2>4
<1>4. CASE KeepRoot(q)
  <2>1. file["stage3"].mtime = server["stage3"]
    BY <1>1, <1>4 DEF KeepRoot, On, At, Quiet, Have, FilesStamped, Caches
  <2>2. root[job[q].prof].done > server["stage3"] /\ root' = root
    BY <1>4, <2>1 DEF KeepRoot, trees
  <2> QED
    BY <1>1, <1>2, <2>2 DEF QuietInv, RootsDated
<1>5. CASE MarkRoot(q)
  <2>1. root[job[q].prof].ver = server["stage3"]
    BY <1>1, <1>5 DEF MarkRoot, On, At, Quiet
  <2>2. root' = [root EXCEPT ![job[q].prof].done = clock + 1]
    BY <1>5 DEF MarkRoot, Stamp
  <2> QED
    BY <1>1, <1>2, <2>1, <2>2 DEF RootType
<1> QED
  BY <1>2, <1>3, <1>4, <1>5

LEMMA OverlayStays ==
  ASSUME TypeOK, QuietInv, NEW q \in Procs, Start(q) \/ Step(q) \/ Fail(q), file["overlay"].whole
  PROVE  file'["overlay"].whole
<1>1. ~(WgetBegin(q) /\ job[q].on = "overlay")
  BY DEF WgetBegin, At, QuietInv, Quiet
<1>2. \/ file'["overlay"] = file["overlay"]
      \/ file'["overlay"] = [ver |-> file["overlay"].ver, whole |-> TRUE, mtime |-> file["overlay"].ver]
      \/ file'["overlay"] = [ver |-> server["overlay"], whole |-> TRUE, mtime |-> server["overlay"]]
  BY <1>1, FileEffect DEF Caches
<1> QED
  BY <1>2

LEMMA OwnOverlayReady ==
  ASSUME TypeOK, QuietInv, ReadyInv, NEW q \in Procs, Start(q) \/ Step(q) \/ Fail(q)
  PROVE  OverlayReady(job[q])'
<1>1. /\ JobsOK /\ FilesOK /\ Quiet(job[q]) /\ server' = server /\ root \in [Profiles -> RootType]
      /\ OverlayReady(job[q]) /\ FilesDated /\ "overlay" \in Caches
  BY FileEffect, TypeParts DEF TypeOK, QuietInv, ReadyInv, Caches
<1>2. /\ file["overlay"].whole => file'["overlay"].whole
      /\ Have("overlay") => Have("overlay")'
  BY <1>1, OverlayStays, HaveStays
<1>3. CASE Start(q)
  BY <1>1, <1>3, StartEffect DEF OverlayReady
<1>4. CASE Fail(q)
  BY <1>1, <1>4, FailEffect DEF OverlayReady, Fail, Quiet
<1>5. CASE Pull(q)
  <2>1. /\ job'[q].at = "rsync" /\ job'[q].pulled /\ job[q].at = "pull"
        /\ \/ /\ job'[q].calm = job[q].calm
              /\ file' = [file EXCEPT !["overlay"] =
                            [ver |-> server["overlay"], whole |-> TRUE, mtime |-> server["overlay"]]]
           \/ ~job'[q].calm /\ file["overlay"].whole /\ file' = file
           \/ job'[q].calm = job[q].calm /\ job[q].pulled /\ file' = file
    BY <1>1, <1>5, PullEffect DEF Pull, On, At
  <2>2. CASE file' = [file EXCEPT !["overlay"] =
                        [ver |-> server["overlay"], whole |-> TRUE, mtime |-> server["overlay"]]]
    <3>1. Have("overlay")'
      BY <1>1, <2>2 DEF Have, FilesOK
    <3> QED
      BY <2>1, <3>1 DEF OverlayReady, Have
  <2>3. CASE ~job'[q].calm /\ file["overlay"].whole
    BY <1>2, <2>1, <2>3 DEF OverlayReady
  <2>4. CASE job'[q].calm = job[q].calm /\ job[q].pulled /\ file' = file
    BY <1>1, <1>2, <2>1, <2>4 DEF OverlayReady
  <2> QED
    BY <2>1, <2>2, <2>3, <2>4
<1>6. CASE Rsync(q)
  <2>1. /\ job'[q].at = "use" /\ job[q].at = "rsync" /\ job'[q].prof = job[q].prof
        /\ job'[q].pulled = job[q].pulled /\ job'[q].calm = job[q].calm
        /\ job[q].prof \in Profiles
    BY <1>1, <1>6, GotoEffect, PhaseNames
       DEF Rsync, On, At, SameWork, SameRecord, JobsOK, PhasesIdle
  <2>2. root'[job[q].prof].overlay = file["overlay"].ver
    BY <1>1, <1>6, <2>1 DEF Rsync, RootType
  <2>3. file["overlay"].ver # 0 /\ (job[q].calm => file["overlay"].ver = server["overlay"])
    BY <1>1, <2>1 DEF OverlayReady, FilesDated, Have
  <2> QED
    BY <1>1, <1>2, <2>1, <2>2, <2>3 DEF OverlayReady
<1>7. ASSUME job[q].at # "idle", job'[q].at \notin {"rsync", "use"}, job'[q].pulled = job[q].pulled,
             job'[q].calm => job[q].calm
      PROVE  OverlayReady(job[q])'
  BY <1>1, <1>2, <1>7 DEF OverlayReady
<1>8. ASSUME job'[q].at = "idle" PROVE OverlayReady(job[q])'
  BY <1>8 DEF OverlayReady
<1>9. CASE NextProfile(q)
  BY <1>1, <1>7, <1>9, NextProfileEffect DEF NextProfile, At, SameRecord, SameCommand
<1>10. CASE Lock(q)
  BY <1>1, <1>7, <1>10, LockEffect DEF Lock, At, SameRecord, SameCommand
<1>11. CASE AskServer(q)
  BY <1>1, <1>7, <1>11, AskServerEffect DEF AskServer, At, SameWork
<1>12. CASE WgetBegin(q) \/ WgetEnd(q)
  BY <1>1, <1>7, <1>12, GotoEffect, PhaseNames DEF WgetBegin, WgetEnd, At, SameWork, SameRecord
<1>13. CASE KeepTree(q) \/ MarkTree(q) \/ KeepRoot(q) \/ MarkRoot(q)
  <2>1. {"portage", "stage3", "overlay"} = Caches
    BY DEF Caches
  <2> QED
    BY <1>1, <1>7, <1>13, <2>1, MoveEffect, PhaseNames
       DEF KeepTree, MarkTree, KeepRoot, MarkRoot, On, At, SameWork, SameRecord
<1>14. CASE TrashTree(q) \/ TrashRoot(q)
  BY <1>1, <1>7, <1>14, GotoEffect, PhaseNames DEF TrashTree, TrashRoot, On, At, SameWork, SameRecord
<1>15. CASE UntarTree(q) \/ UntarRoot(q)
  <2>1. job[q].at = "untar" /\ ~job[q].keep
    BY <1>1, <1>15 DEF UntarTree, UntarRoot, On, At, Quiet
  <2>2. CASE Goto(q, "mark")
    BY <1>1, <1>7, <2>1, <2>2, GotoEffect, PhaseNames DEF SameWork, SameRecord
  <2>3. CASE Become(q, Raise(job[q]))
    BY <1>1, <1>8, <2>1, <2>3, RaiseEffect
  <2> QED
    BY <1>15, <2>2, <2>3 DEF UntarTree, UntarRoot
<1>16. CASE Use(q)
  BY <1>1, <1>7, <1>16, UseEffect DEF Use, At, SameRecord, SameCommand
<1>17. CASE End(q)
  BY <1>1, <1>8, <1>17, EndEffect
<1> QED
  BY <1>3, <1>4, <1>5, <1>6, <1>9, <1>10, <1>11, <1>12, <1>13, <1>14, <1>15, <1>16, <1>17 DEF Step

LEMMA OthersReady ==
  ASSUME DisjointJobs, TypeOK, MarkedInv, QuietInv, ReadyInv, NEW q \in Procs, NEW r \in Procs, r # q,
         Start(q) \/ Step(q) \/ Fail(q)
  PROVE  RootReady(job[r])' /\ OverlayReady(job[r])'
<1>1. job'[r] = job[r] /\ server' = server /\ RootReady(job[r]) /\ OverlayReady(job[r])
  BY StepEffect, FileEffect DEF Others, ReadyInv, Caches
<1>2. /\ file["overlay"].whole => file'["overlay"].whole
      /\ Have("overlay") => Have("overlay")'
  BY OverlayStays, HaveStays DEF Caches
<1>3. CASE job[r].at \in PhasesIdle
  BY <1>1, <1>2, <1>3 DEF RootReady, PastStage3, OverlayReady, PhasesIdle
<1>4. CASE job[r].at \notin PhasesIdle
  <2>1. job[r].prof \in Profiles
    BY <1>4 DEF TypeOK
  <2>2. job[r].prof # job[q].prof
    BY <2>1, ConstantsAssumption DEF MarkedInv, OwnProfiles, DisjointJobs
  <2>3. root'[job[r].prof] = root[job[r].prof]
    BY <2>1, <2>2, RootHandsOff
  <2> QED
    BY <1>1, <1>2, <2>3 DEF RootReady, OverlayReady
<1> QED
  BY <1>3, <1>4

LEMMA ReadyNext ==
  ASSUME QuietUpstream, DisjointJobs, OneWorkdir
  PROVE  TypeOK /\ MarkedInv /\ QuietInv /\ ReadyInv /\ [Next]_vars => ReadyInv'
<1> SUFFICES ASSUME TypeOK, MarkedInv, QuietInv, ReadyInv, [Next]_vars PROVE ReadyInv'
  OBVIOUS
<1>1. ASSUME NEW q \in Procs, Start(q) \/ Step(q) \/ Fail(q) PROVE ReadyInv'
  <2>1. FilesDated'
    BY <1>1, FilesDatedStep DEF ReadyInv
  <2>2. ASSUME NEW r \in Procs PROVE TreeReady(r)' /\ RootReady(job[r])' /\ OverlayReady(job[r])'
    <3>1. FilesStamped
      BY DEF MarkedInv
    <3> QED
      BY <1>1, <3>1, TreeReadyStep, OwnRootReady, OwnOverlayReady, OthersReady
  <2> QED
    BY <2>1, <2>2 DEF ReadyInv
<1>2. ASSUME NEW cache \in Caches, Publish(cache) PROVE ReadyInv'
  <2>1. \A q \in Procs : job'[q].at = "idle"
    BY <1>2 DEF Publish, QuietUpstream, At
  <2>2. FilesDated'
    BY <1>2 DEF Publish, Stamp, TypeOK, ReadyInv, FilesDated
  <2> QED
    BY <2>1, <2>2 DEF ReadyInv, TreeReady, PastPortage, RootReady, PastStage3, OverlayReady
<1>3. CASE Rest \/ UNCHANGED vars
  BY <1>3 DEF Rest, vars, trees, ReadyInv, FilesDated, TreeReady, RootReady, OverlayReady, Have
<1> QED
  BY <1>1, <1>2, <1>3 DEF Next

(* Profiles are prepared with whole trees of the versions there are, if    *)
(* upstream is quiet, no two processes prepare the same profile and each   *)
(* works in one directory.                                                 *)
THEOREM CurrentTreesAreUsed ==
  ASSUME QuietUpstream, DisjointJobs, OneWorkdir
  PROVE  Spec => []UsesCurrentTrees
<1>1. Init => ReadyInv
  <2> SUFFICES ASSUME Init PROVE ReadyInv
    OBVIOUS
  <2>1. \A q \in Procs : job[q].at = "idle"
    BY DEF Init, Idle
  <2>2. FilesDated
    BY DEF Init, FilesDated, NoFile
  <2> QED
    BY <2>1, <2>2 DEF ReadyInv, TreeReady, PastPortage, RootReady, PastStage3, OverlayReady
<1>2. TypeOK /\ MarkedInv /\ QuietInv /\ ReadyInv => UsesCurrentTrees
  <2> SUFFICES ASSUME TypeOK, MarkedInv, QuietInv, ReadyInv, NEW q \in Procs, At(q, "use")
               PROVE  LET r == root[job[q].prof] IN
                      /\ tree[Workdir(q)].whole /\ r.whole /\ r.overlay # 0
                      /\ job[q].calm => /\ tree[Workdir(q)].ver >= job[q].began["portage"]
                                        /\ r.ver >= job[q].began["stage3"]
                                        /\ r.overlay >= job[q].began["overlay"]
    BY DEF UsesCurrentTrees
  <2>1. /\ job[q].prof \in Profiles /\ job[q].prof \in Jobs[q] /\ Workdir(q) \in Workdirs
        /\ Workdir(q) = WorkdirOf[job[q].prof]
    <3>1. job[q].prof \in Profiles
      BY DEF At, TypeOK, PhasesIdle
    <3> QED
      BY <3>1, ConstantsAssumption DEF MarkedInv, OwnProfiles, Workdir
  <2>2. job[q].began = server /\ server["portage"] \in Nat \ {0} /\ server["stage3"] \in Nat
        /\ server["overlay"] \in Nat
    BY DEF At, QuietInv, Quiet, ReadyInv, FilesDated, TypeOK, Caches
  <2>3. tree[Workdir(q)].done >= server["portage"] /\ tree[Workdir(q)].done \in Nat
    BY <2>1 DEF At, ReadyInv, TreeReady, PastPortage, TypeOK, TreeType
  <2>4. tree[Workdir(q)].whole /\ tree[Workdir(q)].ver >= server["portage"]
    BY <2>1, <2>2, <2>3 DEF MarkedInv, MarkedTrees
  <2>5. root[job[q].prof].whole /\ root[job[q].prof].ver = server["stage3"]
    BY <2>1 DEF At, ReadyInv, RootReady, PastStage3, MarkedInv, MarkedRoots
  <2>6. /\ root[job[q].prof].overlay # 0
        /\ job[q].calm => root[job[q].prof].overlay = server["overlay"]
    BY DEF At, ReadyInv, OverlayReady
  <2> QED
    BY <2>2, <2>4, <2>5, <2>6
<1> QED
  BY <1>1, <1>2, InitType, MarkedInit, QuietInit, NextType, MarkedNext, QuietNext, ReadyNext, PTL DEF Spec
=============================================================================
