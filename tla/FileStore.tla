----------------------------- MODULE FileStore -----------------------------
(***************************************************************************)
(* What fat.h promises to its callers: a set of files with sizes.  Calls   *)
(* run one at a time; a file that is being created appears empty and grows *)
(* at once or goes again.  Names that are settled never change; the others *)
(* may lose or regain what was not safely written when the program is      *)
(* killed, the power goes or the volume is mounted again.                  *)
(***************************************************************************)
EXTENDS Naturals

VARIABLES
  files,     \* pairs of a name and a length
  settled,   \* names of the files that are safe
  job,       \* the running call
  answer,    \* what the last call returned
  faults,    \* disk errors so far
  kills,     \* programs that were killed so far
  losses     \* power losses so far

storeVars == <<files, settled, job, answer, faults, kills, losses>>
Troubled == faults + kills + losses # 0

Present(n) == \E f \in files : f[1] = n
Of(names, fs) == {f \in fs : f[1] \in names}
Idling == job.op = "none"
NoError == UNCHANGED <<faults, kills, losses>>
OneError == faults' = faults + 1 /\ UNCHANGED <<kills, losses>>

Start == Idling /\ job'.op # "none" /\ ~job'.faulty /\ answer' = "none"
         /\ UNCHANGED <<files, settled>> /\ NoError
Refuse == Idling /\ job'.op = "none" /\ answer' = "throws" /\ UNCHANGED <<files, settled>> /\ NoError

SameCall == job'.name = job.name /\ job'.len = job.len /\ UNCHANGED <<answer, settled>>
Creating == job.op = "create" /\ job.name \notin settled /\ SameCall /\ NoError

(* An error, a kill or a power loss can leave files behind others that     *)
(* hide them; they show when these change.                                 *)
Shows(fs) == \/ files' = fs
             \/ Troubled /\ fs \subseteq files' /\ Of(settled, files') = Of(settled, fs)

Appear == Creating /\ ~Present(job.name) /\ Shows(files \cup {<<job.name, 0>>}) /\ job' = job
Grow == Creating /\ <<job.name, 0>> \in files /\ job' = job
        /\ files' = (files \ {<<job.name, 0>>}) \cup {<<job.name, job.len>>}
GiveUp == Creating /\ job'.op = "unlink" /\ job'.faulty = job.faulty /\ UNCHANGED files
Vanish == job.op = "unlink" /\ job.name \notin settled /\ SameCall /\ NoError /\ job' = job
          /\ Shows(files \ {<<job.name, 0>>})
Err == ~Idling /\ OneError /\ SameCall /\ job'.faulty
       /\ job'.op \in {job.op} \cup (IF job.op = "create" THEN {"unlink"} ELSE {}) /\ UNCHANGED files

(* The answers that are true of the files there are.                       *)
True(a) ==
  CASE job.op = "create" -> CASE a = "ok" -> <<job.name, job.len>> \in files
                            [] a = "exists" -> Present(job.name)
                            [] OTHER -> a = "throws"
    [] job.op = "unlink" -> a = "nospace" /\ (Present(job.name) => Troubled)
    [] job.op = "exists" -> a \in {"throws"} \cup {IF Present(job.name) THEN "true" ELSE "false"}
    [] OTHER -> a \in {"free", "throws"}

Revert == Of(settled, files') = Of(settled, files) /\ UNCHANGED settled

Answer ==
  /\ ~Idling /\ job'.op = "none"
  /\ answer' # "none"
  /\ \/ /\ True(answer') \/ job.faulty
        /\ NoError /\ UNCHANGED files
        /\ settled' = IF answer' = "ok" /\ ~job.faulty THEN settled \cup {job.name} ELSE settled
     \/ OneError /\ Revert

(* After a disk error the store is seen again as the disk has it.          *)
Reread == ~Idling /\ faults' # 0 /\ Revert /\ UNCHANGED answer
          /\ job'.op = job.op /\ job'.name = job.name /\ job'.len = job.len
          /\ \/ job' = job /\ NoError
             \/ job'.faulty /\ OneError
Crash == Revert /\ job'.op = "none" /\ answer' = "none" /\ faults' = faults
         /\ \/ kills' = kills + 1 /\ losses' = losses
            \/ kills' = kills /\ losses' = losses + 1

StoreInit == settled = {f[1] : f \in files} /\ Idling /\ answer = "none" /\ ~Troubled
StoreNext == Start \/ Refuse \/ Appear \/ Grow \/ GiveUp \/ Vanish \/ Err \/ Answer \/ Reread \/ Crash
StoreSpec == StoreInit /\ [][StoreNext]_storeVars
=============================================================================
