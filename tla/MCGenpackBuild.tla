--------------------------- MODULE MCGenpackBuild ---------------------------
(* Instances of GenpackBuild for TLC.                                      *)
EXTENDS GenpackBuild

CONSTANTS q1, q2, p1, p2, a1, a2, o1, o2

OneProfile == [a \in Artifacts |-> p1]
TwoProfiles == [a \in Artifacts |-> IF a = a1 THEN p1 ELSE p2]
OwnOutfile == [a \in Artifacts |-> IF a = a1 THEN o1 ELSE o2]
AllJobs == [q \in Procs |-> Artifacts]

\* every phase with an external command or a check that may raise
AnyPhase == Phases \ {"idle"}
\* up to the moment .genpack/packages is written
BeforeMetadata == PreparePhases \cup {"next_artifact", "trash_upper", "copyup"}

AfterMetadata == {"sync_packages", "sync_artifact", "finish"}

NoSource == {}
LateReadSources == {Packages} \cup {Files(a) : a \in Artifacts}
FirstProfile == {ProfileDir(p1)}
PackagesOnly == {Packages}
EarlyReadSources == {ProfileDir(p) : p \in Profiles} \cup {BuildJson(a) : a \in Artifacts}

AllKinds == {"build", "prepare", "bash"}
BuildOnly == {"build"}
=============================================================================
