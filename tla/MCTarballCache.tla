--------------------------- MODULE MCTarballCache ---------------------------
(* Instances of TarballCache for TLC.                                      *)
EXTENDS TarballCache

CONSTANTS q1, q2, p1, p2, w1, w2

SameWorkdir == [p \in Profiles |-> w1]
OwnWorkdir == [p \in Profiles |-> IF p = p1 THEN w1 ELSE w2]
AllJobs == [q \in Procs |-> Profiles]
OwnJobs == [q \in Procs |-> IF q = q1 THEN {p1} ELSE {p2}]
=============================================================================
