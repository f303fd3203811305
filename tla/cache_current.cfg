SPECIFICATION Spec
CONSTANTS
  q1 = q1  q2 = q2  p1 = p1  p2 = p2  w1 = w1  w2 = w2
  None = None
  Procs = {q1, q2}
  Profiles = {p1, p2}
  Workdirs = {w1, w2}
  WorkdirOf <- OwnWorkdir
  Jobs <- OwnJobs
  Keep = {FALSE}
  HeadMayFail = FALSE
  LivePublish = FALSE
  MaxClock = 6
  MaxCommands = 3
  MaxMishaps = 1
INVARIANTS UsesCurrentTrees
PROPERTIES KeptRootIsCurrent
