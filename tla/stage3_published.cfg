SPECIFICATION Spec
CONSTANTS
  q1 = q1  q2 = q2  p1 = p1  p2 = p2  w1 = w1  w2 = w2
  None = None
  Procs = {q1}
  Profiles = {p1}
  Workdirs = {w1}
  WorkdirOf <- SameWorkdir
  Jobs <- AllJobs
  Keep = {FALSE}
  HeadMayFail = FALSE
  LivePublish = TRUE
  MaxClock = 5
  MaxCommands = 2
  MaxMishaps = 0
PROPERTIES KeptRootIsCurrent
