SPECIFICATION FairSpec
CONSTANTS
  q1 = q1  q2 = q2  p1 = p1  p2 = p2  w1 = w1  w2 = w2
  None = None
  Procs = {q1, q2}
  Profiles = {p1, p2}
  Workdirs = {w1}
  WorkdirOf <- SameWorkdir
  Jobs <- OwnJobs
  Keep = {TRUE}
  HeadMayFail = TRUE
  LivePublish = TRUE
  MaxClock = 2
  MaxCommands = 3
  MaxMishaps = 2
INVARIANTS TypeOK MarkedIsWhole CalmCommandsSucceed
PROPERTIES CommandsEnd
