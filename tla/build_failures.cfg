SPECIFICATION Spec
CONSTANTS
  q1 = q1  q2 = q2  p1 = p1  p2 = p2  a1 = a1  a2 = a2  o1 = o1  o2 = o2
  None = None
  Procs = {q1}
  Profiles = {p1, p2}
  Artifacts = {a1, a2}
  Outfiles = {o1, o2}
  ProfileOf <- TwoProfiles
  OutfileOf <- OwnOutfile
  Jobs <- AllJobs
  Fragile <- AnyPhase
  Kinds <- AllKinds
  Editable <- NoSource
  LiveEdits <- NoSource
  Deletable <- PackagesOnly
  MaxClock = 4
  MaxVersion = 2
  MaxMishaps = 1
INVARIANTS TypeOK PreparedRootIsClean BuildsFromPreparedRoot
PROPERTIES NoNeedlessRebuild
