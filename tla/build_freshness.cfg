SPECIFICATION Spec
CONSTANTS
  q1 = q1  q2 = q2  p1 = p1  p2 = p2  a1 = a1  a2 = a2  o1 = o1  o2 = o2
  None = None
  Procs = {q1}
  Profiles = {p1}
  Artifacts = {a1}
  Outfiles = {o1}
  ProfileOf <- OneProfile
  OutfileOf <- OwnOutfile
  Jobs <- AllJobs
  Fragile <- BeforeMetadata
  Kinds <- BuildOnly
  Editable <- EarlyReadSources
  LiveEdits <- LateReadSources
  Deletable <- NoSource
  MaxClock = 6
  MaxVersion = 2
  MaxMishaps = 1
INVARIANTS ReportedIsFresh
PROPERTIES PackedNeverRegresses
