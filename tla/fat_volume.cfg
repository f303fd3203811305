SPECIFICATION FairSpec
CONSTANTS
  N = 7
  PerSector = 2
  Slots = 2
  Root = 3
  Names = {"efi", "a", "b", "c"}
  BadName = ""
  Requests <- SomeRequests
  Volumes <- SomeVolumes
  MaxMishaps = 1
INVARIANTS TypeOK FilesIntact FreeCountExact PromisedFilesStay
PROPERTIES UsedClustersStay CallsEnd Implements
