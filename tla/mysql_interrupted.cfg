SPECIFICATION Spec
CONSTANTS
  Images = {"init"}
  MediaSets <- DataPartition
  Upgradable = {}
  FreeSpace = {1}
  MaxBoots = 2
  MaxMishaps = 1
INVARIANTS ServedIsWhole
