SPECIFICATION Spec
CONSTANTS
  Images = {"init", "paravirt", "overlay"}
  MediaSets <- AllMedia
  Upgradable <- OnePartition
  FreeSpace = {1, 2, 4, 7, 8}
  MaxBoots = 4
  MaxMishaps = 2
INVARIANTS TypeOK SessionsContinue DatabaseContinues SwapHeals
