SPECIFICATION FairSpec
CONSTANTS
  Machines <- Fleet
  Inis <- SomeInis
  MaxBoots = 3
  MaxMishaps = 1
  MaxEdits = 1
INVARIANTS
  TypeOK
  CalmEndUnmounts
  FsckOffline
  FatHeals
  NamedInForce
  SettingsStay
  KeysOnce
PROPERTIES
  StampGoesLast
  SequencesEnd
CHECK_DEADLOCK FALSE
