SPECIFICATION FairSpec
CONSTANTS
  q1 = q1
  Procs = {q1}
  Installers = {"cpp"}
  Inits = {"init", "systemimg"}
  WithConfig = {FALSE}
  LosetupMayFail = TRUE
  MaxCopies = 5
  MaxMishaps = 3
INVARIANTS DoneIsDurable
PROPERTIES RetrySucceeds
