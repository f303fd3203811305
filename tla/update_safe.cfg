SPECIFICATION Spec
CONSTANTS
  q1 = q1
  Procs = {q1}
  Installers = {"cpp", "sh"}
  Inits = {"init", "systemimg"}
  WithConfig = {FALSE, TRUE}
  LosetupMayFail = FALSE
  MaxCopies = 5
  MaxMishaps = 4
INVARIANTS TypeOK RunningImageKept ImageSurvives PreviousKept FailureKeepsSystemImage
