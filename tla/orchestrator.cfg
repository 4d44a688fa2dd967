CONSTANTS
  Workers = {"vision", "ocr"}
  MaxCycles = 2
  Callers = {c1}
  StopTimesOut = FALSE
  MaxFailures = 1
  MaxTrials = 1
SPECIFICATION FairSpec
INVARIANTS
  NoLeakedCycle
  ClosesOwnChannel
  QuietAfterStop
PROPERTY StopTerminates
