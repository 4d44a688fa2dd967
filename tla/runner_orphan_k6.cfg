CONSTANTS
  Experiments = {"final", "pilot"}
  NoExperiment = "none"
  NRuns = 2
  FaultyRuns = {2}
  Resume = TRUE
  MaxLaunches = 3
  Deaths = {"interrupt"}
SPECIFICATION Spec
INVARIANT NoOrphanK6
CHECK_DEADLOCK FALSE
