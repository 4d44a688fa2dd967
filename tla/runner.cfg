CONSTANTS
  Experiments = {"final", "pilot"}
  NoExperiment = "none"
  NRuns = 2
  FaultyRuns = {2}
  Resume = TRUE
  MaxLaunches = 3
  Deaths = {"interrupt", "kill"}
SPECIFICATION FairSpec
INVARIANTS
  ReturnsClean
  SuccessIsEarned
  ResumeIsSound
  AllAccounted
PROPERTIES
  FileOnlyGrows
  CampaignEnds
CHECK_DEADLOCK FALSE
