CONSTANTS
  Requests = {r1, r2, r3, r4}
  MaxFailures = 5
  MaxTrials = 3
SPECIFICATION HFairSpec
INVARIANT ProbeBudget
PROPERTIES
  TripsAtThreshold
  QuarantineHolds
  OnlyTrafficCloses
  OpenGivesWay
