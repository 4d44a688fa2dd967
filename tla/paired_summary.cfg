CONSTANTS
  Numbers = {1, 2, 3}
  NScenarios = 1
  NMetrics = 1
  MinPairs = 2
  Scores = {0, 1}
  PValues = {2, 3, 6, 7}
  One = 20
  Alpha = 6
SPECIFICATION AnalysisSpec
INVARIANT ScoresCarriedOver
CHECK_DEADLOCK FALSE
