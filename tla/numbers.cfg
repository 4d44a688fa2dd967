CONSTANTS
  Services = {"vision", "ocr", "asr", "unknown"}
  MaxRequested = 3
  Window = 3
  MaxGap = 1
  MaxTime = 4
  MaxRows = 5
  Numbers = {1, 2, 3}
  NScenarios = 1
  NMetrics = 3
  MinPairs = 2
  Scores = {0, 1}
  PValues = {2, 3, 6, 7}
  One = 20
  Alpha = 6
SPECIFICATION NumbersSpec
INVARIANTS
  ContractTable
  FlagMeansMislabelled
  ResponseCoherent
  FindsFirstWindow
  RecoveredMeansStabilized
  PairsMatched
  HolmIsStepDown
CHECK_DEADLOCK FALSE
