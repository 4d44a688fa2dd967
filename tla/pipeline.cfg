CONSTANTS
  Runs <- APair
  Pairs <- ThePair
  Kind <- Cascade
  Outcomes <- Repeated
  MaxBuilds = 2
SPECIFICATION Spec
INVARIANTS
  OneGeneration
  PairedIsMeasured
  ValidatorsAgree
PROPERTY DeletionNeverCondemns
CHECK_DEADLOCK FALSE
