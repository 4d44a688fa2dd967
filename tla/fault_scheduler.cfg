CONSTANT NCommands = 2
SPECIFICATION Spec
INVARIANTS
  OneVerdict
  VerdictIsTrue
  StagesBracketed
  CarriedThroughIsAccepted
CHECK_DEADLOCK FALSE
