CONSTANTS
  Requests = {r1, r2, r3}
  MaxFailures = 2
  MaxTrials = 2
SPECIFICATION HSpec
PROPERTY RecoveryThroughHalfOpen
