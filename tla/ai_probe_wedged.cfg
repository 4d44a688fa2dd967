CONSTANTS
  Requests = {r1, r2}
  Workers = {"vision"}
  Contents = {c1}
  RetryMaxAttempts = 2
  Configurations <- MixedInput
  NoRequest = NoRequest
  MaxFailures = 1
  MaxTrials = 1
SPECIFICATION BusySpec
PROPERTY HalfOpenDecides
