CONSTANTS
  Requests = {r1, r2, r3}
  Workers = {"vision"}
  Contents = {c1}
  RetryMaxAttempts = 2
  Configurations <- AllConditions
  NoRequest = NoRequest
  MaxFailures = 2
  MaxTrials = 1
SPECIFICATION BusySpec
INVARIANTS
  FlightSound
  RetriesAreCharged
  BadInputIsHarmless
PROPERTIES
  BreakerDiscipline
  EveryRequestReturns
  RecordedProbesDecide
