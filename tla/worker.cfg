CONSTANTS
  Calls = {c1, c2, c3}
  PoolSize = 2
  Permits = 1
SPECIFICATION FairSpec
INVARIANTS
  PermitsConserved
  ReadyMeansServing
PROPERTIES
  HealthOutlivesHang
  DeadIsNoticed
