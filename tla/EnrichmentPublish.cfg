SPECIFICATION FairSpec
CONSTANTS
  NumShards = 3
  NumSources = 2
  QueueCapacity = 1
INVARIANTS
  TypeOK
  LockDiscipline
  FirstCheckpointPaused
  OneJobPerShard
  SummaryComplete
  AssetsBackfilled
  BuiltThenRefreshed
PROPERTY
  EndsOrHangs
CHECK_DEADLOCK FALSE
