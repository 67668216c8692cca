SPECIFICATION FairSpec
CONSTANTS
  NumShards = 3
  NumSources = 2
  QueueCapacity = 1
PROPERTY CheckpointLeft
CHECK_DEADLOCK FALSE
