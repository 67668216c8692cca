SPECIFICATION FairSpec
CONSTANTS
  image = image
  other = other
  bad = bad
  mapillary = mapillary
  References = {image, other, bad}
  Providers = {mapillary}
  Provider <- MCProvider
  Invalid = {bad}
  Secret = {bad}
  Batches <- MCBatches
  Slots = 2
  Limit <- MCLimit
  Interval <- MCInterval
  Attempts = 2
  RetryDelay = 1
  Cooldowns = {2}
  Answers <- MCAnswers
  Commons = None
  Keyed = {mapillary}
  None = None
INVARIANTS TypeOK SupersededIsDue SnapshotIsDurable BuiltIsFresh
PROPERTIES PacedRequests NoEarlyRequest BuildEnds
