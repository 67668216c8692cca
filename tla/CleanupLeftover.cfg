SPECIFICATION Spec
CONSTANTS
  Sources <- MCSources
  Foreign <- MCForeign
  AddBatch = 2
  RestoreBatch = 2
  TransformBatch = 3
  PipeSize = 1
  Messages = 2
  AssetJobs <- MCAssetJobs
  Reports <- ReportsSwept
  MaxKills = 2
  None = None
INVARIANT LeftoversSwept
