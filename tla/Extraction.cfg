SPECIFICATION FairSpec
CONSTANTS
  Sources <- MCSources
  Foreign <- MCForeign
  AddBatch = 2
  RestoreBatch = 2
  TransformBatch = 3
  PipeSize = 1
  Messages = 2
  AssetJobs <- MCAssetJobs
  Reports <- MCReports
  MaxKills = 1
  None = None
INVARIANTS TypeOK ShardIsWhole NoLiveFileRefused SiblingsSwept
PROPERTIES ForeignStays BuildEnds
