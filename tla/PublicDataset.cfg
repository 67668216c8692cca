SPECIFICATION Spec
CONSTANTS
  Shards <- MCShards
  Rows <- MCRows
  AssetShards <- MCAssetShards
  Rebuilt <- MCRebuilt
  PolygonLists <- MCPolygonLists
  AssetLists <- MCAssetLists
  Ids = {1, 2}
  SourcePbfs = {"a", "b"}
  None = None
INVARIANTS
  TypeOK
  ReleaseIsWhole
  ReturnsCurrent
PROPERTY
  WorkKept
