SPECIFICATION FairSpec
CONSTANTS
  Shards = {s1, s2}
  Changing = {s1}
  MaxVersion = 2
  MaxContract = 2
  Epochs = {e1, e2}
  Expiring = {s2}
  None = None
  SizeOf <- CoarseSizes
INVARIANTS
  TypeOK
  ReuseIsCurrent
  AssetsOfTheirPolygons
PROPERTY
  Convergence
