SPECIFICATION Spec
CONSTANTS
  r1 = r1
  r2 = r2
  r3 = r3
  r4 = r4
  r5 = r5
  A = A
  B = B
  C = C
  old = old
  new = new
  hero = hero
  citation = citation
  Releases = {r1, r2, r3, r4, r5}
  TableOf <- MCTableOf
  Rows <- MCRows
  Images <- MCImages
  Links <- MCLinks
  ProviderCount = 3
  Panoramax = 1
  Percents = {10, 25, 50, 75, 90}
  BatchSize = 2
  Schemas = {old, new}
  Schema = new
  Packaged = {hero, citation}
  NoTable = NoTable
  None = None
INVARIANTS TypeOK CatalogIsWhole FiguresMeanIt
PROPERTY RebuiltFromNothing
