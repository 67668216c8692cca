SPECIFICATION Spec
CONSTANTS
  None = None
  Unresolved = Unresolved
  Digits = {"1"}
  Pairs = {"1/2"}
  Uuids = {"U", "u"}
  Lower <- MCLower
  PanoramaxKeys = {"panoramax", "panoramax:0"}
  Batches <- CollidingBatches
  Environment = {"mapillary", "flickr"}
  UrlOf <- MCUrlOf
  Api <- MCApi
  Dns <- MCDns
  Literal <- MCLiteral
  Colons = {"2001:1::1"}
  Public = {"public1", "public2"}
  Replies <- MCReplies
  Files = {"f1", "f2", "f3", "f4"}
  PageId <- MCPageId
  SortKey <- MCSortKey
  FileIs <- MCFileIs
  FirstMembers = {"f1", "f2", "f3"}
  Edits = 1
  Cap = 2
  Page = 2
  TitleBatch = 1
  MaxRedirects = 3
  Attempts = 2
INVARIANT OwnDecision
CHECK_DEADLOCK FALSE
