SPECIFICATION Spec
CONSTANTS
  Shards = {s1, s2}
  Changing = {s1}
  MaxVersion = 2
  MaxContract = 1
  Epochs = {e1, e2}
  Expiring = {s2}
  None = None
  SizeOf <- CoarseSizes
INVARIANT
  ResumeStarts
