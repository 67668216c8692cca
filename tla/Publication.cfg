SPECIFICATION Spec
CONSTANTS
  Files = {f1, f2, f3}
  MaxDigest = 2
INVARIANTS
  TypeOK
  PublishedIsRemote
