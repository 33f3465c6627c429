SPECIFICATION MSpec
CONSTANTS
  IntKey <- IntKeys
  o1 = o1 o2 = o2 o3 = o3 v1 = v1
  Pow2Key = {}
  ModKey = {o1, o2}
  Collectable = {o1, o2}
  HashFunctions <- Hashes
  NewSizes <- Sizes
  Val = {v1}
  nil = nil
  MAXBITS = 2
INVARIANT NextAssociated
