SPECIFICATION HSpec
CONSTANTS
  IntKey <- IntKeys
  s1 = s1 o1 = o1 v1 = v1 v2 = v2
  Pow2Key = {s1}
  ModKey = {o1}
  Collectable = {s1, o1}
  HashFunctions <- Hashes
  NewSizes <- Sizes
  Val = {v1, v2}
  nil = nil
  MAXBITS = 2
INVARIANT TableInv
INVARIANT NoNestedRehash
PROPERTY MapSpec
SYMMETRY Perms
VIEW TableView
