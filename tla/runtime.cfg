CONSTANTS
  Parts = {"meta", "strings", "finalizers", "refs", "buffers", "sort", "match", "require", "io", "dump", "next"}
  Tables = {"a", "m"}
  Functions = {"f", "g"}
  MAXTAGLOOP = 3
  SelfMeta = FALSE
  SelfNewindex = FALSE
  Contents = {0, 1, 5, 7}
  HashOf <- H
  MINSTRTABSIZE = 1
  MaxSize = 8
  MaxUdata = 3
  Objects = {x, y}
  IntKey <- IntKeys
  o1 = o1 o2 = o2 o3 = o3 v1 = v1
  Pow2Key = {}
  ModKey = {o1, o2}
  Collectable = {o1, o2}
  HashFunctions <- Hashes
  NewSizes <- Sizes
  Val = {v1}
  nil = nil nilvalue = nilvalue
  MAXBITS = 2
  MaxRef = 4
  LUAL_BUFFERSIZE = 2
  LIMIT = 4
  MaxAdded = 16
  MaxN = 5
  MaxLawlessN = 4
  Patterns <- SomePatterns
  Subjects <- AllSubjects
  LUA_MAXCAPTURES = 2
  Names = {"p", "q"}
  MaxDepth = 3
  MaxHandles = 4
  MaxIters = 1
  Protos <- SomeProtos
  ChunkSizes = {1, 2, 3, 7, 200}
  LUAI_MAXCCALLS = 3
SPECIFICATION RSpec
INVARIANT HandlersRight
INVARIANT StringsUnique
INVARIANT FinalizersRight
INVARIANT RefsRight
INVARIANT BufferRight
INVARIANT SortRight
INVARIANT MatchesRight
 
 
INVARIANT ChunksRight
INVARIANT TraversalRight
PROPERTY VisitsEach
CHECK_DEADLOCK FALSE
SYMMETRY Perms
