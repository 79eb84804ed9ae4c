SPECIFICATION PartSpec
CONSTANTS
  ChunkIds = {c1, c2, c3}
  NULL = NULL
  ChunkHeaderBytes = 4
  DefaultChunkBytes = 24
  PageBytes = 8
  MaxSingleObject = 32
  HeaderBytes = 2
  CacheLine = 4
  WordSize = 128
  Sizes = {3, 22, 40}
  Callers = {t1, t2, t3}
  Threads = {u1, u2}
  NumPages = 5
  Foreign = {1, 2}
  MaxPages = 2
  kMaxJitRegions = 2
INVARIANTS
  ObjectsDisjoint
  ObjectsInMappedChunk
  FreshFieldsZero
  ChainIsMapped
  BuiltOnce
  UsersSeeBuilt
  WriteXorExecute
  OnlyStraddlesFault
  CodeExecutable
PROPERTIES
  ImplementsStore
  EveryCallReturns
  OnlyJitReprotected
