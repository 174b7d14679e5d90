SPECIFICATION NodesSpec
CONSTANTS
  Sizes <- MCSizes
  Insitu <- MCInsitu
  MIN_CHUNK_SIZE = 80
  MaxChunks <- MCMaxChunks
  MaxBlocks = 3
  NodeSizes <- MCNodeSizes
  ObjectCount = 1
  WordBits = 2
  PoolSize = 8
  MaxNodes = 9
INVARIANTS
  NodesTypeOK
  ServedInOneChunk
  EachNodeDestroyedOnce
PROPERTY KeepsPromise
CHECK_DEADLOCK FALSE
