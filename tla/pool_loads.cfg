CONSTANTS
  fills = fills
  ragged = ragged
  tooBig = tooBig
  None = None
  Models <- AllModels
  Sizes <- ShardSizes
  PoolSize = 5
  ChunksPerShard = 2
  ShardsInParallel = 2
  Faults <- AnyFault
SPECIFICATION FairSpec
INVARIANTS
  TypeOK
  FreshLoadsAreComplete
PROPERTIES
  WritesInsideLayout
  LoadEnds
