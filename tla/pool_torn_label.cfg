CONSTANTS
  fills = fills
  ragged = ragged
  tooBig = tooBig
  None = None
  Models <- AllModels
  Sizes <- ShardSizes
  PoolSize = 5
  ChunksPerShard = 2
  ShardsInParallel = 2
  Faults <- ReadFault
SPECIFICATION Spec
INVARIANTS
  LabelTellsContents
