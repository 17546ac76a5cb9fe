SPECIFICATION FairSpec
CONSTANTS
  Ids <- MCIds
  Hashes <- MCHashes
  Inputs <- MCInputs
  RootBatch = 2
  SweepBatch = 1
  MaxEpoch = 2
  FragileIds <- MCFragileIds
  FragileHashes <- MCFragileHashes
INVARIANTS
  PoolInv
PROPERTIES
  SweepIsComplete
  NoRootOntoRottenChunk
  StoreSpec
  GarbageCollected
