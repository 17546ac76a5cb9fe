SPECIFICATION MCSpec
CONSTANTS
  Ids <- MCIds
  Hashes <- MCOneHash
  Inputs <- MCOneInput
  RootBatch = 1
  SweepBatch = 1
  MaxEpoch = 1
  FragileIds <- MCFragileIds
  FragileHashes <- MCOneHash
  Runners = {"r1", "r2"}
  JobOf <- MCTwoJobs
  BatchRows = 2
  MaxPass = 2
INVARIANTS
  MigrationPoolInv
  CursorCovers
PROPERTIES
  ReencodingKeepsText
