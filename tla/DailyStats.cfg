SPECIFICATION Spec
CONSTANTS
  Days <- MCDays
  Rows = {"o"}
  Values = {1}
  Queries = {"stats", "models"}
  Covers <- MCCoversOne
  Readers = {"r1"}
  Foreign = {"r1"}
  BackfillBatch = 1
  DirtyBatch = 1
  FragileDays <- MCFragile
  Cutoffs <- MCSecondDay
  MaxRevision = 2
  MaxRestarts = 1
CONSTRAINT OneTrouble
INVARIANTS
  StatsInv
  BackfillInv
PROPERTIES
  ExpiredStaysGone
