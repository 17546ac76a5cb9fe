SPECIFICATION MCSpec
CONSTANTS
  Days <- MCDays
  Rows = {"o"}
  Values = {1}
  Queries = {"all"}
  Covers <- MCCoversRow
  Readers = {"r1"}
  Foreign = {}
  BackfillBatch = 1
  DirtyBatch = 1
  FragileDays <- MCFragile
  Cutoffs <- MCDays
  MaxRevision = 1
  MaxRestarts = 1
  Projects <- MCProjects
  RoundSteps = 3
  MaxSteps = 2
  MaxStepsPerProject = 2
  BadRoots <- MCFirst
  BadStates <- MCFirst
  MaxErrors = 1
  MaxPurges = 1
  MaxBoots = 2
INVARIANTS
  JobInv
PROPERTIES
  OthersConverge
  EveryProjectServed
  GarbageGoes
  HistoryIndexed
