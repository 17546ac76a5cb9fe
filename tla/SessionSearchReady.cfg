SPECIFICATION HistorySpec
CONSTANTS
  Traces <- MCTrace
  Observations <- MCObservation
  Chunks <- MCOneChunk
  Texts <- MCOneText
  TooLarge <- MCNothing
  i1 = i1
  i2 = i2
  Indexers = {i1}
  BackfillPage = 1
  DirtyPage = 1
  FragileSources <- MCNothing
  DecayingSources <- MCNothing
  MaxRevision = 1
  MaxRestarts = 0
INVARIANTS
  ReadyMeansCovered
