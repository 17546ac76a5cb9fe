SPECIFICATION Spec
CONSTANTS
  Traces <- MCTrace
  Observations <- MCObservation
  Chunks <- MCOneChunk
  Texts <- MCOneText
  TooLarge <- MCNothing
  i1 = i1
  i2 = i2
  Indexers = {i1, i2}
  BackfillPage = 1
  DirtyPage = 1
  FragileSources <- MCTrace
  DecayingSources <- MCObservation
  MaxRevision = 2
  MaxRestarts = 1
SYMMETRY MCIndexerSymmetry
INVARIANTS
  SearchInv
CONSTRAINT FewTroubles
