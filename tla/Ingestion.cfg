SPECIFICATION MCSpec
CONSTANTS
  t1 = t1
  t2 = t2
  o1 = o1
  o2 = o2
  o3 = o3
  null = null
  Traces <- MCTraces
  Observations <- MCObservations
  Events <- MCEvents
  Usages <- MCUsages
  Values <- MCValues
  Null <- null
  Default <- MCDefault
  LegacyRows <- MCLegacyRows
  LegacyValue <- MCLegacyValue
  LegacyTs = 1
  Exports = {"q1", "q2", "q3", "q4"}
  SpansOf <- MCSpansOf
  Invalid <- MCInvalid
  Broken = {"q4"}
  Envelopes = {1, 2, 3, 4}
  Nobody = "nobody"
  MaxNow = 1
  MaxExports = 3
  Names = {"n1", "n2"}
  Types = {"text", "chat"}
  Labels = {"production", "latest"}
  Latest = "latest"
  Contents <- MCContents
  Clients = {"c1", "c2"}
  Unset = "unset"
  MaxPrompts = 2
  MaxRequests = 3
  Datasets = {"d1", "d2"}
  Items = {"i"}
  RunNames = {"n"}
  Callers = {"c1", "c2"}
  Api = "api"
  MaxInstant = 2
INVARIANTS
  IngestionInv
  AcknowledgedIsStored
  PromptsInv
  ItemsInv
PROPERTIES
  TouchedMeansTotal
  RetryChangesNothing
  ClaimSettles
  PastIsFixed
CONSTRAINT FewRequests
CHECK_DEADLOCK FALSE
