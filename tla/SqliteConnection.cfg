SPECIFICATION FairSpec
CONSTANTS
  Clients = {"w", "r", "q", "s", "close"}
  Closer = "close"
  KindOf <- MCKinds
  Statements = {"s1"}
INVARIANTS
  SafeHandle
  AnswersAreTrue
PROPERTIES
  LockSpec
  CloseEnds
