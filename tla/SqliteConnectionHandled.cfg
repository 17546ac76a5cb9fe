SPECIFICATION Spec
CONSTANTS
  Clients = {"w", "close"}
  Closer = "close"
  KindOf <- MCKinds
  Statements = {"s1", "s2"}
INVARIANTS
  HandledErrorsForgiven
