SPECIFICATION PromptSpec
CONSTANTS
  Names = {"n1", "n2"}
  Types = {"text"}
  Labels = {"production", "latest"}
  Latest = "latest"
  Contents = {{}}
  Clients = {"c1", "c2"}
  Unset = "unset"
  MaxPrompts = 2
  MaxRequests = 2
INVARIANTS
  LabelsUnique
CHECK_DEADLOCK FALSE
