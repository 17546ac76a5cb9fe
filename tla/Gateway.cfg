SPECIFICATION MCSpec
CONSTANTS
  Requests = {"r1", "r2", "r3"}
  Other = "r3"
  Keys = {"k1", "k2"}
  KeyOf <- MCKeyOf
  MaxActive = 2
  MaxParallel <- OnlyFirst
  RpmLimit <- OnlyFirst
  MaxBudget <- OnlyFirst
  MaxReports = 1
  MaxDues = 1
  MaxRestarts = 1
  Calls = {"c1", "c2"}
  Providers = {"p1", "p2"}
  Sound = "p2"
  Threshold = 3
  MaxMissed = 1
INVARIANTS
  CapacityExact
  AnswersAreTrue
  AccountsAgree
  FailuresActedOn
PROPERTIES
  CapacityReturns
CHECK_DEADLOCK FALSE
