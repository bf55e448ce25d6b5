SPECIFICATION FairSpec
CONSTANTS
  Runs = {r1}
  Trees = {a, b}
  None = None
  Torn = Torn
  Acceptable = {a, b}
  AmbiguousFailures = FALSE
  Budget <- LivenessBudget
INVARIANT OneFailureLeavesConf
PROPERTIES PendingCompletes ConfRestored
