SPECIFICATION OperatedSpec
CONSTANTS
  Runs = {r1, r2}
  Trees = {a, b}
  None = None
  Torn = Torn
  Acceptable = {a, b}
  AmbiguousFailures = FALSE
  Budget <- ConvergenceBudget
PROPERTY Converges
