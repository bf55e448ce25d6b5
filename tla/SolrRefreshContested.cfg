SPECIFICATION ContestedSpec
CONSTANTS
  Runs = {r1, r2}
  Trees = {a, b}
  None = None
  Torn = Torn
  Acceptable = {a, b, Torn}
  AmbiguousFailures = TRUE
  Budget <- LivenessBudget
SYMMETRY RunSymmetry
INVARIANTS SuccessIsReal ReindexProgressIsTrue
PROPERTIES MarkerIsATransaction ReindexRequestIsKept
