SPECIFICATION Spec
CONSTANTS
  Runs = {r1}
  Trees = {a, b}
  None = None
  Torn = Torn
  Acceptable = {a}
  AmbiguousFailures = FALSE
  Budget <- SafetyBudget
INVARIANTS TypeOK RollbackAvailable SolrReadsWholeTrees AcceptedIsServed MarkerlessPendingIsDisposable
