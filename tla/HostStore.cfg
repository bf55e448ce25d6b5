SPECIFICATION FairSpec
CONSTANTS
  Publishers = {p1, p2}
  Trees = {a, b}
  None = None
  Torn = Torn
  Budget <- TwoFaultsAndTwoCrashes
INVARIANTS TypeOK PublishContract OneFailureKeepsRoot
PROPERTIES TrackedIsNeverLost RootReturns
