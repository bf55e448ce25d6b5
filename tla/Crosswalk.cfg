SPECIFICATION FairSpec
CONSTANTS
  Maximum = 3
  Archives = {0, 1, 3, 4}
  Words <- MCWords
  Arguments <- MCArguments
  Current = "current"
  None = None
INVARIANTS TypeOK InputsDecide
PROPERTY EndingLeavesNothing
CHECK_DEADLOCK FALSE
