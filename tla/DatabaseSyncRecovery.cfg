SPECIFICATION FairSpec
CONSTANTS
    Runs = {r1}
    Sites = {"production", "staging"}
    Jobs <- Imports
    Paths = {p1}
    Tables = {"node", "file"}
    Values = {"old", "new"}
    Absent = Absent
    Part = Part
    States <- MCStates
    None = None
    Budget <- RecoveryBudget
INVARIANTS TypeOK CopyIsRecent ImportIsComplete
PROPERTIES CutArtifactIsOutlived
