SPECIFICATION Spec
CONSTANTS
    Runs = {r1, r2}
    Sites = {"production", "staging"}
    Jobs <- Exports
    Paths = {p1, p2}
    Tables = {"node", "file"}
    Values = {"old", "new"}
    Absent = Absent
    Part = Part
    States <- MCStates
    None = None
    Budget <- OverlapBudget
INVARIANTS CopyIsRecent ImportIsComplete
SYMMETRY Interchangeable
