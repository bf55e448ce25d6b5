SPECIFICATION Spec
CONSTANTS
    Runs = {r1, r2}
    Sites = {"production", "staging"}
    Jobs <- MeetingJobs
    Files = {"block", "view"}
    Values = {"old", "new"}
    Absent = Absent
    Cut = Cut
    Configs <- MCConfigs
    Torn = Torn
    Foreign = Foreign
    Budget <- OverlapBudget
INVARIANTS TypeOK ExportIsFaithful ImportIsFaithful
PROPERTIES BadArchiveIsNotImported
