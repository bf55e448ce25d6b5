SPECIFICATION FairSpec
CONSTANTS
    Runs = {r1}
    Sites = {"production", "staging"}
    Jobs <- OneSync
    Files = {"block", "view"}
    Values = {"old", "new"}
    Absent = Absent
    Cut = Cut
    Configs <- MCConfigs
    Torn = Torn
    Foreign = Foreign
    Budget <- RecoveryBudget
INVARIANTS ImportIsFaithful
PROPERTIES TargetCatchesUp
